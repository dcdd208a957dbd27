--------------------------- MODULE FileDataProofs ---------------------------
(***************************************************************************)
(* Proofs about FileData, for any number of processes, buckets, files and  *)
(* descriptors, any size of a bucket and any calls.  The calls of several  *)
(* processes interleave bucket by bucket, and no lock orders them.         *)
(*                                                                         *)
(* FileInv is inductive: each bucket has at most one bucket before it, and *)
(* a rank that grows along the links.  From that follows what ChainsSound  *)
(* says of the walks that the calls make along next_ix.                    *)
(***************************************************************************)
EXTENDS FileData, FiniteSetTheorems, WellFoundedInduction, TLAPS

(* The links of the buckets, the first buckets of the files, and the       *)
(* buckets in use, taken by themselves.                                    *)
NextIx == [b \in Bucket |-> db[b].next_ix]

First == [m \in Meta |-> mb[m].first_dbucket]

Used == {b \in Bucket : db[b].in_use}

(* The links make chains. A free bucket points nowhere. Along a link the   *)
(* rank grows, so that no chain comes back to a bucket. A bucket in use    *)
(* has at most one bucket before it, and a first bucket none. No two       *)
(* files have the same first bucket.                                       *)
Linked(next, first, used, rank) ==
  /\ \A b \in Bucket \ used : next[b] = NoBucket
  /\ \A b \in used : next[b] # NoBucket => next[b] \in used /\ rank[b] < rank[next[b]]
  /\ \A b, c \in used : next[b] # NoBucket /\ next[b] = next[c] => b = c
  /\ \A m \in Meta : first[m] # NoBucket =>
       first[m] \in used /\ \A b \in used : next[b] # first[m]
  /\ \A m, k \in Meta : first[m] # NoBucket /\ first[m] = first[k] => m = k

(* There are ranks of that kind. The order in which the allocator          *)
(* handed the buckets out is one: a link is only ever set to a bucket      *)
(* just taken.                                                             *)
ChainInv == \E rank \in [Bucket -> Nat] : Linked(NextIx, First, Used, rank)

(* A bucket in use, or the -1 of none. *)
UsedOrNone == Used \cup {NoBucket}

(* Cursors, calls that are under way and descriptors only know buckets in  *)
(* use: no bucket is ever freed.                                           *)
HandInv ==
  /\ \A m \in Meta : mb[m].last_dbucket \in UsedOrNone
  /\ \A p \in Proc : me[p].dbindex \in UsedOrNone
  /\ \A p \in Proc : \A f \in Fd : fdTable[p][f].dbindex \in UsedOrNone

(* The types of the control points, buckets, meta buckets, descriptors,    *)
(* calls and locals.                                                       *)
Control == {"idle", "read", "upload", "trunc", "append", "cursor", "loop", "alloc", "end",
            "size", "flush", "gather", "disk", "closed", "dead", "wild"}

BucketT == [in_use : BOOLEAN, next_ix : BucketOrNone, bytes : 0..DBUCKET_BUF_SIZE,
            buf : [1..DBUCKET_BUF_SIZE -> Byte]]

MetaT == [in_use : BOOLEAN, path : Path \cup {NoPath}, first_dbucket : BucketOrNone,
          last_dbucket : BucketOrNone, last_db_offset : Nat, st_size : Nat,
          consisent : BOOLEAN]

FdT == [mindex : Meta \cup {NoMeta}, offset : Int, dbindex : BucketOrNone]

CallT == Call \cup [op : {"none"}]
           \cup [op : {"exec", "cleanup"}, path : Path \cup {NoPath}]

LocalT == [pc : Control, session : DOMAIN Sessions, call : CallT, m : Meta \cup {NoMeta},
           dbindex : BucketOrNone, off : Nat, n : Nat, out : Seq(Byte), size_ind : Nat,
           todo : Seq(Meta), calm : BOOLEAN]

(* The type part of the invariant. It is finer than TypeOK, which leaves   *)
(* out the calls and the buffers.                                          *)
TypeInv ==
  /\ db \in [Bucket -> BucketT]
  /\ mb \in [Meta -> MetaT]
  /\ fdTable \in [Proc -> [Fd -> FdT]]
  /\ \A f \in DOMAIN disk : f \in Path \cup {NoPath} /\ disk[f] \in Seq(Byte)
  /\ me \in [Proc -> LocalT]

(* What the locals l of a call say at each control point: it has a meta    *)
(* bucket, it has copied no more than it was asked to, the file it         *)
(* uploads is there, and so on; files are those on disk.                   *)
LocalOK(l, files) ==
  /\ l.pc \in {"read", "upload", "trunc", "append", "cursor", "loop", "alloc", "end",
               "size", "gather", "disk"} => l.m \in Meta
  /\ l.pc \in {"read", "upload"} => l.call.op = "open"
  /\ l.pc = "read" => l.call.path \in files /\ l.n = 0
  /\ l.pc = "upload" => l.n <= Len(l.out)
  /\ l.pc \in {"loop", "alloc", "end"} =>
       \/ l.call.op \in {"read", "pread"} /\ l.n <= l.call.count /\ l.pc # "alloc"
       \/ l.call.op \in {"write", "pwrite"} /\ l.n <= Len(l.call.data)
  /\ l.pc = "alloc" => l.dbindex # NoBucket
  /\ l.pc \in {"flush", "gather", "disk"} => l.call.op \in {"exec", "cleanup"}

(* Every process has locals of that kind. *)
LocalInv == \A p \in Proc : LocalOK(me[p], DOMAIN disk)

(* The inductive invariant. *)
FileInv == TypeInv /\ LocalInv /\ ChainInv /\ HandInv

(* A free bucket may become the first one of a file (create_new_file,      *)
(* upload_file).                                                           *)
LEMMA LinkFirst ==
  ASSUME NEW next \in [Bucket -> BucketOrNone], NEW first \in [Meta -> BucketOrNone],
         NEW used \in SUBSET Bucket, NEW rank, Linked(next, first, used, rank),
         NEW b \in Bucket \ used, NEW m \in Meta,
         NEW first2, first2 = [first EXCEPT ![m] = b]
  PROVE  Linked(next, first2, used \cup {b}, rank)
  BY FileAssumption DEF Linked, BucketOrNone

(* A free bucket may be linked after any bucket c in use, also when c has  *)
(* a successor already: the successor and what follows it are cut off,     *)
(* and get no second bucket before them.                                   *)
LEMMA LinkAfter ==
  ASSUME NEW next \in [Bucket -> BucketOrNone], NEW first \in [Meta -> BucketOrNone],
         NEW used \in SUBSET Bucket, NEW rank \in [Bucket -> Nat],
         Linked(next, first, used, rank),
         NEW b \in Bucket \ used, NEW c \in used,
         NEW next2, next2 = [next EXCEPT ![c] = b],
         NEW rank2, rank2 = [rank EXCEPT ![b] = rank[c] + 1]
  PROVE  Linked(next2, first, used \cup {b}, rank2)
  BY FileAssumption DEF Linked, BucketOrNone

(* A file may lose its first bucket (unlink): the chain stays, and is no   *)
(* file any more.                                                          *)
LEMMA LinkLess ==
  ASSUME NEW next \in [Bucket -> BucketOrNone], NEW first \in [Meta -> BucketOrNone],
         NEW used \in SUBSET Bucket, NEW rank, Linked(next, first, used, rank),
         NEW first2, \A m \in Meta : first2[m] = first[m] \/ first2[m] = NoBucket
  PROVE  Linked(next, first2, used, rank)
  BY FileAssumption DEF Linked, BucketOrNone

-----------------------------------------------------------------------------
(* Calls and locals                                                        *)

(* The arguments of the calls have their types. *)
LEMMA CallFields ==
  ASSUME NEW call \in CallT
  PROVE  /\ call.op = "open" => call.path \in Path
         /\ call.op \in {"read", "pread"} => call.count \in Nat
         /\ call.op \in {"write", "pwrite"} => call.data \in Seq(Byte)
         /\ call.op \in {"read", "write", "pread", "pwrite", "close"} => call.fd \in Fd
         /\ call.op \in {"pread", "pwrite"} => call.offset \in Nat
  BY DEF CallT, Call

(* A call that a process makes is one that its session allows it. *)
LEMMA Called ==
  ASSUME TypeInv, NEW p \in Proc, NEW op, NEW call \in Calls(p, op)
  PROVE  call \in Call /\ call \in CallT /\ call.op = op /\ me[p].pc = "idle"
<1>1. me[p].pc = "idle" /\ call \in Sessions[me[p].session].jobs[p] /\ call.op = op
  BY DEF Calls
<1>2. me[p].session \in DOMAIN Sessions
  BY DEF TypeInv, LocalT
<1> QED
  BY <1>1, <1>2, SessionAssumption DEF CallT

(* The locals k agree with l on all that the invariant mentions. *)
Alike(l, k) ==
  /\ k.pc = l.pc /\ k.call = l.call /\ k.m = l.m /\ k.dbindex = l.dbindex
  /\ k.n = l.n /\ k.out = l.out

(* Process p may have moved; the others keep their locals, but for the     *)
(* mark that another call disturbed them.                                  *)
Moved(p) ==
  /\ me' \in [Proc -> LocalT]
  /\ \A q \in Proc : q # p => Alike(me[q], me'[q])

(* The locals of a process between two calls. *)
LEMMA RestType ==
  ASSUME TypeInv, NEW p \in Proc
  PROVE  /\ Rest(p) \in LocalT /\ Rest(p).pc = "idle" /\ Rest(p).m = NoMeta
         /\ Rest(p).n = 0 /\ Rest(p).out = <<>> /\ Rest(p).dbindex = NoBucket
         /\ Rest(p).todo = <<>> /\ Rest(p).off = 0 /\ Rest(p).size_ind = 0
<1>1. me[p].session \in DOMAIN Sessions
  BY DEF TypeInv, LocalT
<1> QED
  BY <1>1 DEF Rest, Idle, LocalT, Control, CallT, BucketOrNone

(* Setting the locals of p moves p. *)
LEMMA MovedTo ==
  ASSUME TypeInv, NEW p \in Proc, NEW k \in LocalT, me' = [me EXCEPT ![p] = k]
  PROVE  Moved(p) /\ me'[p] = k
  BY DEF TypeInv, Moved, Alike

(* So does setting them while the other calls are marked as disturbed. *)
LEMMA DisturbedMoves ==
  ASSUME TypeInv, NEW p \in Proc, NEW k \in LocalT, me' = [Disturbed EXCEPT ![p] = k]
  PROVE  Moved(p) /\ me'[p] = k
<1>1. ASSUME NEW q \in Proc
      PROVE  /\ [me[q] EXCEPT !.calm = FALSE] \in LocalT
             /\ Alike(me[q], [me[q] EXCEPT !.calm = FALSE])
  <2>1. me[q] \in LocalT
    BY DEF TypeInv
  <2> QED
    BY <2>1, ZenonT(40) DEF LocalT, Alike
<1>2. Disturbed \in [Proc -> LocalT] /\ \A q \in Proc : Alike(me[q], Disturbed[q])
  BY <1>1 DEF Disturbed
<1> QED
  BY <1>2 DEF Moved

(* A process that enters a call has the call's arguments and nothing       *)
(* copied.                                                                 *)
LEMMA EnterMoves ==
  ASSUME TypeInv, NEW p \in Proc, NEW call \in CallT, NEW pc \in Control,
         NEW m \in Meta \cup {NoMeta}, NEW b \in BucketOrNone, NEW off \in Nat,
         Enter(p, call, pc, m, b, off)
  PROVE  /\ Moved(p) /\ me'[p].pc = pc /\ me'[p].call = call /\ me'[p].m = m
         /\ me'[p].dbindex = b /\ me'[p].n = 0 /\ me'[p].out = <<>>
<1> DEFINE k == [Rest(p) EXCEPT !.pc = pc, !.call = call, !.m = m,
                                 !.dbindex = b, !.off = off]
<1>1. /\ k \in LocalT /\ k.pc = pc /\ k.call = call /\ k.m = m /\ k.dbindex = b
      /\ k.n = 0 /\ k.out = <<>>
  BY RestType, ZenonT(40) DEF LocalT
<1>2. me' = [Disturbed EXCEPT ![p] = k]
  BY DEF Enter
<1> HIDE DEF k
<1> QED
  BY <1>1, <1>2, DisturbedMoves, ZenonT(40)

(* A process that exits has no bucket in hand. *)
LEMMA DieMoves ==
  ASSUME TypeInv, NEW p \in Proc, Die(p)
  PROVE  Moved(p) /\ me'[p].pc = "dead" /\ me'[p].dbindex = NoBucket
<1> DEFINE k == [Rest(p) EXCEPT !.pc = "dead"]
<1>1. k \in LocalT /\ k.pc = "dead" /\ k.dbindex = NoBucket
  BY RestType DEF LocalT, Control
<1>2. me' = [Disturbed EXCEPT ![p] = k]
  BY DEF Die
<1> HIDE DEF k
<1> QED
  BY <1>1, <1>2, DisturbedMoves, ZenonT(40)

-----------------------------------------------------------------------------
(* What keeps the invariant                                                *)

(* The types of the links. *)
LEMMA LinkTypes ==
  ASSUME TypeInv
  PROVE  /\ NextIx \in [Bucket -> BucketOrNone] /\ First \in [Meta -> BucketOrNone]
         /\ Used \in SUBSET Bucket
  BY DEF TypeInv, NextIx, First, Used, BucketT, MetaT

(* A link leads to a bucket in use. *)
LEMMA Links ==
  ASSUME TypeInv, ChainInv
  PROVE  /\ \A b \in Bucket : db[b].next_ix \in UsedOrNone
         /\ \A m \in Meta : mb[m].first_dbucket \in UsedOrNone
<1>1. PICK rank \in [Bucket -> Nat] : Linked(NextIx, First, Used, rank)
  BY DEF ChainInv
<1> QED
  BY <1>1, LinkTypes, ZenonT(40) DEF Linked, NextIx, First, UsedOrNone

(* A step of p keeps the invariant if it keeps types and chains, frees no  *)
(* bucket, removes no file from disk, and leaves p and the cursors with    *)
(* buckets in use.                                                         *)
LEMMA Settle ==
  ASSUME FileInv, NEW p \in Proc, Moved(p), TypeInv', ChainInv',
         DOMAIN disk \subseteq DOMAIN disk', Used \subseteq Used',
         LocalOK(me'[p], DOMAIN disk'), me'[p].dbindex \in UsedOrNone',
         \A m \in Meta : mb'[m].last_dbucket \in UsedOrNone',
         \A q \in Proc : \A f \in Fd : fdTable'[q][f].dbindex \in UsedOrNone'
  PROVE  FileInv'
<1>1. LocalInv'
  <2>1. ASSUME NEW q \in Proc, q # p
        PROVE  LocalOK(me'[q], DOMAIN disk')
    <3>1. LocalOK(me[q], DOMAIN disk) /\ Alike(me[q], me'[q])
      BY <2>1 DEF FileInv, LocalInv, Moved
    <3> QED
      BY <3>1 DEF LocalOK, Alike
  <2> QED
    BY <2>1, ZenonT(40) DEF LocalInv
<1>2. \A q \in Proc : me'[q].dbindex \in UsedOrNone'
  BY DEF FileInv, HandInv, Moved, Alike, UsedOrNone
<1> QED
  BY <1>1, <1>2 DEF FileInv, HandInv

(* Descriptors that do not change still know buckets in use. *)
LEMMA FdsKept ==
  ASSUME FileInv, fdTable' = fdTable, Used \subseteq Used'
  PROVE  \A q \in Proc : \A f \in Fd : fdTable'[q][f].dbindex \in UsedOrNone'
  BY DEF FileInv, HandInv, UsedOrNone

(* So do cursors. *)
LEMMA LastsKept ==
  ASSUME FileInv, mb' = mb, Used \subseteq Used'
  PROVE  \A m \in Meta : mb'[m].last_dbucket \in UsedOrNone'
  BY DEF FileInv, HandInv, UsedOrNone

(* A step that sets no next_ix, takes no bucket, and sets no               *)
(* first_dbucket but to none.                                              *)
SameLinks ==
  /\ NextIx' = NextIx /\ Used' = Used
  /\ \A m \in Meta : First'[m] = First[m] \/ First'[m] = NoBucket

(* Such a step keeps the chains. *)
LEMMA ChainsKept ==
  ASSUME TypeInv, ChainInv, SameLinks
  PROVE  ChainInv'
<1>1. PICK rank \in [Bucket -> Nat] : Linked(NextIx, First, Used, rank)
  BY DEF ChainInv
<1>2. Linked(NextIx', First', Used', rank)
  BY <1>1, LinkTypes, LinkLess DEF SameLinks
<1> QED
  BY <1>2 DEF ChainInv

(* A step that changes the locals of p alone keeps the invariant if they   *)
(* are right afterwards.                                                   *)
LEMMA MeStep ==
  ASSUME FileInv, NEW p \in Proc, Moved(p), UNCHANGED <<db, mb, fdTable, disk>>,
         LocalOK(me'[p], DOMAIN disk), me'[p].dbindex \in UsedOrNone
  PROVE  FileInv'
<1>1. TypeInv'
  BY DEF FileInv, TypeInv, Moved
<1>2. Used' = Used /\ NextIx' = NextIx /\ First' = First /\ UsedOrNone' = UsedOrNone
  BY DEF Used, NextIx, First, UsedOrNone
<1>3. ChainInv'
  BY <1>2, ChainsKept DEF SameLinks, FileInv
<1> QED
  BY <1>1, <1>2, <1>3, Settle, FdsKept, LastsKept, ZenonT(40)

-----------------------------------------------------------------------------
(* Steps that change locals only                                           *)

(* The invariant, seen from one process. *)
LEMMA Hypotheses ==
  ASSUME FileInv, NEW p \in Proc
  PROVE  /\ TypeInv /\ ChainInv /\ LocalOK(me[p], DOMAIN disk) /\ me[p] \in LocalT
         /\ me[p].dbindex \in UsedOrNone
         /\ UsedOrNone \subseteq BucketOrNone /\ NoBucket \in UsedOrNone
  BY DEF FileInv, LocalInv, TypeInv, HandInv, UsedOrNone, BucketOrNone, Used

(* open finds the file in memory (file_syscalls.c 109-123). *)
LEMMA OpenFoundStep ==
  ASSUME FileInv, NEW p \in Proc, OpenFound(p)
  PROVE  FileInv'
<1>1. PICK call \in Calls(p, "open") : \E m \in Named(call.path) :
        /\ Enter(p, call, IF call.flags = "trunc" THEN "trunc" ELSE AfterLookup(call),
                 m, mb[m].first_dbucket, 0)
        /\ UNCHANGED <<db, mb, fdTable, disk>>
  BY DEF OpenFound
<1>2. PICK m \in Named(call.path) :
        /\ Enter(p, call, IF call.flags = "trunc" THEN "trunc" ELSE AfterLookup(call),
                 m, mb[m].first_dbucket, 0)
        /\ UNCHANGED <<db, mb, fdTable, disk>>
  BY <1>1
<1> DEFINE pc == IF call.flags = "trunc" THEN "trunc" ELSE AfterLookup(call)
<1>3. pc \in Control /\ pc \in {"trunc", "append", "cursor"}
  BY DEF AfterLookup, Control
<1> HIDE DEF pc
<1>4. m \in Meta /\ mb[m].first_dbucket \in UsedOrNone /\ call \in CallT
  BY Hypotheses, Links, Called, ZenonT(40) DEF Named
<1>5. /\ Moved(p) /\ me'[p].pc = pc /\ me'[p].m = m
      /\ me'[p].dbindex = mb[m].first_dbucket
  BY <1>2, <1>3, <1>4, Hypotheses, EnterMoves DEF pc
<1>6. LocalOK(me'[p], DOMAIN disk)
  BY <1>3, <1>4, <1>5 DEF LocalOK
<1> QED
  BY <1>2, <1>4, <1>5, <1>6, MeStep, ZenonT(40)

(* upload_file reads fewer bytes than fstat promised, and exits (util.c    *)
(* 53-56).                                                                 *)
LEMMA UploadShortStep ==
  ASSUME FileInv, NEW p \in Proc, UploadShort(p)
  PROVE  FileInv'
<1>1. Moved(p) /\ me'[p] = Rest(p)
  BY Hypotheses, RestType, MovedTo, ZenonT(40) DEF UploadShort
<1>2. LocalOK(me'[p], DOMAIN disk) /\ me'[p].dbindex \in UsedOrNone
  BY <1>1, Hypotheses, RestType, ZenonT(40) DEF LocalOK
<1> QED
  BY <1>1, <1>2, MeStep DEF UploadShort

(* A process that exits changes nothing it shares with the others. *)
LEMMA DieStep ==
  ASSUME FileInv, NEW p \in Proc, Die(p), UNCHANGED <<db, mb, fdTable, disk>>
  PROVE  FileInv'
<1>1. Moved(p) /\ me'[p].pc = "dead" /\ me'[p].dbindex = NoBucket
  BY Hypotheses, DieMoves
<1>2. LocalOK(me'[p], DOMAIN disk)
  BY <1>1 DEF LocalOK
<1> QED
  BY <1>1, <1>2, Hypotheses, MeStep

(* upload_file has copied all it read (file_syscalls.c 109-119). *)
LEMMA UploadDoneStep ==
  ASSUME FileInv, NEW p \in Proc, UploadDone(p)
  PROVE  FileInv'
<1> DEFINE call == me[p].call
           m == me[p].m
           pc == AfterLookup(call)
<1>1. pc \in Control /\ pc \in {"append", "cursor"}
  BY ZenonT(40) DEF AfterLookup, Control
<1>2. call \in CallT /\ m \in Meta /\ mb[m].first_dbucket \in UsedOrNone
  BY Hypotheses, Links DEF UploadDone, LocalOK, LocalT
<1>3. Enter(p, call, pc, m, mb[m].first_dbucket, 0)
  BY DEF UploadDone
<1> HIDE DEF call, m, pc
<1>4. /\ Moved(p) /\ me'[p].pc = pc /\ me'[p].m = m
      /\ me'[p].dbindex = mb[m].first_dbucket
  BY <1>1, <1>2, <1>3, Hypotheses, EnterMoves
<1>5. LocalOK(me'[p], DOMAIN disk)
  BY <1>1, <1>2, <1>4 DEF LocalOK
<1> QED
  BY <1>2, <1>4, <1>5, MeStep DEF UploadDone

(* open with O_APPEND goes to the next bucket (file_syscalls.c 189-201). *)
LEMMA AppendBucketStep ==
  ASSUME FileInv, NEW p \in Proc, AppendBucket(p)
  PROVE  FileInv'
<1> DEFINE b == me[p].dbindex
           k == [me[p] EXCEPT !.dbindex = db[b].next_ix]
<1>1. b \in Bucket /\ db[b].next_ix \in UsedOrNone
  BY Hypotheses, Links DEF AppendBucket, BucketOrNone
<1>2. k \in LocalT /\ k.dbindex \in UsedOrNone /\ k.pc = "append" /\ k.m = me[p].m
  BY <1>1, Hypotheses, ZenonT(40) DEF LocalT, AppendBucket
<1>3. me' = [me EXCEPT ![p] = k]
  BY Hypotheses DEF AppendBucket, TypeInv
<1> HIDE DEF b, k
<1>4. Moved(p) /\ me'[p] = k
  BY <1>2, <1>3, Hypotheses, MovedTo, ZenonT(40)
<1>5. LocalOK(me'[p], DOMAIN disk)
  BY <1>2, <1>4, Hypotheses DEF LocalOK, AppendBucket
<1> QED
  BY <1>2, <1>4, <1>5, MeStep, ZenonT(40) DEF AppendBucket

(* A process that reads or writes outside the structures is left at that:  *)
(* what it does afterwards is not modelled.                                *)
LEMMA WildStep ==
  ASSUME FileInv, NEW p \in Proc, me' = [me EXCEPT ![p] = [Rest(p) EXCEPT !.pc = "wild"]],
         UNCHANGED <<db, mb, fdTable, disk>>
  PROVE  FileInv'
<1> DEFINE k == [Rest(p) EXCEPT !.pc = "wild"]
<1>1. k \in LocalT /\ k.pc = "wild" /\ k.dbindex = NoBucket
  BY Hypotheses, RestType, ZenonT(120) DEF LocalT, Control
<1>2. me' = [me EXCEPT ![p] = k]
  OBVIOUS
<1> HIDE DEF k
<1>3. Moved(p) /\ me'[p] = k
  BY <1>1, <1>2, Hypotheses, MovedTo, ZenonT(40)
<1>4. LocalOK(me'[p], DOMAIN disk)
  BY <1>1, <1>3 DEF LocalOK
<1> QED
  BY <1>1, <1>3, <1>4, Hypotheses, MeStep, ZenonT(40)

(* A call on a descriptor that is open has a meta bucket. *)
LEMMA FdCalled ==
  ASSUME FileInv, NEW p \in Proc, NEW op, NEW call \in FdCalls(p, op),
         op \in {"read", "write", "pread", "pwrite", "close"}
  PROVE  /\ call \in CallT /\ call.op = op /\ call.fd \in Fd
         /\ fdTable[p][call.fd] \in FdT /\ fdTable[p][call.fd].mindex \in Meta
         /\ fdTable[p][call.fd].dbindex \in UsedOrNone
<1>1. call \in Calls(p, op) /\ fdTable[p][call.fd].mindex # NoMeta
  BY DEF FdCalls
<1>2. call \in CallT /\ call.op = op /\ call.fd \in Fd
  BY <1>1, Hypotheses, Called, CallFields
<1>3. fdTable[p][call.fd] \in FdT /\ fdTable[p][call.fd].dbindex \in UsedOrNone
  BY <1>2 DEF FileInv, TypeInv, HandInv
<1> QED
  BY <1>1, <1>2, <1>3 DEF FdT

(* A call that starts to copy has n = 0 bytes behind it, of as many as it  *)
(* was given.                                                              *)
LEMMA LoopStarts ==
  ASSUME NEW l \in LocalT, NEW files, l.pc = "loop", l.m \in Meta, l.n = 0,
         l.call.op \in {"read", "write", "pread", "pwrite"}
  PROVE  LocalOK(l, files)
<1>1. /\ l.call.op \in {"read", "pread"} => l.call.count \in Nat
      /\ l.call.op \in {"write", "pwrite"} => l.call.data \in Seq(Byte)
  BY CallFields DEF LocalT
<1>2. l.call.op \in {"write", "pwrite"} => Len(l.call.data) \in Nat
  BY <1>1
<1>3. /\ l.call.op \in {"read", "pread"} => l.n <= l.call.count
      /\ l.call.op \in {"write", "pwrite"} => l.n <= Len(l.call.data)
  BY <1>1, <1>2
<1> QED
  BY <1>3 DEF LocalOK

(* read and write start at the cursor of the file (file_syscalls.c         *)
(* 282-305, 351-375).                                                      *)
LEMMA AtCursorStep ==
  ASSUME FileInv, NEW p \in Proc, NEW op, op \in {"read", "write"}, AtCursor(p, op)
  PROVE  FileInv'
<1>1. PICK call \in FdCalls(p, op) :
        LET m == fdTable[p][call.fd].mindex IN
        /\ Enter(p, call, "loop", m, mb[m].last_dbucket, mb[m].last_db_offset)
        /\ UNCHANGED <<db, mb, fdTable, disk>>
  BY ZenonT(40) DEF AtCursor
<1> DEFINE m == fdTable[p][call.fd].mindex
<1>2. call \in CallT /\ call.op = op /\ m \in Meta
  BY FdCalled
<1>3. mb[m].last_dbucket \in UsedOrNone /\ mb[m].last_db_offset \in Nat
  BY <1>2, ZenonT(40) DEF FileInv, TypeInv, MetaT, HandInv
<1>4. Enter(p, call, "loop", m, mb[m].last_dbucket, mb[m].last_db_offset)
  BY <1>1, ZenonT(40)
<1> HIDE DEF m
<1>5. /\ Moved(p) /\ me'[p].pc = "loop" /\ me'[p].m = m /\ me'[p].n = 0
      /\ me'[p].call = call /\ me'[p].dbindex = mb[m].last_dbucket
  <2>1. "loop" \in Control
    BY DEF Control
  <2> QED
    BY <1>2, <1>3, <1>4, <2>1, Hypotheses, EnterMoves
<1>6. LocalOK(me'[p], DOMAIN disk)
  <2>1. me'[p] \in LocalT
    BY <1>5, ZenonT(40) DEF Moved
  <2> QED
    BY <1>2, <1>5, <2>1, LoopStarts
<1> QED
  BY <1>1, <1>3, <1>5, <1>6, MeStep, ZenonT(40)

(* A process that copies has not copied more than it was asked to. *)
LEMMA LoopArgs ==
  ASSUME FileInv, NEW p \in Proc, me[p].pc \in {"loop", "alloc", "end"}
  PROVE  /\ me[p].m \in Meta /\ me[p].n \in Nat /\ me[p].off \in Nat /\ me[p].out \in Seq(Byte)
         /\ Reading(p) \/ Writing(p)
         /\ Reading(p) => /\ ~ Writing(p) /\ me[p].pc # "alloc" /\ me[p].call.count \in Nat
                          /\ me[p].n <= me[p].call.count
         /\ Writing(p) => me[p].call.data \in Seq(Byte) /\ me[p].n <= Len(me[p].call.data)
<1>1. me[p] \in LocalT /\ LocalOK(me[p], DOMAIN disk)
  BY Hypotheses
<1>2. me[p].call \in CallT
  BY <1>1 DEF LocalT
<1> QED
  BY <1>1, <1>2, CallFields DEF LocalT, LocalOK, Reading, Writing

(* The chain ends before the call has all it asked for (file_syscalls.c    *)
(* 479).                                                                   *)
LEMMA NoMoreStep ==
  ASSUME FileInv, NEW p \in Proc, NoMore(p)
  PROVE  FileInv'
<1> DEFINE k == [me[p] EXCEPT !.pc = "end"]
<1>1. /\ k \in LocalT /\ k.pc = "end" /\ k.m = me[p].m /\ k.n = me[p].n
      /\ k.call = me[p].call /\ k.dbindex = me[p].dbindex
  BY Hypotheses, ZenonT(40) DEF LocalT, Control
<1>2. me' = [me EXCEPT ![p] = k]
  BY Hypotheses DEF NoMore, TypeInv
<1> HIDE DEF k
<1>3. Moved(p) /\ me'[p] = k
  BY <1>1, <1>2, Hypotheses, MovedTo, ZenonT(40)
<1>4. LocalOK(me'[p], DOMAIN disk)
  BY <1>1, <1>3, Hypotheses DEF LocalOK, NoMore
<1> QED
  BY <1>1, <1>3, <1>4, Hypotheses, MeStep DEF NoMore

(* What memcpy takes from a bucket are bytes. *)
LEMMA CopyBytes ==
  ASSUME NEW d \in BucketT, NEW off \in Nat, NEW len \in Nat
  PROVE  Copy(d, off, len) \in Seq(Byte)
<1>1. \A j \in 1..len : (IF off + j <= DBUCKET_BUF_SIZE THEN d.buf[off + j] ELSE Junk) \in Byte
  BY FileAssumption DEF BucketT
<1> QED
  BY <1>1 DEF Copy

(* The last copy of a read (file_syscalls.c 306-313). *)
LEMMA ReadLastStep ==
  ASSUME FileInv, NEW p \in Proc, ReadLast(p)
  PROVE  FileInv'
<1> DEFINE d == db[me[p].dbindex]
           c == me[p].call.count - me[p].n
           k == [me[p] EXCEPT !.out = @ \o Copy(d, me[p].off, c),
                              !.n = @ + c, !.off = @ + c, !.pc = "end"]
<1>1. me[p].pc = "loop" /\ Reading(p) /\ me[p].dbindex \in Bucket
  BY Hypotheses, ZenonT(40) DEF ReadLast, InLoop, BucketOrNone
<1>2. d \in BucketT /\ c \in Nat /\ me[p].n + c = me[p].call.count
  BY <1>1, LoopArgs DEF FileInv, TypeInv
<1>3. me' = [me EXCEPT ![p] = k]
  BY Hypotheses, ZenonT(40) DEF ReadLast, TypeInv
<1> HIDE DEF d, c
<1>4. /\ me[p].out \o Copy(d, me[p].off, c) \in Seq(Byte)
      /\ me[p].off + c \in Nat /\ me[p].n + c \in Nat
  <2>1. me[p].out \in Seq(Byte) /\ me[p].off \in Nat /\ me[p].n \in Nat
    BY <1>1, LoopArgs
  <2>2. Copy(d, me[p].off, c) \in Seq(Byte)
    BY <1>2, <2>1, CopyBytes, ZenonT(40)
  <2> QED
    BY <1>2, <2>1, <2>2
<1>5. /\ k \in LocalT /\ k.pc = "end" /\ k.m = me[p].m /\ k.n = me[p].n + c
      /\ k.call = me[p].call /\ k.dbindex = me[p].dbindex
  BY <1>4, Hypotheses, ZenonT(120) DEF LocalT, Control
<1> HIDE DEF k
<1>6. Moved(p) /\ me'[p] = k
  BY <1>3, <1>5, Hypotheses, MovedTo, ZenonT(40)
<1>7. LocalOK(me'[p], DOMAIN disk)
  <2>1. k.n <= k.call.count
    BY <1>1, <1>2, <1>5, LoopArgs
  <2> QED
    BY <1>1, <1>5, <1>6, <2>1, LoopArgs DEF LocalOK, Reading
<1> QED
  BY <1>5, <1>6, <1>7, Hypotheses, MeStep, ZenonT(40) DEF ReadLast

(* A read takes what a bucket holds and goes on to the next                *)
(* (file_syscalls.c 314-327).                                              *)
LEMMA ReadOnStep ==
  ASSUME FileInv, NEW p \in Proc, ReadOn(p)
  PROVE  FileInv'
<1> DEFINE d == db[me[p].dbindex]
           a == Avail(d, me[p].off)
           more == d.next_ix # NoBucket
           off == IF more THEN 0 ELSE d.bytes
           b == IF more THEN d.next_ix ELSE me[p].dbindex
           pc == IF more THEN "loop" ELSE "end"
           k == [me[p] EXCEPT !.out = @ \o Copy(d, me[p].off, a), !.n = @ + a,
                              !.off = off, !.dbindex = b, !.pc = pc]
<1>1. me[p].pc = "loop" /\ Reading(p) /\ me[p].dbindex \in Bucket
  BY Hypotheses, ZenonT(40) DEF ReadOn, InLoop, BucketOrNone
<1>2. d \in BucketT /\ d.next_ix \in UsedOrNone
  BY <1>1, Hypotheses, Links, ZenonT(40) DEF FileInv, TypeInv
<1>3. off \in Nat /\ b \in UsedOrNone /\ pc \in {"loop", "end"} /\ pc \in Control
  BY <1>2, Hypotheses, FileAssumption DEF BucketT, Control
<1>4. a \in Nat
  <2>1. me[p].off \in Nat
    BY <1>1, LoopArgs, ZenonT(40)
  <2>2. d.bytes \in Int
    BY ONLY <1>2, FileAssumption DEF BucketT
  <2> HIDE DEF d
  <2> QED
    BY ONLY <2>1, <2>2 DEF Avail, SizeT, a
<1>5. me[p].n + a <= me[p].call.count
  <2>1. me[p].call.count - me[p].n > a
    BY ZenonT(40) DEF ReadOn
  <2>2. me[p].n \in Nat /\ me[p].call.count \in Nat
    BY <1>1, LoopArgs
  <2> HIDE DEF a
  <2> QED
    BY <1>4, <2>1, <2>2
<1>6. me' = [me EXCEPT ![p] = k]
  BY Hypotheses, ZenonT(40) DEF ReadOn, TypeInv
<1> HIDE DEF d, a, off, b, pc
<1>7. me[p].out \o Copy(d, me[p].off, a) \in Seq(Byte) /\ me[p].n + a \in Nat
  <2>1. me[p].out \in Seq(Byte) /\ me[p].off \in Nat /\ me[p].n \in Nat
    BY <1>1, LoopArgs
  <2>2. Copy(d, me[p].off, a) \in Seq(Byte)
    BY <1>2, <1>4, <2>1, CopyBytes, ZenonT(40)
  <2> QED
    BY <1>4, <2>1, <2>2
<1>8. /\ k \in LocalT /\ k.pc = pc /\ k.m = me[p].m /\ k.n = me[p].n + a
      /\ k.call = me[p].call /\ k.dbindex = b
  BY <1>3, <1>7, Hypotheses, ZenonT(40) DEF LocalT
<1> HIDE DEF k
<1>9. Moved(p) /\ me'[p] = k
  BY <1>6, <1>8, Hypotheses, MovedTo, ZenonT(40)
<1>10. LocalOK(me'[p], DOMAIN disk)
  BY <1>1, <1>3, <1>5, <1>8, <1>9, LoopArgs, ZenonT(40) DEF LocalOK, Reading
<1> QED
  BY <1>3, <1>8, <1>9, <1>10, MeStep, ZenonT(40) DEF ReadOn

(* exec_file_in_shm writes one file to disk (file_proc.c 106-114). *)
LEMMA ExecFileStep ==
  ASSUME FileInv, NEW p \in Proc, ExecFile(p)
  PROVE  FileInv'
<1>1. PICK call \in Calls(p, "exec") : \E m \in Named(call.path) :
        /\ Enter(p, call, "gather", m, mb[m].first_dbucket, mb[m].st_size)
        /\ UNCHANGED <<db, mb, fdTable, disk>>
  BY DEF ExecFile
<1>5. PICK m \in Named(call.path) :
        /\ Enter(p, call, "gather", m, mb[m].first_dbucket, mb[m].st_size)
        /\ UNCHANGED <<db, mb, fdTable, disk>>
  BY <1>1, ZenonT(40)
<1>2. /\ m \in Meta /\ mb[m].first_dbucket \in UsedOrNone /\ mb[m].st_size \in Nat
      /\ call \in CallT /\ call.op = "exec" /\ "gather" \in Control
  BY Hypotheses, Links, Called, ZenonT(40) DEF Named, TypeInv, MetaT, Control
<1>3. /\ Moved(p) /\ me'[p].pc = "gather" /\ me'[p].m = m /\ me'[p].call = call
      /\ me'[p].dbindex = mb[m].first_dbucket
  BY <1>5, <1>2, Hypotheses, EnterMoves
<1>4. LocalOK(me'[p], DOMAIN disk)
  BY <1>2, <1>3 DEF LocalOK
<1> QED
  BY <1>5, <1>2, <1>3, <1>4, MeStep

(* The daemon starts to write the files back (daemon.c 261-273). *)
LEMMA CleanupStep ==
  ASSUME FileInv, NEW p \in Proc, Cleanup(p)
  PROVE  FileInv'
<1>1. PICK call \in Calls(p, "cleanup"), order \in Orders :
        /\ me' = [me EXCEPT ![p] = [Rest(p) EXCEPT !.pc = "flush", !.call = call,
                                      !.todo = order, !.calm = Quiet]]
        /\ UNCHANGED <<db, mb, fdTable, disk>>
  BY ZenonT(40) DEF Cleanup
<1> DEFINE k == [Rest(p) EXCEPT !.pc = "flush", !.call = call,
                                !.todo = order, !.calm = Quiet]
<1>2. order \in Seq(Meta)
  <2>1. Cardinality(Meta) \in Nat
    BY FileAssumption, FS_CardinalityType
  <2> QED
    BY <2>1 DEF Orders
<1>3. call \in CallT /\ call.op = "cleanup" /\ "flush" \in Control /\ Quiet \in BOOLEAN
  BY Hypotheses, Called DEF Control, Quiet
<1>4. k \in LocalT /\ k.pc = "flush" /\ k.dbindex = NoBucket /\ k.call = call
  BY <1>2, <1>3, Hypotheses, RestType, ZenonT(40) DEF LocalT
<1> HIDE DEF k
<1>5. Moved(p) /\ me'[p] = k
  BY <1>1, <1>4, Hypotheses, MovedTo, ZenonT(40) DEF k
<1>6. LocalOK(me'[p], DOMAIN disk)
  BY <1>3, <1>4, <1>5 DEF LocalOK
<1> QED
  BY <1>1, <1>4, <1>5, <1>6, Hypotheses, MeStep, ZenonT(40)

(* traverse_next_bucket passes a file that need not be written (util.c     *)
(* 126-142).                                                               *)
LEMMA FlushSkipStep ==
  ASSUME FileInv, NEW p \in Proc, FlushSkip(p)
  PROVE  FileInv'
<1> DEFINE k == [me[p] EXCEPT !.todo = Tail(@)]
<1>1. me[p].todo \in Seq(Meta) /\ me[p].todo # <<>>
  BY Hypotheses DEF FlushSkip, LocalT
<1>2. Tail(me[p].todo) \in Seq(Meta)
  BY <1>1
<1>3. /\ k \in LocalT /\ k.pc = "flush" /\ k.dbindex = me[p].dbindex
      /\ k.call = me[p].call
  BY <1>2, Hypotheses, ZenonT(40) DEF LocalT, FlushSkip
<1>4. me' = [me EXCEPT ![p] = k]
  BY Hypotheses, ZenonT(40) DEF FlushSkip, TypeInv
<1> HIDE DEF k
<1>5. Moved(p) /\ me'[p] = k
  BY <1>3, <1>4, Hypotheses, MovedTo, ZenonT(40)
<1>6. LocalOK(me'[p], DOMAIN disk)
  BY <1>3, <1>5, Hypotheses DEF LocalOK, FlushSkip
<1> QED
  BY <1>3, <1>5, <1>6, Hypotheses, MeStep, ZenonT(40) DEF FlushSkip

(* The daemon has written all files back (daemon.c 274-289). *)
LEMMA FlushDoneStep ==
  ASSUME FileInv, NEW p \in Proc, FlushDone(p)
  PROVE  FileInv'
<1> DEFINE k == [me[p] EXCEPT !.pc = "closed"]
<1>1. k \in LocalT /\ k.pc = "closed" /\ k.dbindex = me[p].dbindex
  BY Hypotheses, ZenonT(120) DEF LocalT, Control
<1>2. me' = [me EXCEPT ![p] = k]
  BY Hypotheses, ZenonT(40) DEF FlushDone, TypeInv
<1> HIDE DEF k
<1>3. Moved(p) /\ me'[p] = k
  BY <1>1, <1>2, Hypotheses, MovedTo, ZenonT(40)
<1>4. LocalOK(me'[p], DOMAIN disk)
  BY <1>1, <1>3 DEF LocalOK
<1> QED
  BY <1>1, <1>3, <1>4, Hypotheses, MeStep DEF FlushDone

(* flush_write starts to write one file (util.c 174-194). *)
LEMMA FlushFileStep ==
  ASSUME FileInv, NEW p \in Proc, FlushFile(p)
  PROVE  FileInv'
<1> DEFINE m == Head(me[p].todo)
           rest == Tail(me[p].todo)
           b == mb[m].first_dbucket
           size == mb[m].st_size
           k == [me[p] EXCEPT !.pc = "gather", !.m = m, !.todo = rest, !.dbindex = b,
                              !.off = size]
<1>1. me[p].todo \in Seq(Meta) /\ me[p].todo # <<>>
  BY Hypotheses DEF FlushFile, LocalT
<1>2. m \in Meta /\ rest \in Seq(Meta)
  BY ONLY <1>1, SMTT(20)
<1>3. b \in UsedOrNone /\ b \in BucketOrNone /\ size \in Nat
  BY <1>2, Hypotheses, Links, ZenonT(40) DEF TypeInv, MetaT
<1>4. me' = [me EXCEPT ![p] = k]
  BY Hypotheses, ZenonT(40) DEF FlushFile, TypeInv
<1> HIDE DEF m, rest, b, size
<1>5. /\ k \in LocalT /\ k.pc = "gather" /\ k.dbindex = b /\ k.m = m
      /\ k.call = me[p].call
  BY <1>2, <1>3, Hypotheses, ZenonT(120) DEF LocalT, Control
<1> HIDE DEF k
<1>6. Moved(p) /\ me'[p] = k
  BY <1>4, <1>5, Hypotheses, MovedTo, ZenonT(40)
<1>7. LocalOK(me'[p], DOMAIN disk)
  BY <1>2, <1>5, <1>6, Hypotheses, ZenonT(40) DEF LocalOK, FlushFile
<1> QED
  BY <1>3, <1>5, <1>6, <1>7, MeStep, ZenonT(40) DEF FlushFile

(* The buffer of write_to_disk after a bucket was copied to it. *)
Gathered(p) ==
  LET d == db[me[p].dbindex]
      tail == me[p].off - me[p].n * DBUCKET_BUF_SIZE
      out == me[p].out
  IN  IF tail >= DBUCKET_BUF_SIZE THEN out \o d.buf
      ELSE [k \in 1..me[p].off |-> IF k <= tail THEN d.buf[k]
                                   ELSE IF k <= Len(out) THEN out[k] ELSE Junk]

(* It is a sequence of bytes. *)
LEMMA GatherBytes ==
  ASSUME FileInv, NEW p \in Proc, me[p].dbindex \in Bucket
  PROVE  Gathered(p) \in Seq(Byte)
<1> DEFINE buf == db[me[p].dbindex].buf
           out == me[p].out
           off == me[p].off
           tail == off - me[p].n * DBUCKET_BUF_SIZE
<1>1. out \in Seq(Byte) /\ off \in Nat /\ me[p].n \in Nat
  BY Hypotheses, ZenonT(40) DEF LocalT
<1>2. buf \in [1..DBUCKET_BUF_SIZE -> Byte] /\ DBUCKET_BUF_SIZE \in Nat
  BY Hypotheses, FileAssumption DEF TypeInv, BucketT
<1>3. me[p].n * DBUCKET_BUF_SIZE \in Nat
  BY <1>1, <1>2
<1>4. tail \in Int
  BY <1>1, <1>3
<1> DEFINE g == [k \in 1..off |-> IF k <= tail THEN buf[k]
                                  ELSE IF k <= Len(out) THEN out[k] ELSE Junk]
<1>5. Gathered(p) = IF tail >= DBUCKET_BUF_SIZE THEN out \o buf ELSE g
  BY ZenonT(40) DEF Gathered
<1> HIDE DEF buf, out, off, tail
<1>6. out \o buf \in Seq(Byte)
  <2>1. buf \in Seq(Byte)
    BY <1>2
  <2> QED
    BY <1>1, <2>1
<1>7. CASE tail < DBUCKET_BUF_SIZE
  <2>1. \A k \in 1..off : k <= tail => buf[k] \in Byte
    BY <1>1, <1>2, <1>4, <1>7
  <2>2. \A k \in 1..off : k <= Len(out) => out[k] \in Byte
    BY <1>1
  <2>3. g \in [1..off -> Byte]
    BY <2>1, <2>2, FileAssumption
  <2>4. g \in Seq(Byte)
    BY <1>1, <2>3
  <2> QED
    BY <1>2, <1>4, <1>5, <1>7, <2>4
<1>8. CASE tail >= DBUCKET_BUF_SIZE
  BY <1>5, <1>6, <1>8, ZenonT(40)
<1> QED
  BY ONLY <1>2, <1>4, <1>7, <1>8

(* write_to_disk copies a bucket to its buffer (util.c 156-164). *)
LEMMA GatherBucketStep ==
  ASSUME FileInv, NEW p \in Proc, GatherBucket(p)
  PROVE  FileInv'
<1> DEFINE b == db[me[p].dbindex].next_ix
           g == Gathered(p)
           k == [me[p] EXCEPT !.dbindex = b, !.n = @ + 1, !.out = g]
<1>1. me[p].pc = "gather" /\ me[p].dbindex \in Bucket
  BY Hypotheses DEF GatherBucket, BucketOrNone
<1>2. b \in UsedOrNone /\ b \in BucketOrNone
  BY <1>1, Hypotheses, Links
<1>3. me' = [me EXCEPT ![p] = k]
  BY Hypotheses, ZenonT(40) DEF GatherBucket, TypeInv, Gathered
<1>4. g \in Seq(Byte) /\ me[p].n + 1 \in Nat
  BY <1>1, Hypotheses, GatherBytes DEF LocalT
<1> HIDE DEF b, g
<1>5. /\ k \in LocalT /\ k.pc = me[p].pc /\ k.dbindex = b /\ k.m = me[p].m
      /\ k.call = me[p].call
  BY <1>2, <1>4, Hypotheses, ZenonT(40) DEF LocalT
<1> HIDE DEF k
<1>6. Moved(p) /\ me'[p] = k
  BY <1>3, <1>5, Hypotheses, MovedTo, ZenonT(40)
<1>7. LocalOK(me'[p], DOMAIN disk)
  BY <1>1, <1>5, <1>6, Hypotheses DEF LocalOK
<1> QED
  BY <1>2, <1>5, <1>6, <1>7, MeStep, ZenonT(40) DEF GatherBucket

-----------------------------------------------------------------------------
(* Steps that change a meta bucket, descriptors or the disk                *)

(* A step in which no locals change. *)
LEMMA Stays ==
  ASSUME TypeInv, NEW p \in Proc, me' = me
  PROVE  Moved(p)
  BY DEF TypeInv, Moved, Alike

(* A process between two calls meets the invariant. *)
LEMMA RestOK ==
  ASSUME FileInv, NEW p \in Proc, NEW files
  PROVE  LocalOK(Rest(p), files) /\ Rest(p).dbindex \in UsedOrNone /\ Rest(p) \in LocalT
  BY Hypotheses, RestType, ZenonT(40) DEF LocalOK

(* One meta bucket becomes r: it gets no first_dbucket but none, and no    *)
(* last_dbucket but none or one in use.                                    *)
Remade(m, r) ==
  /\ r \in MetaT /\ mb' = [mb EXCEPT ![m] = r]
  /\ r.first_dbucket = mb[m].first_dbucket \/ r.first_dbucket = NoBucket
  /\ r.last_dbucket \in UsedOrNone

(* A step that changes a meta bucket in that way, and descriptors, keeps   *)
(* the invariant.                                                          *)
LEMMA MetaStep ==
  ASSUME FileInv, NEW p \in Proc, Moved(p), UNCHANGED <<db, disk>>,
         NEW m \in Meta, NEW r, Remade(m, r), fdTable' \in [Proc -> [Fd -> FdT]],
         \A q \in Proc : \A f \in Fd : fdTable'[q][f].dbindex \in UsedOrNone,
         LocalOK(me'[p], DOMAIN disk), me'[p].dbindex \in UsedOrNone
  PROVE  FileInv'
<1>1. mb' \in [Meta -> MetaT] /\ TypeInv /\ ChainInv
  BY DEF FileInv, TypeInv, Remade
<1>2. TypeInv'
  BY <1>1 DEF TypeInv, Moved
<1>3. Used' = Used /\ NextIx' = NextIx /\ UsedOrNone' = UsedOrNone
  BY ZenonT(40) DEF Used, NextIx, UsedOrNone
<1>4. \A k \in Meta : First'[k] = First[k] \/ First'[k] = NoBucket
  BY <1>1 DEF First, Remade, TypeInv
<1>5. ChainInv'
  BY <1>1, <1>3, <1>4, ChainsKept, ZenonT(40) DEF SameLinks
<1>6. \A k \in Meta : mb'[k].last_dbucket \in UsedOrNone'
  BY <1>1, <1>3 DEF Remade, FileInv, HandInv, TypeInv
<1> QED
  BY <1>2, <1>3, <1>5, <1>6, Settle, ZenonT(40)

(* So does one that leaves the descriptors alone. *)
LEMMA MetaOnlyStep ==
  ASSUME FileInv, NEW p \in Proc, Moved(p), UNCHANGED <<db, fdTable, disk>>,
         NEW m \in Meta, NEW r, Remade(m, r),
         LocalOK(me'[p], DOMAIN disk), me'[p].dbindex \in UsedOrNone
  PROVE  FileInv'
<1>1. /\ fdTable' \in [Proc -> [Fd -> FdT]]
      /\ \A q \in Proc : \A f \in Fd : fdTable'[q][f].dbindex \in UsedOrNone
  BY ZenonT(40) DEF FileInv, TypeInv, HandInv
<1> QED
  BY <1>1, MetaStep, ZenonT(40)

(* A meta bucket and the buckets it knows. *)
LEMMA MetaTypes ==
  ASSUME FileInv, NEW m \in Meta
  PROVE  mb[m] \in MetaT /\ mb[m].last_dbucket \in UsedOrNone /\ mb[m].first_dbucket \in UsedOrNone
  BY Links DEF FileInv, TypeInv, HandInv

(* A meta bucket is taken. *)
LEMMA TakeMeta ==
  ASSUME FileInv, NEW m \in Meta, mb' = [mb EXCEPT ![m].in_use = TRUE]
  PROVE  \E r : Remade(m, r)
<1> DEFINE r == [mb[m] EXCEPT !.in_use = TRUE]
<1>1. /\ r \in MetaT /\ r.first_dbucket = mb[m].first_dbucket
      /\ r.last_dbucket = mb[m].last_dbucket
  BY MetaTypes, ZenonT(40) DEF MetaT
<1>2. mb' = [mb EXCEPT ![m] = r]
  OBVIOUS
<1> QED
  BY <1>1, <1>2, MetaTypes, ZenonT(40) DEF Remade

(* create_new_file takes a meta bucket and gets no data bucket             *)
(* (file_syscalls.c 33-38).                                                *)
LEMMA OpenNoBucketStep ==
  ASSUME FileInv, NEW p \in Proc, OpenNoBucket(p)
  PROVE  FileInv'
<1>1. PICK m \in Meta : mb' = [mb EXCEPT ![m].in_use = TRUE]
  BY ZenonT(40) DEF OpenNoBucket
<1>2. PICK r : Remade(m, r)
  BY <1>1, TakeMeta, ZenonT(40)
<1>3. Die(p) /\ UNCHANGED <<db, fdTable, disk>>
  BY DEF OpenNoBucket
<1>4. Moved(p) /\ me'[p].pc = "dead" /\ me'[p].dbindex = NoBucket
  BY <1>3, Hypotheses, DieMoves, ZenonT(40)
<1>5. LocalOK(me'[p], DOMAIN disk)
  BY <1>4, ZenonT(40) DEF LocalOK
<1> QED
  BY <1>2, <1>3, <1>4, <1>5, Hypotheses, MetaOnlyStep

(* open finds the file on disk only, and upload_file takes a meta bucket   *)
(* (util.c 42-52).                                                         *)
LEMMA OpenUploadStep ==
  ASSUME FileInv, NEW p \in Proc, OpenUpload(p)
  PROVE  FileInv'
<1>1. PICK call \in Calls(p, "open"), m \in Meta :
        /\ call.path \in DOMAIN disk
        /\ mb' = [mb EXCEPT ![m].in_use = TRUE]
        /\ Enter(p, call, "read", m, NoBucket, Len(disk[call.path]))
        /\ UNCHANGED <<db, fdTable, disk>>
  BY ZenonT(40) DEF OpenUpload
<1>2. PICK r : Remade(m, r)
  BY <1>1, TakeMeta, ZenonT(40)
<1>3. Len(disk[call.path]) \in Nat
  BY <1>1 DEF FileInv, TypeInv
<1>4. /\ call \in CallT /\ call.op = "open" /\ "read" \in Control
      /\ NoBucket \in BucketOrNone /\ m \in Meta \cup {NoMeta}
  BY Hypotheses, Called, ZenonT(40) DEF Control, BucketOrNone
<1>5. /\ Moved(p) /\ me'[p].pc = "read" /\ me'[p].m = m /\ me'[p].call = call
      /\ me'[p].dbindex = NoBucket /\ me'[p].n = 0
  <2>1. Enter(p, call, "read", m, NoBucket, Len(disk[call.path]))
    BY <1>1
  <2> QED
    BY <1>3, <1>4, <2>1, Hypotheses, EnterMoves
<1>6. LocalOK(me'[p], DOMAIN disk) /\ me'[p].dbindex \in UsedOrNone
  BY <1>1, <1>4, <1>5, Hypotheses DEF LocalOK
<1>7. UNCHANGED <<db, fdTable, disk>>
  BY <1>1
<1> QED
  BY <1>2, <1>5, <1>6, <1>7, MetaOnlyStep

(* upload_file reads the file (util.c 53-61). *)
LEMMA UploadReadStep ==
  ASSUME FileInv, NEW p \in Proc, UploadRead(p)
  PROVE  FileInv'
<1> DEFINE path == me[p].call.path
           m == me[p].m
           off == me[p].off
           out == SubSeq(disk[path], 1, off)
           r == [mb[m] EXCEPT !.path = path, !.st_size = off]
           k == [me[p] EXCEPT !.pc = "upload", !.out = out]
<1>1. /\ me[p].pc = "read" /\ Len(disk[path]) >= off
      /\ mb' = [mb EXCEPT ![m] = r] /\ UNCHANGED <<db, fdTable, disk>>
  BY Hypotheses, ZenonT(40) DEF UploadRead, TypeInv
<1>2. me' = [me EXCEPT ![p] = k]
  BY Hypotheses, ZenonT(40) DEF UploadRead, TypeInv
<1>3. /\ m \in Meta /\ me[p].call \in CallT /\ me[p].call.op = "open"
      /\ path \in DOMAIN disk /\ off \in Nat
  BY <1>1, Hypotheses, ZenonT(40) DEF LocalOK, LocalT
<1>4. path \in Path /\ disk[path] \in Seq(Byte)
  BY <1>3, Hypotheses, CallFields, ZenonT(40) DEF TypeInv
<1>5. out \in Seq(Byte) /\ Len(out) = off /\ me[p].n <= off
  BY <1>1, <1>3, <1>4, Hypotheses DEF LocalOK
<1>6. Remade(m, r)
  <2>1. /\ r \in MetaT /\ r.first_dbucket = mb[m].first_dbucket
        /\ r.last_dbucket = mb[m].last_dbucket
    BY <1>3, <1>4, MetaTypes, ZenonT(40) DEF MetaT
  <2> QED
    BY <1>1, <1>3, <2>1, MetaTypes DEF Remade
<1> HIDE DEF m, off, out, r, path
<1>7. /\ k \in LocalT /\ k.pc = "upload" /\ k.m = m /\ k.call = me[p].call
      /\ k.dbindex = me[p].dbindex /\ k.out = out /\ k.n = me[p].n
  BY <1>5, Hypotheses, ZenonT(120) DEF LocalT, Control, m
<1> HIDE DEF k
<1>8. Moved(p) /\ me'[p] = k
  BY <1>2, <1>7, Hypotheses, MovedTo, ZenonT(40)
<1>9. LocalOK(me'[p], DOMAIN disk)
  BY <1>3, <1>7, <1>8, <1>5, <1>1, Hypotheses, ZenonT(40) DEF LocalOK, LocalT
<1> QED
  BY <1>1, <1>3, <1>6, <1>7, <1>8, <1>9, Hypotheses, MetaOnlyStep, ZenonT(40)

(* open with O_TRUNC has emptied the last bucket (file_syscalls.c          *)
(* 141-145).                                                               *)
LEMMA TruncDoneStep ==
  ASSUME FileInv, NEW p \in Proc, TruncDone(p)
  PROVE  FileInv'
<1> DEFINE m == me[p].m
           r == [mb[m] EXCEPT !.st_size = 0, !.consisent = FALSE]
           k == [me[p] EXCEPT !.pc = "cursor"]
<1>1. me[p].pc = "trunc" /\ mb' = [mb EXCEPT ![m] = r]
  BY Hypotheses, ZenonT(40) DEF TruncDone, TypeInv, LocalOK
<1>2. m \in Meta
  BY <1>1, Hypotheses DEF LocalOK
<1>3. Remade(m, r)
  <2>1. /\ r \in MetaT /\ r.first_dbucket = mb[m].first_dbucket
        /\ r.last_dbucket = mb[m].last_dbucket
    BY <1>2, MetaTypes, ZenonT(40) DEF MetaT
  <2> QED
    BY <1>1, <1>2, <2>1, MetaTypes DEF Remade
<1>4. me' = [me EXCEPT ![p] = k]
  BY Hypotheses, ZenonT(40) DEF TruncDone, TypeInv
<1> HIDE DEF r
<1>5. k \in LocalT /\ k.pc = "cursor" /\ k.m = m /\ k.dbindex = me[p].dbindex
  BY Hypotheses, ZenonT(40) DEF LocalT, Control
<1> HIDE DEF m, k
<1>6. Moved(p) /\ me'[p] = k
  BY <1>4, <1>5, Hypotheses, MovedTo, ZenonT(40)
<1>7. LocalOK(me'[p], DOMAIN disk) /\ me'[p].dbindex \in UsedOrNone
  BY <1>2, <1>5, <1>6, Hypotheses DEF LocalOK
<1>8. UNCHANGED <<db, fdTable, disk>>
  BY ZenonT(40) DEF TruncDone
<1> QED
  BY <1>2, <1>3, <1>6, <1>7, <1>8, MetaOnlyStep, ZenonT(40)

(* open takes a descriptor and sets the cursor (file_syscalls.c 202-214). *)
LEMMA SetCursorStep ==
  ASSUME FileInv, NEW p \in Proc, SetCursor(p)
  PROVE  FileInv'
<1> DEFINE m == me[p].m
           r == [mb[m] EXCEPT !.last_dbucket = mb[m].first_dbucket, !.last_db_offset = 0]
<1>1. me[p].pc = "cursor" /\ mb' = [mb EXCEPT ![m] = r]
  BY Hypotheses, ZenonT(40) DEF SetCursor, TypeInv, LocalOK
<1>2. m \in Meta
  BY <1>1, Hypotheses DEF LocalOK
<1>3. Remade(m, r)
  <2>1. /\ r \in MetaT /\ r.first_dbucket = mb[m].first_dbucket
        /\ r.last_dbucket = mb[m].first_dbucket
    BY <1>2, MetaTypes, ZenonT(40) DEF MetaT
  <2> QED
    BY <1>1, <1>2, <2>1, MetaTypes DEF Remade
<1> DEFINE Empty == {f \in Fd : fdTable[p][f].mindex = NoMeta}
           table == [f \in Fd |-> IF f \in Empty /\ \A g \in Empty : f <= g
                                  THEN [EmptyFd EXCEPT !.mindex = m] ELSE fdTable[p][f]]
<1>4. fdTable' = [fdTable EXCEPT ![p] = table]
  BY DEF SetCursor
<1>5. /\ [EmptyFd EXCEPT !.mindex = m] \in FdT
      /\ [EmptyFd EXCEPT !.mindex = m].dbindex = NoBucket
  BY <1>2 DEF EmptyFd, FdT, BucketOrNone
<1> HIDE DEF Empty
<1>6. table \in [Fd -> FdT] /\ \A f \in Fd : table[f].dbindex \in UsedOrNone
  <2>1. \A f \in Fd : fdTable[p][f] \in FdT /\ fdTable[p][f].dbindex \in UsedOrNone
    BY ZenonT(40) DEF FileInv, TypeInv, HandInv
  <2> QED
    BY <1>5, <2>1, Hypotheses, ZenonT(40)
<1> HIDE DEF m, r, table
<1>7. /\ fdTable' \in [Proc -> [Fd -> FdT]]
      /\ \A q \in Proc : \A f \in Fd : fdTable'[q][f].dbindex \in UsedOrNone
  BY <1>4, <1>6 DEF FileInv, TypeInv, HandInv
<1>8. Moved(p) /\ me'[p] = Rest(p)
  BY Hypotheses, RestType, MovedTo, ZenonT(40) DEF SetCursor
<1>9. LocalOK(me'[p], DOMAIN disk) /\ me'[p].dbindex \in UsedOrNone
  BY <1>8, RestOK
<1>10. UNCHANGED <<db, disk>>
  BY DEF SetCursor
<1> QED
  BY <1>2, <1>3, <1>7, <1>8, <1>9, <1>10, MetaStep, ZenonT(40)

(* The meta bucket after the cursor was moved. *)
Advanced(p) ==
  LET m == me[p].m IN
  IF me[p].call.op \in {"read", "write"} /\ me[p].n > 0
  THEN [mb[m] EXCEPT !.last_dbucket = me[p].dbindex, !.last_db_offset = me[p].off]
  ELSE mb[m]

(* Moving the cursor changes the meta bucket in that way. *)
LEMMA CursorMoves ==
  ASSUME FileInv, NEW p \in Proc, me[p].pc = "end"
  PROVE  /\ me[p].m \in Meta /\ Cursor(p) = [mb EXCEPT ![me[p].m] = Advanced(p)]
         /\ Advanced(p) \in MetaT
         /\ Advanced(p).first_dbucket = mb[me[p].m].first_dbucket
         /\ Advanced(p).last_dbucket \in UsedOrNone
<1> DEFINE m == me[p].m
           a == [mb[m] EXCEPT !.last_dbucket = me[p].dbindex, !.last_db_offset = me[p].off]
<1>1. m \in Meta /\ me[p].off \in Nat
  BY LoopArgs
<1>2. mb \in [Meta -> MetaT]
  BY Hypotheses DEF TypeInv
<1>3. a \in MetaT /\ a.first_dbucket = mb[m].first_dbucket /\ a.last_dbucket = me[p].dbindex
  BY <1>1, MetaTypes, Hypotheses, ZenonT(40) DEF MetaT
<1>4. CASE me[p].call.op \in {"read", "write"} /\ me[p].n > 0
  <2>1. Advanced(p) = a
    BY <1>4 DEF Advanced
  <2>2. Cursor(p) = [mb EXCEPT ![m] = a]
    BY <1>1, <1>2, <1>4, ZenonT(40) DEF Cursor
  <2> HIDE DEF a, m
  <2> QED
    BY <1>1, <1>3, <2>1, <2>2, Hypotheses DEF m
<1>5. CASE ~ (me[p].call.op \in {"read", "write"} /\ me[p].n > 0)
  <2>1. Advanced(p) = mb[m] /\ Cursor(p) = mb
    BY <1>5, ZenonT(40) DEF Advanced, Cursor
  <2>2. mb = [mb EXCEPT ![m] = mb[m]]
    BY <1>1, <1>2, ZenonT(40)
  <2> HIDE DEF a, m
  <2> QED
    BY <1>1, <2>1, <2>2, MetaTypes DEF m
<1> QED
  BY <1>4, <1>5

(* read and pread return (file_syscalls.c 328-330, 494-509). *)
LEMMA ReadEndStep ==
  ASSUME FileInv, NEW p \in Proc, ReadEnd(p)
  PROVE  FileInv'
<1>1. me[p].pc = "end" /\ mb' = Cursor(p) /\ UNCHANGED <<db, fdTable, disk>>
  BY DEF ReadEnd
<1>2. me[p].m \in Meta /\ Remade(me[p].m, Advanced(p))
  BY <1>1, CursorMoves DEF Remade
<1>3. Moved(p) /\ me'[p] = Rest(p)
  BY Hypotheses, RestType, MovedTo, ZenonT(40) DEF ReadEnd
<1>4. LocalOK(me'[p], DOMAIN disk) /\ me'[p].dbindex \in UsedOrNone
  BY <1>3, RestOK
<1> QED
  BY <1>1, <1>2, <1>3, <1>4, MetaOnlyStep, ZenonT(40)

(* write returns, pwrite goes on to the size (file_syscalls.c 404-416). *)
LEMMA WriteEndStep ==
  ASSUME FileInv, NEW p \in Proc, WriteEnd(p)
  PROVE  FileInv'
<1> DEFINE m == me[p].m
           a == Advanced(p)
           r == [a EXCEPT !.consisent = @ /\ me[p].n = 0]
           size == me[p].size_ind + mb[m].st_size
           k == [me[p] EXCEPT !.size_ind = size, !.pc = "size"]
           grew == me[p].size_ind > 0
<1>1. me[p].pc = "end" /\ mb' = Modified(p) /\ UNCHANGED <<db, fdTable, disk>>
  BY DEF WriteEnd
<1>2. /\ m \in Meta /\ Cursor(p) = [mb EXCEPT ![m] = a] /\ a \in MetaT
      /\ a.first_dbucket = mb[m].first_dbucket /\ a.last_dbucket \in UsedOrNone
  BY <1>1, CursorMoves
<1>3. mb \in [Meta -> MetaT]
  BY Hypotheses, ZenonT(40) DEF TypeInv
<1> HIDE DEF a
<1>4. Remade(m, r)
  <2>1. Modified(p) = [[mb EXCEPT ![m] = a] EXCEPT ![m].consisent = @ /\ me[p].n = 0]
    BY <1>2 DEF Modified
  <2>2. Modified(p) = [mb EXCEPT ![m] = r]
    BY <1>2, <1>3, <2>1, ZenonT(40)
  <2>3. r \in MetaT /\ r.first_dbucket = a.first_dbucket /\ r.last_dbucket = a.last_dbucket
    BY <1>2, ZenonT(40) DEF MetaT
  <2> HIDE DEF r, m
  <2> QED
    BY <1>1, <1>2, <2>2, <2>3, ZenonT(40) DEF Remade
<1>5. size \in Nat
  BY <1>2, <1>3, Hypotheses DEF LocalT, MetaT
<1>6. me' = [me EXCEPT ![p] = IF grew THEN k ELSE Rest(p)]
  BY ZenonT(40) DEF WriteEnd
<1> HIDE DEF size
<1>7. k \in LocalT /\ k.pc = "size" /\ k.m = m /\ k.dbindex = me[p].dbindex
  BY <1>5, Hypotheses, ZenonT(120) DEF LocalT, Control
<1> HIDE DEF m, r, k
<1>8. LocalOK(k, DOMAIN disk) /\ k.dbindex \in UsedOrNone
  BY <1>2, <1>7, Hypotheses DEF LocalOK
<1>9. Moved(p) /\ LocalOK(me'[p], DOMAIN disk) /\ me'[p].dbindex \in UsedOrNone
  <2>1. CASE grew
    <3>1. Moved(p) /\ me'[p] = k
      BY <1>6, <1>7, <2>1, Hypotheses, MovedTo, ZenonT(40)
    <3> QED
      BY <1>8, <3>1
  <2>2. CASE ~ grew
    <3>1. Moved(p) /\ me'[p] = Rest(p)
      BY <1>6, <2>2, Hypotheses, RestType, MovedTo, ZenonT(40)
    <3> QED
      BY <3>1, RestOK
  <2> QED
    BY <2>1, <2>2
<1> QED
  BY <1>1, <1>2, <1>4, <1>9, MetaOnlyStep

(* pwrite adds what it gained to st_size (file_syscalls.c 599-611). *)
LEMMA WriteSizeStep ==
  ASSUME FileInv, NEW p \in Proc, WriteSize(p)
  PROVE  FileInv'
<1> DEFINE m == me[p].m
           r == [mb[m] EXCEPT !.st_size = me[p].size_ind]
<1>1. /\ me[p].pc = "size" /\ mb' = [mb EXCEPT ![m] = r]
      /\ UNCHANGED <<db, fdTable, disk>>
  BY Hypotheses DEF WriteSize, TypeInv
<1>2. m \in Meta /\ me[p].size_ind \in Nat
  BY <1>1, Hypotheses DEF LocalOK, LocalT
<1>3. Remade(m, r)
  <2>1. /\ r \in MetaT /\ r.first_dbucket = mb[m].first_dbucket
        /\ r.last_dbucket = mb[m].last_dbucket
    BY <1>2, MetaTypes DEF MetaT
  <2> QED
    BY <1>1, <1>2, <2>1, MetaTypes, ZenonT(40) DEF Remade
<1> HIDE DEF m, r
<1>4. Moved(p) /\ me'[p] = Rest(p)
  BY Hypotheses, RestType, MovedTo, ZenonT(40) DEF WriteSize
<1>5. LocalOK(me'[p], DOMAIN disk) /\ me'[p].dbindex \in UsedOrNone
  BY <1>4, RestOK
<1> QED
  BY <1>1, <1>2, <1>3, <1>4, <1>5, MetaOnlyStep, ZenonT(40)

(* unlink gives the meta bucket back and no data bucket (file_syscalls.c   *)
(* 618-655).                                                               *)
LEMMA UnlinkStep ==
  ASSUME FileInv, NEW p \in Proc, Unlink(p)
  PROVE  FileInv'
<1>1. PICK m \in Meta :
        mb' = [mb EXCEPT ![m].in_use = FALSE, ![m].first_dbucket = NoBucket,
                         ![m].last_dbucket = NoBucket, ![m].last_db_offset = 0]
  BY ZenonT(40) DEF Unlink, Named
<1> DEFINE r == [mb[m] EXCEPT !.in_use = FALSE, !.first_dbucket = NoBucket,
                              !.last_dbucket = NoBucket, !.last_db_offset = 0]
<1>2. mb' = [mb EXCEPT ![m] = r]
  BY <1>1, Hypotheses, ZenonT(40) DEF TypeInv
<1>3. r \in MetaT /\ r.first_dbucket = NoBucket /\ r.last_dbucket = NoBucket
  BY MetaTypes, ZenonT(40) DEF MetaT, BucketOrNone
<1> HIDE DEF r
<1>4. Remade(m, r)
  BY <1>2, <1>3, Hypotheses DEF Remade
<1>5. UNCHANGED <<db, fdTable, disk>> /\ me' = me
  BY DEF Unlink
<1>6. Moved(p) /\ LocalOK(me'[p], DOMAIN disk) /\ me'[p].dbindex \in UsedOrNone
  BY <1>5, Hypotheses, Stays, ZenonT(40)
<1> QED
  BY <1>4, <1>5, <1>6, MetaOnlyStep

(* A step that changes descriptors only. *)
LEMMA FdStep ==
  ASSUME FileInv, NEW p \in Proc, Moved(p), UNCHANGED <<db, mb, disk>>,
         fdTable' \in [Proc -> [Fd -> FdT]],
         \A q \in Proc : \A f \in Fd : fdTable'[q][f].dbindex \in UsedOrNone,
         LocalOK(me'[p], DOMAIN disk), me'[p].dbindex \in UsedOrNone
  PROVE  FileInv'
<1>1. TypeInv'
  BY DEF FileInv, TypeInv, Moved
<1>2. Used' = Used /\ NextIx' = NextIx /\ First' = First /\ UsedOrNone' = UsedOrNone
  BY DEF Used, NextIx, First, UsedOrNone
<1>3. ChainInv'
  BY <1>2, ChainsKept, ZenonT(40) DEF SameLinks, FileInv
<1> QED
  BY <1>1, <1>2, <1>3, Settle, LastsKept, ZenonT(40)

(* close resets the descriptor (file_syscalls.c 239-276). *)
LEMMA CloseStep ==
  ASSUME FileInv, NEW p \in Proc, Close(p)
  PROVE  FileInv'
<1>1. PICK call \in FdCalls(p, "close") :
        /\ fdTable' = [fdTable EXCEPT ![p][call.fd] = EmptyFd]
        /\ UNCHANGED <<db, mb, disk, me>>
  BY ZenonT(40) DEF Close
<1>2. EmptyFd \in FdT /\ EmptyFd.dbindex \in UsedOrNone /\ call.fd \in Fd
  BY Hypotheses, FdCalled DEF EmptyFd, FdT, BucketOrNone
<1>3. /\ fdTable' \in [Proc -> [Fd -> FdT]]
      /\ \A q \in Proc : \A f \in Fd : fdTable'[q][f].dbindex \in UsedOrNone
  BY <1>1, <1>2 DEF FileInv, TypeInv, HandInv
<1>4. UNCHANGED <<db, mb, disk>> /\ me' = me
  BY <1>1
<1>5. Moved(p) /\ LocalOK(me'[p], DOMAIN disk) /\ me'[p].dbindex \in UsedOrNone
  BY <1>4, Hypotheses, Stays
<1> QED
  BY <1>3, <1>4, <1>5, FdStep

(* A step that changes the disk only, and removes no file from it. *)
LEMMA DiskStep ==
  ASSUME FileInv, NEW p \in Proc, Moved(p), UNCHANGED <<db, mb, fdTable>>,
         \A f \in DOMAIN disk' : f \in Path \cup {NoPath} /\ disk'[f] \in Seq(Byte),
         DOMAIN disk \subseteq DOMAIN disk',
         LocalOK(me'[p], DOMAIN disk'), me'[p].dbindex \in UsedOrNone
  PROVE  FileInv'
<1>1. TypeInv'
  BY ZenonT(40) DEF FileInv, TypeInv, Moved
<1>2. Used' = Used /\ NextIx' = NextIx /\ First' = First /\ UsedOrNone' = UsedOrNone
  BY ZenonT(40) DEF Used, NextIx, First, UsedOrNone
<1>3. ChainInv'
  BY <1>2, ChainsKept DEF SameLinks, FileInv
<1> QED
  BY <1>1, <1>2, <1>3, Settle, LastsKept, FdsKept, ZenonT(40)

(* write_to_disk opens the file and thereby empties it (util.c 165). *)
LEMMA DiskOpenStep ==
  ASSUME FileInv, NEW p \in Proc, DiskOpen(p)
  PROVE  FileInv'
<1> DEFINE m == me[p].m
           path == mb[m].path
           call == [op |-> me[p].call.op, path |-> path]
           k == [me[p] EXCEPT !.pc = "disk", !.call = call]
<1>1. me[p].pc = "gather" /\ UNCHANGED <<db, mb, fdTable>>
  BY ZenonT(40) DEF DiskOpen
<1>2. m \in Meta /\ me[p].call.op \in {"exec", "cleanup"}
  BY <1>1, Hypotheses, ZenonT(40) DEF LocalOK
<1>3. path \in Path \cup {NoPath}
  BY <1>2, MetaTypes DEF MetaT
<1>4. disk' = [f \in DOMAIN disk \union {path} |-> IF f = path THEN <<>> ELSE disk[f]]
  BY DEF DiskOpen
<1>5. me' = [me EXCEPT ![p] = k]
  BY Hypotheses, ZenonT(40) DEF DiskOpen, TypeInv
<1> HIDE DEF m, path
<1>6. call \in CallT /\ call.op \in {"exec", "cleanup"}
  BY <1>2, <1>3 DEF CallT
<1> HIDE DEF call
<1>7. k \in LocalT /\ k.pc = "disk" /\ k.m = m /\ k.dbindex = me[p].dbindex /\ k.call = call
  BY <1>6, Hypotheses, ZenonT(120) DEF LocalT, Control, m
<1> HIDE DEF k
<1>8. Moved(p) /\ me'[p] = k
  BY <1>5, <1>7, Hypotheses, MovedTo, ZenonT(40)
<1>9. LocalOK(me'[p], DOMAIN disk') /\ me'[p].dbindex \in UsedOrNone
  BY <1>2, <1>6, <1>7, <1>8, Hypotheses, ZenonT(40) DEF LocalOK
<1>10. DOMAIN disk \subseteq DOMAIN disk'
  BY <1>4, ZenonT(40)
<1>11. \A f \in DOMAIN disk' : f \in Path \cup {NoPath} /\ disk'[f] \in Seq(Byte)
  <2>1. <<>> \in Seq(Byte)
    BY ONLY SMTT(20)
  <2> QED
    BY <1>3, <1>4, <2>1, Hypotheses DEF TypeInv
<1> QED
  BY <1>1, <1>8, <1>9, <1>10, <1>11, DiskStep, ZenonT(40)

(* write_to_disk writes its buffer (util.c 166-172). *)
LEMMA DiskWriteStep ==
  ASSUME FileInv, NEW p \in Proc, DiskWrite(p)
  PROVE  FileInv'
<1> DEFINE m == me[p].m
           path == me[p].call.path
           size == mb[m].st_size
           out == me[p].out
           content == [k \in 1..size |-> IF k <= Len(out) THEN out[k] ELSE Junk]
           call == [op |-> "cleanup"]
           flush == [Rest(p) EXCEPT !.pc = "flush", !.call = call,
                                    !.todo = me[p].todo, !.calm = me[p].calm]
           exec == me[p].call.op = "exec"
<1>1. me[p].pc = "disk" /\ UNCHANGED <<db, mb, fdTable>>
  BY ZenonT(40) DEF DiskWrite
<1>2. m \in Meta /\ size \in Nat /\ out \in Seq(Byte)
  <2>1. m \in Meta /\ out \in Seq(Byte)
    BY <1>1, Hypotheses DEF LocalOK, LocalT
  <2> QED
    BY <2>1, MetaTypes, ZenonT(40) DEF MetaT
<1>3. content \in Seq(Byte)
  <2> HIDE DEF size, out
  <2>1. \A k \in 1..size : k <= Len(out) => out[k] \in Byte
    BY <1>2
  <2>2. content \in [1..size -> Byte]
    BY <2>1, FileAssumption
  <2> QED
    BY <1>2, <2>2
<1>4. disk' = [disk EXCEPT ![path] = content]
  BY ZenonT(40) DEF DiskWrite
<1>5. me' = [me EXCEPT ![p] = IF exec THEN Rest(p) ELSE flush]
  BY ZenonT(40) DEF DiskWrite
<1> HIDE DEF path, content
<1>6. DOMAIN disk' = DOMAIN disk
  BY <1>4
<1>7. \A f \in DOMAIN disk' : f \in Path \cup {NoPath} /\ disk'[f] \in Seq(Byte)
  BY <1>3, <1>4, Hypotheses DEF TypeInv
<1>8. /\ flush \in LocalT /\ flush.pc = "flush" /\ flush.dbindex = NoBucket
      /\ flush.call.op = "cleanup"
  <2>1. call \in CallT /\ call.op = "cleanup"
    BY DEF CallT, Call
  <2>2. me[p].todo \in Seq(Meta) /\ me[p].calm \in BOOLEAN /\ "flush" \in Control
    BY Hypotheses DEF LocalT, Control
  <2>3. Rest(p) \in LocalT /\ Rest(p).dbindex = NoBucket
    BY Hypotheses, RestType
  <2> HIDE DEF call
  <2>4. flush \in LocalT /\ flush.pc = "flush" /\ flush.dbindex = NoBucket /\ flush.call = call
    BY <2>1, <2>2, <2>3, ZenonT(40) DEF LocalT
  <2> QED
    BY <2>1, <2>4, ZenonT(40)
<1> HIDE DEF flush
<1>9. LocalOK(flush, DOMAIN disk')
  BY <1>8 DEF LocalOK
<1>10. Moved(p) /\ LocalOK(me'[p], DOMAIN disk') /\ me'[p].dbindex \in UsedOrNone
  <2>1. CASE exec
    <3>1. Moved(p) /\ me'[p] = Rest(p)
      BY <1>5, <2>1, Hypotheses, RestType, MovedTo, ZenonT(40)
    <3> QED
      BY <3>1, RestOK, ZenonT(40)
  <2>2. CASE ~ exec
    <3>1. Moved(p) /\ me'[p] = flush
      BY <1>5, <1>8, <2>2, Hypotheses, MovedTo, ZenonT(40)
    <3> QED
      BY <1>8, <1>9, <3>1, Hypotheses, ZenonT(40)
  <2> QED
    BY <2>1, <2>2
<1> QED
  BY <1>1, <1>6, <1>7, <1>10, DiskStep, ZenonT(40)

-----------------------------------------------------------------------------
(* Steps that change the bytes of a bucket                                 *)

(* A step that changes the bytes of one bucket only. *)
LEMMA BytesStep ==
  ASSUME FileInv, NEW p \in Proc, Moved(p), UNCHANGED <<mb, fdTable, disk>>,
         NEW b \in Bucket, NEW d \in BucketT, db' = [db EXCEPT ![b] = d],
         d.in_use = db[b].in_use, d.next_ix = db[b].next_ix,
         LocalOK(me'[p], DOMAIN disk), me'[p].dbindex \in UsedOrNone
  PROVE  FileInv'
<1>1. db' \in [Bucket -> BucketT]
  BY DEF FileInv, TypeInv
<1>2. TypeInv'
  BY <1>1 DEF FileInv, TypeInv, Moved
<1>3. Used' = Used /\ NextIx' = NextIx
  BY <1>1 DEF Used, NextIx, FileInv, TypeInv
<1>4. First' = First /\ UsedOrNone' = UsedOrNone
  BY <1>3 DEF First, UsedOrNone
<1>5. ChainInv'
  BY <1>3, <1>4, ChainsKept DEF SameLinks, FileInv
<1> QED
  BY <1>2, <1>3, <1>4, <1>5, Settle, LastsKept, FdsKept, ZenonT(40)

(* open with O_TRUNC sets the bytes of a bucket to 0 (file_syscalls.c      *)
(* 123-135).                                                               *)
LEMMA TruncBucketStep ==
  ASSUME FileInv, NEW p \in Proc, TruncBucket(p)
  PROVE  FileInv'
<1> DEFINE b == me[p].dbindex
           d == [db[b] EXCEPT !.bytes = 0]
           next == db[b].next_ix
           k == [me[p] EXCEPT !.dbindex = next, !.n = 1]
<1>1. /\ me[p].pc = "trunc" /\ b \in Bucket /\ UNCHANGED <<mb, fdTable, disk>>
      /\ db' = [db EXCEPT ![b] = d]
  BY Hypotheses DEF TruncBucket, BucketOrNone
<1>2. db[b] \in BucketT /\ next \in UsedOrNone
  BY <1>1, Hypotheses, Links DEF TypeInv
<1>3. d \in BucketT /\ d.in_use = db[b].in_use /\ d.next_ix = db[b].next_ix
  BY <1>2, FileAssumption DEF BucketT
<1>4. me' = [me EXCEPT ![p] = k]
  BY Hypotheses, ZenonT(40) DEF TruncBucket, TypeInv
<1> HIDE DEF d, next
<1>5. k \in LocalT /\ k.pc = "trunc" /\ k.m = me[p].m /\ k.dbindex = next
  BY <1>1, <1>2, Hypotheses, ZenonT(40) DEF LocalT
<1> HIDE DEF b, k
<1>6. Moved(p) /\ me'[p] = k
  BY <1>4, <1>5, Hypotheses, MovedTo, ZenonT(40)
<1>7. LocalOK(me'[p], DOMAIN disk) /\ me'[p].dbindex \in UsedOrNone
  BY <1>1, <1>2, <1>5, <1>6, Hypotheses, ZenonT(40) DEF LocalOK
<1> QED
  BY <1>1, <1>3, <1>6, <1>7, BytesStep, ZenonT(40)

(* What is left of a bucket after the offset fits in it. *)
LEMMA RoomFits ==
  ASSUME NEW p, me[p].off \in Nat, me[p].off <= DBUCKET_BUF_SIZE
  PROVE  Room(p) \in Nat /\ me[p].off + Room(p) <= DBUCKET_BUF_SIZE
<1> DEFINE x == DBUCKET_BUF_SIZE - me[p].off
<1>1. x \in Nat /\ DBUCKET_BUF_SIZE \in Nat
  BY FileAssumption
<1>2. Room(p) = x % 65536
  BY DEF Room, SizeT
<1> HIDE DEF x
<1>3. x % 65536 \in Nat /\ x % 65536 <= x
  BY <1>1
<1> QED
  BY <1>1, <1>2, <1>3 DEF x

(* The write loops leave a bucket with no more bytes than its buffer has   *)
(* and with no fewer than before.                                          *)
LEMMA FillBucket ==
  ASSUME NEW p, NEW d \in BucketT, NEW len \in Nat, me[p].off \in Nat, me[p].n \in Nat,
         me[p].call.data \in Seq(Byte), me[p].off + len <= DBUCKET_BUF_SIZE,
         me[p].n + len <= Len(me[p].call.data)
  PROVE  /\ Fill(p, d, len) \in BucketT /\ Fill(p, d, len).in_use = d.in_use
         /\ Fill(p, d, len).next_ix = d.next_ix
         /\ Fill(p, d, len).bytes - d.bytes \in Nat
<1> DEFINE off == me[p].off
           n == me[p].n
           data == me[p].call.data
           buf == [j \in 1..DBUCKET_BUF_SIZE |->
                     IF j - off \in 1..len THEN data[n + j - off] ELSE d.buf[j]]
           bytes == IF off + len > d.bytes THEN off + len ELSE d.bytes
<1>1. /\ off \in Nat /\ n \in Nat /\ data \in Seq(Byte) /\ off + len <= DBUCKET_BUF_SIZE
      /\ n + len <= Len(data) /\ DBUCKET_BUF_SIZE \in Nat
  BY FileAssumption
<1>2. Fill(p, d, len) = [d EXCEPT !.buf = buf, !.bytes = bytes]
  BY DEF Fill, BucketT
<1> HIDE DEF off, n, data
<1>3. /\ d.buf \in [1..DBUCKET_BUF_SIZE -> Byte] /\ d.bytes \in 0..DBUCKET_BUF_SIZE
  BY DEF BucketT
<1>4. buf \in [1..DBUCKET_BUF_SIZE -> Byte]
  <2>1. \A j \in 1..DBUCKET_BUF_SIZE : j - off \in 1..len => data[n + j - off] \in Byte
    <3> SUFFICES ASSUME NEW j \in 1..DBUCKET_BUF_SIZE, j - off \in 1..len
                 PROVE  data[n + j - off] \in Byte
      OBVIOUS
    <3>1. n + j - off \in 1..Len(data)
      BY <1>1
    <3> QED
      BY <1>1, <3>1
  <2> QED
    BY <1>3, <2>1, ZenonT(40)
<1>5. bytes \in 0..DBUCKET_BUF_SIZE /\ bytes - d.bytes \in Nat
  BY <1>1, <1>3
<1> HIDE DEF buf, bytes
<1> QED
  BY <1>2, <1>4, <1>5, ZenonT(40) DEF BucketT

(* The last copy of a write (file_syscalls.c 376-387). *)
LEMMA WriteLastStep ==
  ASSUME FileInv, NEW p \in Proc, WriteLast(p)
  PROVE  FileInv'
<1> DEFINE b == me[p].dbindex
           left == Left(p)
           d == Fill(p, db[b], left)
           size == me[p].size_ind + d.bytes - db[b].bytes
           all == Len(me[p].call.data)
           k == [me[p] EXCEPT !.size_ind = size, !.n = all, !.off = @ + left, !.pc = "end"]
<1>1. /\ me[p].pc = "loop" /\ b \in Bucket /\ Writing(p) /\ me[p].off <= DBUCKET_BUF_SIZE
      /\ left <= Room(p) /\ db' = [db EXCEPT ![b] = d] /\ UNCHANGED <<mb, fdTable, disk>>
  BY Hypotheses DEF WriteLast, InLoop, BucketOrNone
<1>2. me' = [me EXCEPT ![p] = k]
  BY Hypotheses, ZenonT(40) DEF WriteLast, TypeInv
<1>3. /\ me[p].off \in Nat /\ me[p].n \in Nat /\ me[p].call.data \in Seq(Byte)
      /\ me[p].n <= all /\ all \in Nat
  BY <1>1, LoopArgs
<1>4. left \in Nat /\ me[p].n + left = all
  BY ONLY <1>3, SMTT(20) DEF Left
<1>5. me[p].off + left <= DBUCKET_BUF_SIZE
  <2>1. Room(p) \in Nat /\ me[p].off + Room(p) <= DBUCKET_BUF_SIZE
    BY <1>1, <1>3, RoomFits, ZenonT(40)
  <2> HIDE DEF left
  <2> QED
    BY <1>1, <1>3, <1>4, <2>1, FileAssumption
<1>6. db[b] \in BucketT /\ me[p].size_ind \in Nat
  BY <1>1, Hypotheses, ZenonT(40) DEF TypeInv, LocalT
<1> HIDE DEF b, left
<1>7. /\ d \in BucketT /\ d.in_use = db[b].in_use /\ d.next_ix = db[b].next_ix
      /\ d.bytes - db[b].bytes \in Nat
  <2>1. me[p].n + left <= all
    BY <1>3, <1>4
  <2> QED
    BY <1>3, <1>4, <1>5, <1>6, <2>1, FillBucket, ZenonT(120)
<1> HIDE DEF d, all
<1>8. size \in Nat /\ me[p].off + left \in Nat
  <2>1. d.bytes \in Nat /\ db[b].bytes \in Nat
    BY <1>6, <1>7, FileAssumption DEF BucketT
  <2> QED
    <3> DEFINE x == d.bytes
               y == db[b].bytes
    <3>1. x \in Nat /\ y \in Nat /\ x - y \in Nat
      BY <1>7, <2>1, ZenonT(40)
    <3>2. size = me[p].size_ind + x - y
      BY ZenonT(40)
    <3> HIDE DEF x, y, size
    <3>3. size \in Nat
      BY ONLY <1>6, <3>1, <3>2
    <3>4. me[p].off + left \in Nat
      <4>1. me[p].off \in Nat /\ left \in Nat
        BY <1>3, <1>4, ZenonT(40)
      <4> QED
        BY ONLY <4>1
    <3> QED
      BY <3>3, <3>4, ZenonT(40)
<1> HIDE DEF size
<1>9. /\ k \in LocalT /\ k.pc = "end" /\ k.m = me[p].m /\ k.n = all
      /\ k.call = me[p].call /\ k.dbindex = me[p].dbindex
  BY <1>3, <1>8, Hypotheses, ZenonT(120) DEF LocalT, Control
<1> HIDE DEF k
<1>10. Moved(p) /\ me'[p] = k
  BY <1>2, <1>9, Hypotheses, MovedTo, ZenonT(40)
<1>11. LocalOK(me'[p], DOMAIN disk) /\ me'[p].dbindex \in UsedOrNone
  <2>1. all <= Len(me[p].call.data)
    BY <1>3 DEF all
  <2> QED
    BY <1>1, <1>9, <1>10, <2>1, LoopArgs, Hypotheses, ZenonT(40) DEF LocalOK, Writing
<1> QED
  BY <1>1, <1>7, <1>10, <1>11, BytesStep, ZenonT(120)

(* A write fills a bucket and goes on to the next (file_syscalls.c         *)
(* 563-582).                                                               *)
LEMMA WriteOnStep ==
  ASSUME FileInv, NEW p \in Proc, WriteOn(p)
  PROVE  FileInv'
<1> DEFINE b == me[p].dbindex
           room == Room(p)
           d == Fill(p, db[b], room)
           size == me[p].size_ind + d.bytes - db[b].bytes
           next == IF d.next_ix = NoBucket THEN b ELSE d.next_ix
           pc == IF d.next_ix = NoBucket THEN "alloc" ELSE "loop"
           all == Len(me[p].call.data)
           k == [me[p] EXCEPT !.size_ind = size, !.n = @ + room, !.off = 0,
                              !.dbindex = next, !.pc = pc]
<1>1. /\ me[p].pc = "loop" /\ b \in Bucket /\ Writing(p) /\ me[p].off <= DBUCKET_BUF_SIZE
      /\ Left(p) > room /\ db' = [db EXCEPT ![b] = d] /\ UNCHANGED <<mb, fdTable, disk>>
  BY Hypotheses, ZenonT(40) DEF WriteOn, InLoop, BucketOrNone
<1>2. me' = [me EXCEPT ![p] = k]
  BY Hypotheses, ZenonT(40) DEF WriteOn, TypeInv
<1>3. /\ me[p].off \in Nat /\ me[p].n \in Nat /\ me[p].call.data \in Seq(Byte)
      /\ me[p].n <= all /\ all \in Nat
  BY <1>1, LoopArgs, SMTT(20)
<1>4. room \in Nat /\ me[p].off + room <= DBUCKET_BUF_SIZE
  BY <1>1, <1>3, RoomFits, ZenonT(40)
<1> HIDE DEF room
<1>5. me[p].n + room <= all
  BY <1>1, <1>3, <1>4 DEF Left
<1>6. db[b] \in BucketT /\ me[p].size_ind \in Nat
  BY <1>1, Hypotheses, ZenonT(40) DEF TypeInv, LocalT
<1>7. /\ d \in BucketT /\ d.in_use = db[b].in_use /\ d.next_ix = db[b].next_ix
      /\ d.bytes - db[b].bytes \in Nat
  <2> HIDE DEF b
  <2> QED
    BY <1>3, <1>4, <1>5, <1>6, FillBucket, ZenonT(120)
<1> HIDE DEF d, all
<1>8. size \in Nat /\ me[p].n + room \in Nat
  <2> HIDE DEF b
  <2>1. d.bytes \in Nat /\ db[b].bytes \in Nat
    BY <1>6, <1>7, FileAssumption DEF BucketT
  <2>2. me[p].size_ind \in Nat /\ d.bytes - db[b].bytes \in Nat
    BY <1>6, <1>7
  <2>3. size \in Nat
    BY <2>1, <2>2
  <2>4. me[p].n + room \in Nat
    BY ONLY <1>3, <1>4, SMTT(20)
  <2> QED
    BY <2>3, <2>4
<1>9. /\ next \in UsedOrNone /\ next # NoBucket /\ pc \in {"loop", "alloc"} /\ pc \in Control
  BY <1>1, <1>7, Hypotheses, Links, FileAssumption DEF Control
<1> HIDE DEF b, size, next, pc
<1>10. /\ k \in LocalT /\ k.pc = pc /\ k.m = me[p].m /\ k.n = me[p].n + room
       /\ k.call = me[p].call /\ k.dbindex = next
  BY <1>8, <1>9, Hypotheses, ZenonT(40) DEF LocalT
<1> HIDE DEF k
<1>11. Moved(p) /\ me'[p] = k
  BY <1>2, <1>10, Hypotheses, MovedTo, ZenonT(40)
<1>12. LocalOK(me'[p], DOMAIN disk) /\ me'[p].dbindex \in UsedOrNone
  <2>1. me[p].m \in Meta /\ me[p].call.op \in {"write", "pwrite"}
    BY <1>1, LoopArgs, ZenonT(40) DEF Writing
  <2> QED
    BY <1>5, <1>9, <1>10, <1>11, <2>1, ZenonT(40) DEF LocalOK, all
<1> QED
  BY <1>1, <1>7, <1>11, <1>12, BytesStep, ZenonT(40)

-----------------------------------------------------------------------------
(* Steps that take a bucket                                                *)

(* A step that takes the free bucket b and keeps the chains keeps the      *)
(* invariant.                                                              *)
LEMMA TakeStep ==
  ASSUME FileInv, NEW p \in Proc, Moved(p), UNCHANGED <<fdTable, disk>>,
         NEW b \in FreeBuckets, db' \in [Bucket -> BucketT], mb' \in [Meta -> MetaT],
         Used' = Used \cup {b}, ChainInv',
         \A m \in Meta : mb'[m].last_dbucket = mb[m].last_dbucket,
         LocalOK(me'[p], DOMAIN disk), me'[p].dbindex = b
  PROVE  FileInv'
<1>1. TypeInv'
  BY ZenonT(40) DEF FileInv, TypeInv, Moved
<1>2. Used \subseteq Used' /\ b \in UsedOrNone'
  BY ZenonT(40) DEF UsedOrNone
<1>3. \A m \in Meta : mb'[m].last_dbucket \in UsedOrNone'
  BY <1>2 DEF FileInv, HandInv, UsedOrNone
<1> QED
  BY <1>1, <1>2, <1>3, Settle, FdsKept, ZenonT(40)

(* A free bucket that becomes the first of a file keeps the chains. *)
LEMMA FirstStep ==
  ASSUME FileInv, NEW b \in FreeBuckets, NEW m \in Meta,
         NextIx' = NextIx, First' = [First EXCEPT ![m] = b], Used' = Used \cup {b}
  PROVE  ChainInv'
<1>1. TypeInv /\ ChainInv
  BY DEF FileInv
<1>2. PICK rank \in [Bucket -> Nat] : Linked(NextIx, First, Used, rank)
  BY <1>1 DEF ChainInv
<1>3. b \in Bucket \ Used
  BY DEF FreeBuckets, Used
<1>4. Linked(NextIx, First', Used \cup {b}, rank)
  BY <1>1, <1>2, <1>3, LinkTypes, LinkFirst, ZenonT(40)
<1> QED
  BY <1>4 DEF ChainInv

(* So does a free bucket that is linked after one in use, even if that     *)
(* one had a successor already.                                            *)
LEMMA AfterStep ==
  ASSUME FileInv, NEW b \in FreeBuckets, NEW c \in Used,
         NextIx' = [NextIx EXCEPT ![c] = b], First' = First, Used' = Used \cup {b}
  PROVE  ChainInv'
<1>1. TypeInv /\ ChainInv
  BY DEF FileInv
<1>2. PICK rank \in [Bucket -> Nat] : Linked(NextIx, First, Used, rank)
  BY <1>1 DEF ChainInv
<1>3. b \in Bucket \ Used /\ c \in Bucket
  BY DEF FreeBuckets, Used
<1> DEFINE rank2 == [rank EXCEPT ![b] = rank[c] + 1]
<1>4. Linked(NextIx', First, Used \cup {b}, rank2)
  <2> HIDE DEF rank2
  <2>1. rank2 = [rank EXCEPT ![b] = rank[c] + 1]
    BY DEF rank2
  <2> QED
    BY <1>1, <1>2, <1>3, <2>1, LinkTypes, LinkAfter, ZenonT(40)
<1>5. rank2 \in [Bucket -> Nat]
  BY <1>2, <1>3
<1> QED
  BY <1>4, <1>5, ZenonT(40) DEF ChainInv

(* create_new_file takes a meta bucket and a data bucket (file_syscalls.c  *)
(* 28-49).                                                                 *)
LEMMA OpenCreateStep ==
  ASSUME FileInv, NEW p \in Proc, OpenCreate(p)
  PROVE  FileInv'
<1>1. PICK call \in ToCreate(p), m \in Meta, b \in FreeBuckets :
        /\ ~mb[m].in_use
        /\ mb' = [mb EXCEPT ![m].in_use = TRUE, ![m].path = call.path,
                            ![m].first_dbucket = b, ![m].st_size = 0,
                            ![m].consisent = FALSE]
        /\ db' = [db EXCEPT ![b].in_use = TRUE]
        /\ Enter(p, call, AfterLookup(call), m, b, 0)
        /\ UNCHANGED <<fdTable, disk>>
  BY ZenonT(40) DEF OpenCreate
<1>2. call \in CallT /\ call.path \in Path
  <2>1. call \in Calls(p, "open")
    BY ZenonT(40) DEF ToCreate
  <2> QED
    BY <2>1, Hypotheses, Called, CallFields, ZenonT(40)
<1>3. b \in Bucket /\ mb \in [Meta -> MetaT] /\ db \in [Bucket -> BucketT] /\ b \in BucketOrNone
  BY Hypotheses DEF FreeBuckets, TypeInv, BucketOrNone
<1> DEFINE d == [db[b] EXCEPT !.in_use = TRUE]
           path == call.path
           r == [mb[m] EXCEPT !.in_use = TRUE, !.path = path, !.first_dbucket = b,
                              !.st_size = 0, !.consisent = FALSE]
<1>4. db' = [db EXCEPT ![b] = d] /\ mb' = [mb EXCEPT ![m] = r]
  BY <1>1, <1>3, ZenonT(40)
<1>5. d \in BucketT /\ d.in_use /\ d.next_ix = db[b].next_ix
  BY <1>3, ZenonT(40) DEF BucketT
<1> HIDE DEF path
<1>6. r \in MetaT /\ r.first_dbucket = b /\ r.last_dbucket = mb[m].last_dbucket
  BY <1>2, <1>3, ZenonT(40) DEF MetaT, path
<1> HIDE DEF d, r
<1>7. db' \in [Bucket -> BucketT] /\ mb' \in [Meta -> MetaT]
  BY <1>3, <1>4, <1>5, <1>6, ZenonT(40)
<1>8. NextIx' = NextIx /\ Used' = Used \cup {b}
  BY <1>3, <1>4, <1>5 DEF NextIx, Used
<1>9. First' = [First EXCEPT ![m] = b]
  BY <1>3, <1>4, <1>6, ZenonT(40) DEF First
<1>10. \A k \in Meta : mb'[k].last_dbucket = mb[k].last_dbucket
  BY <1>3, <1>4, <1>6
<1>11. ChainInv'
  BY <1>8, <1>9, FirstStep, ZenonT(40)
<1>12. /\ AfterLookup(call) \in {"append", "cursor"} /\ AfterLookup(call) \in Control
       /\ m \in Meta \cup {NoMeta} /\ Enter(p, call, AfterLookup(call), m, b, 0)
       /\ UNCHANGED <<fdTable, disk>>
  BY <1>1 DEF AfterLookup, Control
<1>13. /\ Moved(p) /\ me'[p].pc = AfterLookup(call) /\ me'[p].m = m /\ me'[p].dbindex = b
  BY <1>2, <1>3, <1>12, Hypotheses, EnterMoves, ZenonT(40)
<1>14. LocalOK(me'[p], DOMAIN disk)
  BY <1>12, <1>13, ZenonT(40) DEF LocalOK
<1> QED
  BY <1>7, <1>8, <1>10, <1>11, <1>12, <1>13, <1>14, TakeStep, ZenonT(40)

(* A write takes a bucket and links it after the one in hand, without      *)
(* looking again whether that one got a successor meanwhile                *)
(* (file_syscalls.c 396-402, 583-586).                                     *)
LEMMA WriteAllocStep ==
  ASSUME FileInv, NEW p \in Proc, WriteAlloc(p)
  PROVE  FileInv'
<1>1. PICK b \in FreeBuckets :
        /\ db' = [db EXCEPT ![b].in_use = TRUE, ![me[p].dbindex].next_ix = b]
        /\ me' = [me EXCEPT ![p].dbindex = b, ![p].pc = "loop"]
  BY ZenonT(40) DEF WriteAlloc
<1> DEFINE c == me[p].dbindex
           d == [db[b] EXCEPT !.in_use = TRUE]
           e == [db[c] EXCEPT !.next_ix = b]
           k == [me[p] EXCEPT !.dbindex = b, !.pc = "loop"]
<1>2. me[p].pc = "alloc" /\ UNCHANGED <<mb, fdTable, disk>>
  BY DEF WriteAlloc
<1>3. c \in Used /\ b \in Bucket /\ b \notin Used /\ c \in Bucket /\ c # b
  <2>1. c \in Used
    BY <1>2, Hypotheses DEF LocalOK, UsedOrNone
  <2> QED
    BY <2>1, ZenonT(40) DEF Used, FreeBuckets
<1>4. db \in [Bucket -> BucketT] /\ mb \in [Meta -> MetaT] /\ me \in [Proc -> LocalT]
  BY Hypotheses DEF TypeInv
<1>5. db' = [[db EXCEPT ![b] = d] EXCEPT ![c] = e]
  BY <1>1, <1>3, <1>4
<1>6. me' = [me EXCEPT ![p] = k]
  BY <1>1, <1>4, ZenonT(40)
<1>7. /\ d \in BucketT /\ d.in_use /\ d.next_ix = db[b].next_ix
      /\ e \in BucketT /\ e.in_use = db[c].in_use /\ e.next_ix = b
  BY <1>3, <1>4, ZenonT(40) DEF BucketT, BucketOrNone
<1> HIDE DEF d, e
<1>8. db' \in [Bucket -> BucketT]
  BY <1>4, <1>5, <1>7, ZenonT(40)
<1>9. NextIx' = [NextIx EXCEPT ![c] = b]
  BY <1>3, <1>4, <1>5, <1>7, ZenonT(40) DEF NextIx
<1>10. Used' = Used \cup {b}
  BY <1>3, <1>4, <1>5, <1>7 DEF Used
<1>11. k \in LocalT /\ k.pc = "loop" /\ k.m = me[p].m /\ k.n = me[p].n
       /\ k.call = me[p].call /\ k.dbindex = b
  BY <1>3, Hypotheses, ZenonT(120) DEF LocalT, Control, BucketOrNone
<1> HIDE DEF c, k
<1>12. ChainInv' /\ mb' \in [Meta -> MetaT]
  <2>1. First' = First
    BY <1>2 DEF First
  <2> QED
    BY <1>2, <1>3, <1>4, <1>9, <1>10, <2>1, AfterStep, ZenonT(40)
<1>13. Moved(p) /\ me'[p] = k
  BY <1>6, <1>11, Hypotheses, MovedTo, ZenonT(40)
<1>14. LocalOK(me'[p], DOMAIN disk)
  BY <1>2, <1>11, <1>13, Hypotheses, ZenonT(40) DEF LocalOK
<1> QED
  BY <1>2, <1>8, <1>10, <1>11, <1>12, <1>13, <1>14, TakeStep, ZenonT(40)

(* upload_file takes a bucket, fills it and links it (util.c 62-92). *)
LEMMA UploadBucketStep ==
  ASSUME FileInv, NEW p \in Proc, UploadBucket(p)
  PROVE  FileInv'
<1> DEFINE out == me[p].out
           n == me[p].n
           m == me[p].m
           c == me[p].dbindex
           left == Len(out) - n
           size == IF left < DBUCKET_BUF_SIZE THEN left ELSE DBUCKET_BUF_SIZE
           chunk == SubSeq(out, n + 1, n + size)
<1>1. PICK b \in FreeBuckets :
       /\ db' = [x \in Bucket |->
            IF x = b THEN [db[b] EXCEPT !.in_use = TRUE, !.bytes = Len(chunk),
                             !.buf = [j \in 1..DBUCKET_BUF_SIZE |->
                                        IF j <= Len(chunk) THEN chunk[j] ELSE @[j]]]
            ELSE IF x = c THEN [db[x] EXCEPT !.next_ix = b] ELSE db[x]]
       /\ mb' = IF c = NoBucket THEN [mb EXCEPT ![m].first_dbucket = b] ELSE mb
       /\ me' = [me EXCEPT ![p].dbindex = b, ![p].n = @ + Len(chunk)]
  BY ZenonT(40) DEF UploadBucket
<1>2. me[p].pc = "upload" /\ UNCHANGED <<fdTable, disk>>
  BY ZenonT(40) DEF UploadBucket, Uploading
<1>3. /\ out \in Seq(Byte) /\ n \in Nat /\ n <= Len(out) /\ m \in Meta
      /\ c = NoBucket \/ c \in Used
  BY <1>2, Hypotheses, ZenonT(40) DEF LocalOK, LocalT, UsedOrNone
<1>4. db \in [Bucket -> BucketT] /\ mb \in [Meta -> MetaT] /\ me \in [Proc -> LocalT]
  BY Hypotheses DEF TypeInv
<1>5. b \in Bucket /\ b \notin Used /\ (c # NoBucket => c \in Bucket /\ c # b) /\ NoBucket \notin Bucket
  BY <1>3, FileAssumption, ZenonT(40) DEF Used, FreeBuckets
<1>6. size \in 0..DBUCKET_BUF_SIZE /\ n + size <= Len(out) /\ DBUCKET_BUF_SIZE \in Nat
  BY ONLY <1>3, FileAssumption, SMTT(20)
<1> HIDE DEF size
<1>7. chunk \in Seq(Byte) /\ Len(chunk) = size
  <2> HIDE DEF out, n
  <2> QED
    BY <1>3, <1>6
<1> HIDE DEF chunk
<1> DEFINE buf == [j \in 1..DBUCKET_BUF_SIZE |->
                     IF j <= Len(chunk) THEN chunk[j] ELSE db[b].buf[j]]
           bytes == Len(chunk)
           d == [db[b] EXCEPT !.in_use = TRUE, !.bytes = bytes, !.buf = buf]
           e == [db[c] EXCEPT !.next_ix = b]
           k == [me[p] EXCEPT !.dbindex = b, !.n = @ + bytes]
<1>8. buf \in [1..DBUCKET_BUF_SIZE -> Byte] /\ bytes \in 0..DBUCKET_BUF_SIZE
  <2>1. db[b].buf \in [1..DBUCKET_BUF_SIZE -> Byte]
    BY <1>4, <1>5, ZenonT(40) DEF BucketT
  <2>2. \A j \in 1..DBUCKET_BUF_SIZE : j <= Len(chunk) => chunk[j] \in Byte
    BY <1>6, <1>7
  <2> QED
    BY <1>6, <1>7, <2>1, <2>2, ZenonT(40)
<1>9. /\ db' = [x \in Bucket |-> IF x = b THEN d ELSE IF x = c THEN e ELSE db[x]]
      /\ me' = [me EXCEPT ![p] = k]
  BY <1>1, <1>4, ZenonT(40)
<1> HIDE DEF buf, bytes
<1>10. d \in BucketT /\ d.in_use /\ d.next_ix = db[b].next_ix
  BY <1>4, <1>5, <1>8, ZenonT(40) DEF BucketT
<1>11. c # NoBucket => e \in BucketT /\ e.in_use = db[c].in_use /\ e.next_ix = b
  BY <1>4, <1>5 DEF BucketT, BucketOrNone
<1> HIDE DEF d, e
<1>12. db' \in [Bucket -> BucketT]
  BY <1>4, <1>5, <1>9, <1>10, <1>11, ZenonT(40)
<1>13. Used' = Used \cup {b}
  BY <1>4, <1>5, <1>9, <1>10, <1>11, ZenonT(40) DEF Used
<1>14. /\ ChainInv' /\ mb' \in [Meta -> MetaT]
       /\ \A x \in Meta : mb'[x].last_dbucket = mb[x].last_dbucket
  <2>1. CASE c = NoBucket
    <3> DEFINE r == [mb[m] EXCEPT !.first_dbucket = b]
    <3>1. mb' = [mb EXCEPT ![m] = r]
      BY <1>1, <2>1, ZenonT(40)
    <3>2. r \in MetaT /\ r.first_dbucket = b /\ r.last_dbucket = mb[m].last_dbucket
      BY <1>3, <1>4, <1>5, ZenonT(120) DEF MetaT, BucketOrNone
    <3> HIDE DEF r, c, m
    <3>3. NextIx' = NextIx
      BY <1>5, <1>9, <1>10, <2>1 DEF NextIx
    <3>4. First' = [First EXCEPT ![m] = b]
      BY <1>3, <1>4, <3>1, <3>2, ZenonT(40) DEF First
    <3>5. ChainInv'
      BY <1>3, <1>13, <3>3, <3>4, FirstStep, ZenonT(40)
    <3> QED
      BY <1>3, <1>4, <3>1, <3>2, <3>5, ZenonT(40)
  <2>2. CASE c # NoBucket
    <3>1. mb' = mb
      BY <1>1, <2>2, ZenonT(40)
    <3>2. NextIx' = [NextIx EXCEPT ![c] = b]
      BY <1>4, <1>5, <1>9, <1>10, <1>11, <2>2, ZenonT(40) DEF NextIx
    <3>3. First' = First /\ c \in Used
      BY <1>3, <2>2, <3>1, ZenonT(40) DEF First
    <3> HIDE DEF c
    <3> QED
      BY <1>4, <1>13, <3>1, <3>2, <3>3, AfterStep, ZenonT(40)
  <2> QED
    BY <2>1, <2>2
<1>15. n + bytes \in Nat /\ n + bytes <= Len(out)
  BY <1>3, <1>6, <1>7 DEF bytes
<1>16. /\ k \in LocalT /\ k.pc = "upload" /\ k.m = m /\ k.n = n + bytes /\ k.out = out
       /\ k.call = me[p].call /\ k.dbindex = b
  BY <1>2, <1>5, <1>15, Hypotheses, ZenonT(40) DEF LocalT, BucketOrNone
<1> HIDE DEF c, k, n, m, out
<1>17. Moved(p) /\ me'[p] = k
  BY <1>9, <1>16, Hypotheses, MovedTo, ZenonT(40)
<1>18. LocalOK(me'[p], DOMAIN disk)
  BY <1>2, <1>3, <1>15, <1>16, <1>17, Hypotheses, ZenonT(40) DEF LocalOK
<1> QED
  BY <1>2, <1>12, <1>13, <1>14, <1>16, <1>17, <1>18, TakeStep, ZenonT(40)

-----------------------------------------------------------------------------
(* Walking a chain *)

(* A set of numbers that is not empty has a least element. *)
LEMMA LeastNat ==
  ASSUME NEW S \in SUBSET Nat, S # {}
  PROVE  \E n \in S : \A m \in S : n <= m
<1>1. IsWellFoundedOn(OpToRel(<, Nat), Nat)
  BY NatLessThanWellFounded, ZenonT(40)
<1>2. PICK n \in S : \A m \in S : ~ (<<m, n>> \in OpToRel(<, Nat))
  BY <1>1, WFMin, ZenonT(40)
<1>3. \A m \in S : ~ (m < n)
  BY <1>2, ZenonT(40) DEF OpToRel
<1> QED
  BY <1>3

(* A set of numbers that holds 0, and n + 1 with n, holds them all. *)
LEMMA NatInduct ==
  ASSUME NEW S, 0 \in S, \A n \in Nat : n \in S => n + 1 \in S
  PROVE  \A n \in Nat : n \in S
<1> SUFFICES ASSUME Nat \ S # {}
             PROVE  FALSE
  OBVIOUS
<1>1. PICK n \in Nat \ S : \A m \in Nat \ S : n <= m
  <2> DEFINE T == Nat \ S
  <2>1. T \in SUBSET Nat /\ T # {}
    OBVIOUS
  <2> HIDE DEF T
  <2>2. \E n \in T : \A m \in T : n <= m
    BY <2>1, LeastNat, ZenonT(40)
  <2> QED
    BY <2>2 DEF T
<1>2. n - 1 \in Nat /\ n - 1 \in S
  BY <1>1
<1> QED
  BY <1>1, <1>2

(* The last bucket of a chain. *)
End(s) == s[Len(s)]

(* The walk of Chain(b) after k links, w being the walk before. *)
ChainStep(b, w, k) ==
  IF k = 0 THEN IF b = NoBucket THEN <<>> ELSE <<b>>
  ELSE IF w[k - 1] = <<>> \/ db[End(w[k - 1])].next_ix = NoBucket THEN w[k - 1]
  ELSE Append(w[k - 1], db[End(w[k - 1])].next_ix)

(* A walk can be made of any number of links. *)
LEMMA ChainExists ==
  ASSUME NEW b, NEW n \in Nat
  PROVE  \E w : w = [k \in 0..n |-> ChainStep(b, w, k)]
<1> DEFINE Bad == {m \in Nat : ~ \E w : w = [k \in 0..m |-> ChainStep(b, w, k)]}
<1> SUFFICES ASSUME Bad # {}
             PROVE  FALSE
  OBVIOUS
<1>1. PICK m \in Bad : \A j \in Bad : m <= j
  BY LeastNat, ZenonT(40)
<1> HIDE DEF Bad
<1>2. m \in Nat /\ ~ \E w : w = [k \in 0..m |-> ChainStep(b, w, k)]
  BY <1>1 DEF Bad
<1>3. CASE m = 0
  <2>1. DEFINE w == [k \in 0..0 |-> IF b = NoBucket THEN <<>> ELSE <<b>>]
  <2>2. w = [k \in 0..0 |-> ChainStep(b, w, k)]
    BY DEF ChainStep
  <2> QED
    BY <1>2, <1>3, <2>2, ZenonT(40)
<1>4. CASE m # 0
  <2>1. m - 1 \in Nat /\ m - 1 \notin Bad
    BY ONLY <1>1, <1>2, <1>4
  <2>2. PICK v : v = [k \in 0..m - 1 |-> ChainStep(b, v, k)]
    BY <2>1 DEF Bad
  <2>3. DEFINE w == [k \in 0..m |-> ChainStep(b, v, k)]
  <2>4. \A k \in 0..m - 1 : w[k] = v[k]
    BY <1>2, <2>2
  <2>5. ASSUME NEW k \in 0..m
        PROVE  ChainStep(b, v, k) = ChainStep(b, w, k)
    <3> HIDE DEF w
    <3>1. k # 0 => k - 1 \in 0..m - 1
      BY <1>2
    <3>2. k # 0 => v[k - 1] = w[k - 1]
      BY <2>4, <3>1
    <3> QED
      BY <3>2, ZenonT(40) DEF ChainStep
  <2>6. w = [k \in 0..m |-> ChainStep(b, w, k)]
    BY <2>5, ZenonT(40)
  <2> QED
    BY <1>2, <2>6, ZenonT(40)
<1> QED
  BY <1>3, <1>4

(* Chain(b) is the end of that walk. *)
LEMMA ChainUnfolds ==
  ASSUME NEW b, NEW N \in Nat, N = Cardinality(Bucket)
  PROVE  \E w : w = [k \in 0..N |-> ChainStep(b, w, k)] /\ Chain(b) = w[N]
<1> DEFINE F(w) == [k \in 0..N |->
             IF k = 0 THEN IF b = NoBucket THEN <<>> ELSE <<b>>
             ELSE IF w[k - 1] = <<>> \/ db[w[k - 1][Len(w[k - 1])]].next_ix = NoBucket
                  THEN w[k - 1]
                  ELSE Append(w[k - 1], db[w[k - 1][Len(w[k - 1])]].next_ix)]
           c == CHOOSE w : w = F(w)
<1>1. PICK w : w = [j \in 0..N |-> ChainStep(b, w, j)]
  BY ChainExists, ZenonT(40)
<1>2. w = F(w)
  BY <1>1, ZenonT(40) DEF ChainStep, End
<1>3. c = F(c)
  BY <1>2, ZenonT(40)
<1>4. c = [j \in 0..N |-> ChainStep(b, c, j)]
  BY <1>3, ZenonT(40) DEF ChainStep, End
<1>5. Chain(b) = c[N]
  BY ZenonT(40) DEF Chain
<1> QED
  BY <1>4, <1>5, ZenonT(40)

(* s is a walk along next_ix over buckets in use that starts at b. *)
Trail(b, s) ==
  /\ s \in Seq(Used) /\ Len(s) > 0 /\ s[1] = b
  /\ \A k \in 1..Len(s) - 1 : s[k + 1] = NextIx[s[k]]

(* One more link of a trail makes a trail. *)
LEMMA TrailGrows ==
  ASSUME NEW b, NEW s, Trail(b, s), NEW c \in Used, c = NextIx[End(s)]
  PROVE  Trail(b, Append(s, c))
<1> DEFINE t == Append(s, c)
           n == Len(s)
<1>1. s \in Seq(Used) /\ n \in Nat /\ n > 0
  BY DEF Trail
<1>2. /\ t \in Seq(Used) /\ Len(t) = n + 1 /\ t[n + 1] = c
      /\ \A k \in 1..n : t[k] = s[k]
  BY <1>1
<1>3. \A k \in 1..n - 1 : s[k + 1] = NextIx[s[k]]
  BY DEF Trail
<1>4. s[1] = b /\ c = NextIx[s[n]]
  BY DEF Trail, End
<1> HIDE DEF t, n
<1>5. ASSUME NEW k \in 1..n
      PROVE  t[k + 1] = NextIx[t[k]]
  <2>1. CASE k = n
    BY <1>1, <1>2, <1>4, <2>1, ZenonT(40)
  <2>2. CASE k # n
    <3>1. k \in 1..n - 1 /\ k + 1 \in 1..n
      BY ONLY <1>1, <2>2
    <3> QED
      BY <1>2, <1>3, <3>1
  <2> QED
    BY <2>1, <2>2
<1>6. Len(t) > 0 /\ 1 \in 1..n /\ 1..Len(t) - 1 = 1..n
  BY <1>1, <1>2
<1>7. Trail(b, t)
  BY <1>2, <1>4, <1>5, <1>6, ZenonT(40) DEF Trail
<1> QED
  BY <1>7 DEF t

(* From a bucket in use Chain walks along a trail; from no bucket nowhere. *)
LEMMA ChainIsTrail ==
  ASSUME TypeInv, ChainInv, NEW b \in UsedOrNone
  PROVE  IF b = NoBucket THEN Chain(b) = <<>> ELSE Trail(b, Chain(b))
<1> DEFINE N == Cardinality(Bucket)
           Good(s) == IF b = NoBucket THEN s = <<>> ELSE Trail(b, s)
<1>1. N \in Nat
  BY FileAssumption, FS_CardinalityType, ZenonT(40)
<1> HIDE DEF N
<1>2. PICK w : w = [k \in 0..N |-> ChainStep(b, w, k)] /\ Chain(b) = w[N]
  BY <1>1, ChainUnfolds DEF N
<1> DEFINE S == {k \in Nat : k \in 0..N => Good(w[k])}
<1>3. 0 \in S
  <2>1. w[0] = IF b = NoBucket THEN <<>> ELSE <<b>>
    BY ONLY <1>1, <1>2 DEF ChainStep
  <2>2. b # NoBucket => <<b>> \in Seq(Used) /\ Len(<<b>>) = 1 /\ <<b>>[1] = b
    BY DEF UsedOrNone
  <2>3. b # NoBucket => Trail(b, <<b>>)
    BY ONLY <2>2 DEF Trail
  <2> QED
    BY <2>1, <2>3, ZenonT(40)
<1>4. ASSUME NEW n \in Nat, n \in S
      PROVE  n + 1 \in S
  <2> SUFFICES ASSUME n + 1 \in 0..N
               PROVE  Good(w[n + 1])
    OBVIOUS
  <2>1. n \in 0..N /\ (n + 1) - 1 = n /\ n + 1 # 0
    BY <1>1
  <2> DEFINE s == w[n]
             c == db[End(s)].next_ix
  <2>2. Good(s)
    BY <1>4, <2>1
  <2>3. w[n + 1] = ChainStep(b, w, n + 1)
    BY <1>2, ZenonT(40)
  <2>4. w[n + 1] = IF s = <<>> \/ c = NoBucket THEN s ELSE Append(s, c)
    BY <2>1, <2>3, ZenonT(40) DEF ChainStep
  <2> HIDE DEF s
  <2>5. CASE s = <<>> \/ c = NoBucket
    BY <2>2, <2>4, <2>5, ZenonT(40)
  <2>6. CASE s # <<>> /\ c # NoBucket
    <3>1. Trail(b, s) /\ b # NoBucket
      BY <2>2, <2>6, ZenonT(40)
    <3>2. End(s) \in Used
      BY ONLY <3>1, SMTT(20) DEF Trail, End
    <3>3. c \in Used /\ c = NextIx[End(s)]
      BY <2>6, <3>2, Links, ZenonT(40) DEF UsedOrNone, Used, NextIx
    <3> HIDE DEF c
    <3>4. Trail(b, Append(s, c))
      BY <3>1, <3>3, TrailGrows, ZenonT(40)
    <3> QED
      BY <2>4, <2>6, <3>1, <3>4, ZenonT(40)
  <2> QED
    BY <2>5, <2>6, ZenonT(40)
<1> HIDE DEF S
<1>5. \A n \in Nat : n \in S
  BY <1>3, <1>4, NatInduct, ZenonT(40)
<1> QED
  <2>1. N \in Nat /\ N \in 0..N
    BY ONLY <1>1
  <2>2. N \in S
    BY <1>5, <2>1, ZenonT(40)
  <2>3. Good(w[N])
    BY <2>1, <2>2, ZenonT(40) DEF S
  <2> QED
    BY <1>2, <2>3, ZenonT(40)

(* The ranks grow along a trail, so that it never meets a bucket twice. *)
LEMMA TrailRanks ==
  ASSUME NEW rank \in [Bucket -> Nat], Linked(NextIx, First, Used, rank), TypeInv,
         NEW b, NEW s, Trail(b, s)
  PROVE  \A k \in 1..Len(s) : \A j \in 1..k - 1 : rank[s[j]] < rank[s[k]]
<1> DEFINE n == Len(s)
           r(k) == rank[s[k]]
           S == {k \in Nat : k \in 1..n => \A j \in 1..k - 1 : r(j) < r(k)}
<1>1. n \in Nat /\ \A k \in 1..n : s[k] \in Used /\ r(k) \in Nat
  BY DEF Trail, Used
<1>2. \A k \in 1..n - 1 : s[k + 1] = NextIx[s[k]]
  BY ZenonT(40) DEF Trail
<1>3. \A k \in 1..n - 1 : r(k) < r(k + 1)
  <2> SUFFICES ASSUME NEW k \in 1..n - 1
               PROVE  r(k) < r(k + 1)
    OBVIOUS
  <2>1. k \in 1..n /\ k + 1 \in 1..n
    BY ONLY <1>1, SMTT(20)
  <2>2. s[k] \in Used /\ NextIx[s[k]] = s[k + 1] /\ s[k + 1] # NoBucket
    BY <1>1, <1>2, <2>1, FileAssumption, ZenonT(120) DEF Used
  <2> QED
    BY <2>2 DEF Linked
<1> HIDE DEF n, r
<1>4. 0 \in S
  BY <1>1
<1>5. ASSUME NEW k \in Nat, k \in S
      PROVE  k + 1 \in S
  <2> SUFFICES ASSUME k + 1 \in 1..n, NEW j \in 1..(k + 1) - 1
               PROVE  r(j) < r(k + 1)
    OBVIOUS
  <2>1. k \in 1..n - 1 /\ k \in 1..n /\ j \in 1..k /\ j \in 1..n
    BY <1>1
  <2>2. r(k) < r(k + 1) /\ r(k) \in Nat /\ r(k + 1) \in Nat /\ r(j) \in Nat
    BY <1>1, <1>3, <2>1, ZenonT(40)
  <2>3. CASE j = k
    BY <2>2, <2>3
  <2>4. CASE j # k
    <3>1. j \in 1..k - 1
      BY <2>1, <2>4
    <3>2. r(j) < r(k)
      BY <1>5, <2>1, <3>1
    <3> QED
      BY <2>2, <3>2
  <2> QED
    BY <2>3, <2>4
<1> HIDE DEF S
<1>6. \A k \in Nat : k \in S
  BY <1>4, <1>5, NatInduct, ZenonT(40)
<1> QED
  BY ONLY <1>1, <1>6 DEF S, n, r

(* Trails from two buckets to which no bucket in use points never meet: a   *)
(* bucket has at most one bucket before it, so walking both back from where *)
(* they meet would meet one of the starts.                                  *)
LEMMA TrailsApart ==
  ASSUME NEW rank, Linked(NextIx, First, Used, rank), TypeInv,
         NEW a, NEW c, a # c, \A x \in Used : NextIx[x] # a /\ NextIx[x] # c,
         NEW s, Trail(a, s), NEW t, Trail(c, t)
  PROVE  \A j \in 1..Len(s), k \in 1..Len(t) : s[j] # t[k]
<1> DEFINE n == Len(s)
           i == Len(t)
           S == {j \in Nat : j \in 1..n => \A k \in 1..i : s[j] # t[k]}
<1>1. /\ n \in Nat /\ i \in Nat /\ s[1] = a /\ t[1] = c
      /\ \A k \in 1..n : s[k] \in Used
      /\ \A k \in 1..i : t[k] \in Used
  BY DEF Trail, Used
<1>2. \A k \in 1..n - 1 : s[k + 1] = NextIx[s[k]]
  BY DEF Trail
<1>3. \A k \in 1..i - 1 : t[k + 1] = NextIx[t[k]]
  BY DEF Trail
<1> HIDE DEF n, i
<1>4. 0 \in S
  BY <1>1
<1>5. ASSUME NEW j \in Nat, j \in S
      PROVE  j + 1 \in S
  <2> SUFFICES ASSUME j + 1 \in 1..n, NEW k \in 1..i, s[j + 1] = t[k]
               PROVE  FALSE
    OBVIOUS
  <2>1. k # 1 => k - 1 \in 1..i - 1 /\ k - 1 \in 1..i /\ (k - 1) + 1 = k
    BY ONLY <1>1
  <2>2. j # 0 => j \in 1..n - 1 /\ j \in 1..n
    BY <1>1
  <2>3. k # 1 => t[k] = NextIx[t[k - 1]] /\ t[k - 1] \in Used
    BY <1>1, <1>3, <2>1, ZenonT(40)
  <2>4. j # 0 => s[j + 1] = NextIx[s[j]] /\ s[j] \in Used
    BY <1>1, <1>2, <2>2, ZenonT(40)
  <2>5. j # 0 /\ k # 1
    <3>1. j = 0 => s[j + 1] = a
      BY ONLY <1>1, SMTT(20)
    <3> QED
      BY <1>1, <2>3, <2>4, <3>1, ZenonT(40)
  <2>6. s[j + 1] # NoBucket
    BY <1>1, FileAssumption, ZenonT(40) DEF Used
  <2>7. s[j] = t[k - 1]
    BY <2>3, <2>4, <2>5, <2>6, ZenonT(40) DEF Linked
  <2> QED
    BY <1>5, <2>1, <2>2, <2>5, <2>7, ZenonT(40)
<1> HIDE DEF S
<1>6. \A j \in Nat : j \in S
  BY <1>4, <1>5, NatInduct, ZenonT(40)
<1> QED
  BY ONLY <1>1, <1>6, SMTT(20) DEF S, n, i

(* ChainInv is what ChainsSound says of the walks. *)
LEMMA ChainsAreSound ==
  ASSUME FileInv
  PROVE  ChainsSound
<1>1. PICK rank \in [Bucket -> Nat] : Linked(NextIx, First, Used, rank)
  BY DEF FileInv, ChainInv
<1>2. ASSUME NEW m \in Meta
      PROVE  \/ First[m] = NoBucket /\ FileChain(m) = <<>>
             \/ First[m] # NoBucket /\ Trail(First[m], FileChain(m))
  <2>1. First[m] \in UsedOrNone /\ FileChain(m) = Chain(First[m])
    BY Links DEF FileInv, First, FileChain
  <2> QED
    BY <2>1, ChainIsTrail, ZenonT(40) DEF FileInv
<1>3. ASSUME NEW m \in Meta, NEW s, s = FileChain(m)
      PROVE  /\ \A j, k \in 1..Len(s) : s[j] = s[k] => j = k
             /\ \A k \in 1..Len(s) : s[k] \in Used
  <2>1. CASE s = <<>>
    BY <2>1
  <2>2. CASE Trail(First[m], s)
    <3>1. \A k \in 1..Len(s) : \A j \in 1..k - 1 : rank[s[j]] < rank[s[k]]
      BY <1>1, <2>2, TrailRanks, ZenonT(40) DEF FileInv
    <3>2. Len(s) \in Nat /\ \A k \in 1..Len(s) : s[k] \in Used
      BY <2>2 DEF Trail
    <3>3. \A k \in 1..Len(s) : rank[s[k]] \in Nat
      BY <3>2, ZenonT(40) DEF Used
    <3>4. ASSUME NEW j \in 1..Len(s), NEW k \in 1..Len(s), s[j] = s[k]
          PROVE  ~ (j < k)
      <4>1. j < k => j \in 1..k - 1
        BY <3>2
      <4> QED
        BY ONLY <3>1, <3>3, <3>4, <4>1
    <3>5. \A j, k \in 1..Len(s) : s[j] = s[k] => j = k
      BY ONLY <3>2, <3>4
    <3> QED
      BY <3>2, <3>5, ZenonT(40)
  <2> QED
    BY <1>2, <1>3, <2>1, <2>2, ZenonT(40)
<1>4. ASSUME NEW m1 \in Meta, NEW m2 \in Meta, m1 # m2
      PROVE  ChainSet(m1) \cap ChainSet(m2) = {}
  <2> DEFINE s == FileChain(m1)
             t == FileChain(m2)
  <2>1. \A j \in 1..Len(s), k \in 1..Len(t) : s[j] # t[k]
    <3>1. CASE s = <<>> \/ t = <<>>
      BY ONLY <3>1, SMTT(20)
    <3>2. CASE s # <<>> /\ t # <<>>
      <4> HIDE DEF s, t
      <4>1. /\ First[m1] # NoBucket /\ Trail(First[m1], s)
            /\ First[m2] # NoBucket /\ Trail(First[m2], t)
        BY <1>2, <3>2, ZenonT(40) DEF s, t
      <4>2. First[m1] # First[m2] /\ \A x \in Used : NextIx[x] # First[m1] /\ NextIx[x] # First[m2]
        BY <1>1, <1>4, <4>1, ZenonT(40) DEF Linked
      <4> QED
        BY <1>1, <4>1, <4>2, TrailsApart, ZenonT(40) DEF FileInv
    <3> QED
      BY <3>1, <3>2, ZenonT(40)
  <2> HIDE DEF s, t
  <2>2. ChainSet(m1) = {s[j] : j \in 1..Len(s)} /\ ChainSet(m2) = {t[k] : k \in 1..Len(t)}
    BY ZenonT(40) DEF ChainSet, s, t
  <2> QED
    BY <2>1, <2>2, ZenonT(40)
<1>5. \A m \in Meta : LET s == FileChain(m) IN
        /\ \A j, k \in 1..Len(s) : s[j] = s[k] => j = k
        /\ \A k \in 1..Len(s) : db[s[k]].in_use
  <2> SUFFICES ASSUME NEW m \in Meta
               PROVE  LET s == FileChain(m) IN
                        /\ \A j, k \in 1..Len(s) : s[j] = s[k] => j = k
                        /\ \A k \in 1..Len(s) : db[s[k]].in_use
    OBVIOUS
  <2> DEFINE s == FileChain(m)
  <2>1. /\ \A j, k \in 1..Len(s) : s[j] = s[k] => j = k
        /\ \A k \in 1..Len(s) : s[k] \in Used
    BY <1>3, ZenonT(40)
  <2> HIDE DEF s
  <2>2. \A k \in 1..Len(s) : db[s[k]].in_use
    BY <2>1 DEF Used
  <2> QED
    BY <2>1, <2>2, ZenonT(40) DEF s
<1> QED
  BY <1>4, <1>5, ZenonT(40) DEF ChainsSound

(* Any bucket of a chain is in use. *)
LEMMA ChainUsed ==
  ASSUME TypeInv, ChainInv, NEW m \in Meta, NEW k \in 1..Len(FileChain(m))
  PROVE  FileChain(m)[k] \in Used
<1> DEFINE b == mb[m].first_dbucket
           s == FileChain(m)
<1>1. b \in UsedOrNone /\ s = Chain(b)
  BY Links DEF FileChain
<1> HIDE DEF b
<1>2. IF b = NoBucket THEN s = <<>> ELSE Trail(b, s)
  BY <1>1, ChainIsTrail
<1>3. k \in 1..Len(s)
  OBVIOUS
<1> HIDE DEF s
<1>4. s \in Seq(Used)
  <2>1. <<>> \in Seq(Used)
    OBVIOUS
  <2>2. s = <<>> \/ Trail(b, s)
    BY <1>2
  <2> QED
    BY <2>1, <2>2, ZenonT(40) DEF Trail
<1>5. s[k] \in Used
  BY <1>3, <1>4
<1> QED
  BY <1>5 DEF s

(* pread and pwrite walk to the bucket of their offset (file_syscalls.c    *)
(* 458-478, 527-562).                                                      *)
LEMMA AtOffsetStep ==
  ASSUME FileInv, NEW p \in Proc, NEW op, op \in {"pread", "pwrite"}, AtOffset(p, op)
  PROVE  FileInv'
<1>1. PICK call \in FdCalls(p, op) :
        LET fd     == fdTable[p][call.fd]
            chain  == FileChain(fd.mindex)
            rounds == call.offset \div DBUCKET_BUF_SIZE
            hit    == fd.offset = call.offset /\ fd.dbindex # NoBucket
            b      == IF hit THEN fd.dbindex
                      ELSE IF rounds < Len(chain) THEN chain[rounds + 1] ELSE NoBucket
        IN
        /\ Enter(p, call, "loop", fd.mindex, b, call.offset % DBUCKET_BUF_SIZE)
        /\ fdTable' = [fdTable EXCEPT ![p][call.fd] =
             IF hit \/ rounds > Len(chain) THEN @
             ELSE [@ EXCEPT !.offset = call.offset, !.dbindex = b]]
        /\ UNCHANGED <<db, mb, disk>>
  BY ZenonT(40) DEF AtOffset
<1> DEFINE f == call.fd
           fd == fdTable[p][f]
           m == fd.mindex
           chain == FileChain(m)
           rounds == call.offset \div DBUCKET_BUF_SIZE
           hit == fd.offset = call.offset /\ fd.dbindex # NoBucket
           b == IF hit THEN fd.dbindex
                ELSE IF rounds < Len(chain) THEN chain[rounds + 1] ELSE NoBucket
           off == call.offset % DBUCKET_BUF_SIZE
           e == IF hit \/ rounds > Len(chain) THEN fd
                ELSE [fd EXCEPT !.offset = call.offset, !.dbindex = b]
<1>2. /\ call \in CallT /\ call.op = op /\ f \in Fd /\ fd \in FdT /\ m \in Meta
      /\ fd.dbindex \in UsedOrNone
  BY FdCalled, ZenonT(40)
<1>3. call.offset \in Nat
  BY <1>2, CallFields, ZenonT(40)
<1>4. off \in Nat /\ rounds \in Nat
  <2> DEFINE x == call.offset
             y == DBUCKET_BUF_SIZE
  <2>1. x \in Nat /\ y \in Nat /\ y # 0
    BY <1>3, FileAssumption, ZenonT(40)
  <2> HIDE DEF x, y
  <2>2. x % y \in Nat /\ x \div y \in Nat
    BY <2>1
  <2> QED
    BY <2>2 DEF x, y
<1>5. /\ Enter(p, call, "loop", m, b, off) /\ UNCHANGED <<db, mb, disk>>
      /\ fdTable' = [fdTable EXCEPT ![p][f] = e]
  BY <1>1, ZenonT(40)
<1>6. b \in UsedOrNone
  <2>1. CASE hit
    BY <1>2, <2>1, ZenonT(40)
  <2>2. CASE ~ hit /\ rounds < Len(chain)
    <3>1. Len(chain) \in Nat
      <4>1. mb[m].first_dbucket \in UsedOrNone /\ chain = Chain(mb[m].first_dbucket)
        BY <1>2, Hypotheses, Links DEF FileChain
      <4>2. chain = <<>> \/ chain \in Seq(Used)
        BY <4>1, Hypotheses, ChainIsTrail, ZenonT(40) DEF Trail
      <4> QED
        BY ONLY <4>2, SMTT(20)
    <3> HIDE DEF rounds, m
    <3>2. rounds + 1 \in 1..Len(chain)
      BY ONLY <1>4, <2>2, <3>1
    <3>3. chain[rounds + 1] \in Used
      BY <1>2, <3>2, Hypotheses, ChainUsed, ZenonT(40)
    <3> QED
      BY <2>2, <3>3, ZenonT(40) DEF UsedOrNone
  <2>3. CASE ~ hit /\ ~ (rounds < Len(chain))
    BY <2>3, Hypotheses, ZenonT(40)
  <2> QED
    BY <2>1, <2>2, <2>3, ZenonT(40)
<1> HIDE DEF b, off, m, hit, rounds, chain
<1> DEFINE g == [fd EXCEPT !.offset = call.offset, !.dbindex = b]
<1>7. e \in FdT /\ e.dbindex \in UsedOrNone
  <2>1. e = fd \/ e = g
    OBVIOUS
  <2> HIDE DEF e, fd
  <2>2. g \in FdT /\ g.dbindex = b
    <3>1. call.offset \in Int /\ b \in BucketOrNone
      BY <1>3, <1>6, Hypotheses
    <3> QED
      BY <1>2, <3>1, ZenonT(40) DEF FdT
  <2> HIDE DEF g
  <2> QED
    BY <1>2, <1>6, <2>1, <2>2, ZenonT(40)
<1> HIDE DEF e, fd, f
<1>8. /\ fdTable' \in [Proc -> [Fd -> FdT]]
      /\ \A q \in Proc : \A h \in Fd : fdTable'[q][h].dbindex \in UsedOrNone
  BY <1>2, <1>5, <1>7, ZenonT(40) DEF FileInv, TypeInv, HandInv
<1>9. /\ Moved(p) /\ me'[p].pc = "loop" /\ me'[p].m = m /\ me'[p].n = 0
      /\ me'[p].call = call /\ me'[p].dbindex = b
  <2>1. "loop" \in Control /\ b \in BucketOrNone /\ m \in Meta \cup {NoMeta} /\ TypeInv
    BY <1>2, <1>6, Hypotheses, ZenonT(40) DEF Control
  <2>2. Enter(p, call, "loop", m, b, off)
    BY <1>5, ZenonT(40)
  <2> QED
    BY <1>2, <1>4, <2>1, <2>2, EnterMoves, ZenonT(40)
<1>10. LocalOK(me'[p], DOMAIN disk)
  <2>1. me'[p] \in LocalT
    BY <1>9 DEF Moved
  <2> QED
    BY <1>2, <1>9, <2>1, LoopStarts, ZenonT(40)
<1> QED
  BY <1>5, <1>6, <1>8, <1>9, <1>10, FdStep, ZenonT(40)

-----------------------------------------------------------------------------
(* The invariant and what it implies *)

(* A system that starts, with the buckets of a fresh mapping, satisfies it. *)
LEMMA InitFileInv ==
  ASSUME Init
  PROVE  FileInv
<1>1. PICK s \in DOMAIN Sessions :
        disk = Sessions[s].disk /\ me = [p \in Proc |-> Idle(s)]
  BY DEF Init
<1>2. /\ db = [b \in Bucket |-> FreshBucket]
      /\ mb = [m \in Meta |-> FreshMeta]
      /\ fdTable = [p \in Proc |-> [f \in Fd |-> EmptyFd]]
  BY DEF Init
<1>3. FreshBucket \in BucketT /\ ~ FreshBucket.in_use /\ FreshBucket.next_ix = NoBucket
  BY ONLY FileAssumption DEF FreshBucket, BucketT, BucketOrNone
<1>4. /\ FreshMeta \in MetaT /\ FreshMeta.first_dbucket = NoBucket
      /\ FreshMeta.last_dbucket = NoBucket
  BY DEF FreshMeta, MetaT, BucketOrNone
<1>5. EmptyFd \in FdT /\ EmptyFd.dbindex = NoBucket
  BY ONLY SMTT(20) DEF EmptyFd, FdT, BucketOrNone
<1>6. Idle(s) \in LocalT /\ Idle(s).pc = "idle" /\ Idle(s).dbindex = NoBucket
  BY DEF Idle, LocalT, Control, CallT, BucketOrNone
<1>7. TypeInv
  BY <1>1, <1>2, <1>3, <1>4, <1>5, <1>6, SessionAssumption, ZenonT(40) DEF TypeInv
<1>8. LocalInv
  BY <1>1, <1>6, ZenonT(40) DEF LocalInv, LocalOK
<1>9. Used = {}
  BY <1>2, <1>3 DEF Used
<1>10. ChainInv
  <2> DEFINE rank == [b \in Bucket |-> 0]
  <2>1. rank \in [Bucket -> Nat]
    OBVIOUS
  <2> HIDE DEF rank
  <2>2. /\ \A b \in Bucket : NextIx[b] = NoBucket
        /\ \A m \in Meta : First[m] = NoBucket
    BY <1>2, <1>3, <1>4, ZenonT(40) DEF NextIx, First
  <2>3. Linked(NextIx, First, Used, rank)
    BY <1>9, <2>2, ZenonT(40) DEF Linked
  <2> QED
    BY <2>1, <2>3 DEF ChainInv
<1>11. HandInv
  BY <1>1, <1>2, <1>4, <1>5, <1>6, ZenonT(40) DEF HandInv, UsedOrNone
<1> QED
  BY <1>7, <1>8, <1>10, <1>11, ZenonT(40) DEF FileInv

(* Every step keeps it. *)
LEMMA NextFileInv ==
  ASSUME FileInv, [Next]_vars
  PROVE  FileInv'
<1>1. CASE UNCHANGED vars
  BY <1>1, ZenonT(40) DEF vars, FileInv, TypeInv, LocalInv, ChainInv, HandInv, UsedOrNone, NextIx,
              First, Used
<1>2. CASE Next
  <2> SUFFICES ASSUME NEW p \in Proc, Step(p)
               PROVE  FileInv'
    BY <1>2 DEF Next
  <2>1. CASE OpenFound(p)      BY <2>1, OpenFoundStep
  <2>2. CASE OpenCreate(p)     BY <2>2, OpenCreateStep
  <2>3. CASE OpenNoBucket(p)   BY <2>3, OpenNoBucketStep
  <2>4. CASE OpenUpload(p)     BY <2>4, OpenUploadStep
  <2>5. CASE UploadRead(p)     BY <2>5, UploadReadStep
  <2>6. CASE UploadShort(p)    BY <2>6, UploadShortStep
  <2>7. CASE UploadBucket(p)   BY <2>7, UploadBucketStep
  <2>8. CASE UploadNoBucket(p) BY <2>8, DieStep, ZenonT(40) DEF UploadNoBucket
  <2>9. CASE UploadDone(p)     BY <2>9, UploadDoneStep
  <2>10. CASE TruncBucket(p)   BY <2>10, TruncBucketStep
  <2>11. CASE TruncDone(p)     BY <2>11, TruncDoneStep
  <2>12. CASE AppendBucket(p)  BY <2>12, AppendBucketStep
  <2>13. CASE SetCursor(p)     BY <2>13, SetCursorStep
  <2>14. CASE WildFd(p)        BY <2>14, WildStep, ZenonT(40) DEF WildFd
  <2>15. CASE ReadCall(p)      BY <2>15, AtCursorStep, ZenonT(40) DEF ReadCall
  <2>16. CASE WriteCall(p)     BY <2>16, AtCursorStep DEF WriteCall
  <2>17. CASE PreadCall(p)     BY <2>17, AtOffsetStep DEF PreadCall
  <2>18. CASE PwriteCall(p)    BY <2>18, AtOffsetStep, ZenonT(40) DEF PwriteCall
  <2>19. CASE BadBucket(p)     BY <2>19, DieStep, ZenonT(40) DEF BadBucket
  <2>20. CASE NoMore(p)        BY <2>20, NoMoreStep
  <2>21. CASE ReadLast(p)      BY <2>21, ReadLastStep
  <2>22. CASE ReadOn(p)        BY <2>22, ReadOnStep
  <2>23. CASE ReadEnd(p)       BY <2>23, ReadEndStep
  <2>24. CASE WriteLast(p)     BY <2>24, WriteLastStep
  <2>25. CASE WriteOn(p)       BY <2>25, WriteOnStep
  <2>26. CASE WildWrite(p)     BY <2>26, WildStep, ZenonT(40) DEF WildWrite
  <2>27. CASE WriteAlloc(p)    BY <2>27, WriteAllocStep
  <2>28. CASE WriteNoBucket(p) BY <2>28, DieStep, ZenonT(40) DEF WriteNoBucket
  <2>29. CASE WriteEnd(p)      BY <2>29, WriteEndStep
  <2>30. CASE WriteSize(p)     BY <2>30, WriteSizeStep
  <2>31. CASE Close(p)         BY <2>31, CloseStep
  <2>32. CASE Unlink(p)        BY <2>32, UnlinkStep
  <2>33. CASE ExecFile(p)      BY <2>33, ExecFileStep
  <2>34. CASE Cleanup(p)       BY <2>34, CleanupStep
  <2>35. CASE FlushSkip(p)     BY <2>35, FlushSkipStep
  <2>36. CASE FlushFile(p)     BY <2>36, FlushFileStep
  <2>37. CASE FlushDone(p)     BY <2>37, FlushDoneStep
  <2>38. CASE GatherBucket(p)  BY <2>38, GatherBucketStep
  <2>39. CASE DiskOpen(p)      BY <2>39, DiskOpenStep
  <2>40. CASE DiskWrite(p)     BY <2>40, DiskWriteStep
  <2> QED
    BY <2>1, <2>2, <2>3, <2>4, <2>5, <2>6, <2>7, <2>8, <2>9, <2>10, <2>11, <2>12, <2>13,
       <2>14, <2>15, <2>16, <2>17, <2>18, <2>19, <2>20, <2>21, <2>22, <2>23, <2>24, <2>25,
       <2>26, <2>27, <2>28, <2>29, <2>30, <2>31, <2>32, <2>33, <2>34, <2>35, <2>36, <2>37,
       <2>38, <2>39, <2>40, ZenonT(40) DEF Step
<1> QED
  BY <1>1, <1>2, ZenonT(40)

(* FileInv is an invariant of the file layer, for any number of processes, *)
(* buckets, files and descriptors, any bucket size and any calls, bucket   *)
(* by bucket and without a lock (file_syscalls.c, open to write_to_disk).  *)
THEOREM FileKeepsInv == Spec => []FileInv
<1>1. Init => FileInv
  BY InitFileInv
<1>2. FileInv /\ [Next]_vars => FileInv'
  BY NextFileInv
<1> QED
  BY <1>1, <1>2, PTL DEF Spec

(* The shared structures keep their types, and a bucket never claims more  *)
(* bytes than it has (data_shm.h DBUCKET_BUF_SIZE), whoever writes it.     *)
THEOREM FileTypes == Spec => []TypeOK
<1>1. FileInv => TypeOK
  <2> SUFFICES ASSUME TypeInv
               PROVE  TypeOK
    BY DEF FileInv
  <2>1. ASSUME NEW b \in Bucket
        PROVE  /\ db[b].in_use \in BOOLEAN /\ db[b].next_ix \in BucketOrNone
               /\ db[b].bytes \in 0..DBUCKET_BUF_SIZE
               /\ DOMAIN db[b].buf = 1..DBUCKET_BUF_SIZE
    BY DEF TypeInv, BucketT
  <2>2. ASSUME NEW m \in Meta
        PROVE  /\ mb[m].in_use \in BOOLEAN /\ mb[m].path \in Path \cup {NoPath}
               /\ mb[m].first_dbucket \in BucketOrNone
               /\ mb[m].last_dbucket \in BucketOrNone
               /\ mb[m].last_db_offset \in Nat
               /\ mb[m].st_size \in Nat
    BY DEF TypeInv, MetaT
  <2>3. ASSUME NEW p \in Proc
        PROVE  /\ \A f \in Fd : fdTable[p][f].mindex \in Meta \cup {NoMeta}
               /\ me[p].pc \in Control /\ me[p].dbindex \in BucketOrNone
               /\ me[p].off \in Nat
    BY DEF TypeInv, FdT, LocalT
  <2> QED
    BY <2>1, <2>2, <2>3, ZenonT(40) DEF TypeOK, Control
<1> QED
  BY <1>1, FileKeepsInv, PTL

(* However the calls interleave, every chain is free of cycles and in use, *)
(* and no two files share a bucket (file_syscalls.c 397-400, 583-586: two  *)
(* writers that both find next_ix = -1 may lose a bucket, no more).        *)
THEOREM FileChains == Spec => []ChainsSound
<1>1. FileInv => ChainsSound
  BY ChainsAreSound
<1> QED
  BY <1>1, FileKeepsInv, PTL

=============================================================================
