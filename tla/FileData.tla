------------------------------ MODULE FileData ------------------------------
(***************************************************************************)
(* The contents of files: open, read, write, pread, pwrite, close and      *)
(* unlink of system/lib/file_syscalls.c over chains of data buckets, and   *)
(* the way they come from the disk and go back there: upload_file,         *)
(* write_to_disk and flush_write of util/util.c, called by open, by exec   *)
(* of lib/file_proc.c and by cleanup of daemon.c.                          *)
(*                                                                         *)
(* A file is a meta bucket whose first_dbucket starts a chain linked by    *)
(* next_ix.  The cursor of read and write (last_dbucket, last_db_offset)   *)
(* lives in the meta bucket, so every descriptor of every process shares   *)
(* it.  pread and pwrite translate an offset by walking the chain and keep *)
(* the last translation in the descriptor (OFFSET_PROCESS_CACHE_SIZE 1).   *)
(*                                                                         *)
(* Each pass of a copying loop is one step: the calls of several processes *)
(* interleave bucket by bucket, none of them takes a lock.  The lookup of  *)
(* a path and the search for a free bucket are single steps here; the      *)
(* modules MetaTable and BucketAlloc model those.  Calls that fail with    *)
(* EBADF, ENOENT or ENOSPC change nothing and are left out, as are the     *)
(* time stamps.  All paths are in one row of the table.  The build is the  *)
(* default one: O_TRUNC_FREE is off, UNLINK_IGNORE_DISK and WRITE_TO_DISK  *)
(* are on.  The calls of the operating system on the disk succeed.         *)
(***************************************************************************)
EXTENDS Integers, Sequences, FiniteSets

CONSTANTS Proc, Path, Meta, Bucket, Fd, Byte,
          DBUCKET_BUF_SIZE,     \* bytes in a bucket (4096 in config.h)
          Sessions,             \* of each session, jobs: the calls each process
                                \* may make; disk: the files on disk at first
          Zero, Junk,           \* a byte never written; a byte past a buffer
          NoBucket, NoMeta, NoPath,
          OffBound, SizeBound   \* bounds of the model: no call starts on a
                                \* file whose cursor or size is past them

\* The calls of the C library that a process makes, with their arguments, and
\* the end of the daemon.
Call ==
  [op : {"open"}, path : Path, flags : {"plain", "creat", "trunc", "append"}]
    \union [op : {"unlink", "exec"}, path : Path]
    \union [op : {"close"}, fd : Fd]
    \union [op : {"read"}, fd : Fd, count : Nat]
    \union [op : {"write"}, fd : Fd, data : Seq(Byte)]
    \union [op : {"pread"}, fd : Fd, count : Nat, offset : Nat]
    \union [op : {"pwrite"}, fd : Fd, data : Seq(Byte), offset : Nat]
    \union [op : {"cleanup"}]

ASSUME FileAssumption ==
  /\ DBUCKET_BUF_SIZE \in Nat \ {0}
  /\ NoBucket \notin Bucket /\ NoMeta \notin Meta /\ NoPath \notin Path
  /\ IsFiniteSet(Bucket) /\ IsFiniteSet(Meta)
  /\ Zero \in Byte /\ Junk \in Byte
  /\ OffBound \in Nat /\ SizeBound \in Nat

ASSUME SessionAssumption ==
  \A s \in DOMAIN Sessions :
    /\ \A p \in Proc : Sessions[s].jobs[p] \subseteq Call
    /\ \A f \in DOMAIN Sessions[s].disk : f \in Path /\ Sessions[s].disk[f] \in Seq(Byte)

\* The width of size_t, scaled down: more than any length in the model.
SizeT == 65536

VARIABLES db, mb, fdTable,
          disk,                 \* the content of each file on disk
          me

vars == <<db, mb, fdTable, disk, me>>

\* init_dbucket: nothing in use, no successor, no bytes
FreshBucket ==
  [in_use |-> FALSE, next_ix |-> NoBucket, bytes |-> 0,
   buf |-> [j \in 1..DBUCKET_BUF_SIZE |-> Zero]]

FreshMeta ==
  [in_use |-> FALSE, path |-> NoPath, first_dbucket |-> NoBucket,
   last_dbucket |-> NoBucket, last_db_offset |-> 0, st_size |-> 0,
   consisent |-> TRUE]

\* reset_fd: an empty descriptor; offset -1 marks the cached translation void
EmptyFd == [mindex |-> NoMeta, offset |-> -1, dbindex |-> NoBucket]

\* A process outside any call, and the locals a call starts from.  todo and
\* calm belong to cleanup: the meta buckets to visit, and whether no other
\* process has been inside a call, or died in one, since it began.
Idle(session) ==
  [pc |-> "idle", session |-> session, call |-> [op |-> "none"], m |-> NoMeta,
   dbindex |-> NoBucket, off |-> 0, n |-> 0, out |-> <<>>, size_ind |-> 0,
   todo |-> <<>>, calm |-> FALSE]

Init ==
  /\ db = [b \in Bucket |-> FreshBucket]
  /\ mb = [m \in Meta |-> FreshMeta]
  /\ fdTable = [p \in Proc |-> [f \in Fd |-> EmptyFd]]
  /\ \E s \in DOMAIN Sessions :
       /\ disk = Sessions[s].disk
       /\ me = [p \in Proc |-> Idle(s)]

Rest(p) == Idle(me[p].session)

Named(path) == {m \in Meta : mb[m].in_use /\ mb[m].path = path}

FreeBuckets == {b \in Bucket : ~db[b].in_use}

\* No process is inside a call.
Quiet == \A p \in Proc : me[p].pc = "idle"

\* Process p makes one of its calls of kind op.
Calls(p, op) ==
  IF me[p].pc # "idle" THEN {}
  ELSE {call \in Sessions[me[p].session].jobs[p] : call.op = op}

Bounded(m) == mb[m].last_db_offset <= OffBound /\ mb[m].st_size <= SizeBound

\* The same, through an open descriptor.
FdCalls(p, op) ==
  {call \in Calls(p, op) : LET m == fdTable[p][call.fd].mindex IN
                              m # NoMeta /\ (op = "close" \/ Bounded(m))}

\* A call that starts disturbs a cleanup that runs or has run: the processes
\* keep the memory mapped after the daemon removed its name.
Disturbed == [p \in Proc |-> [me[p] EXCEPT !.calm = FALSE]]

Enter(p, call, pc, m, b, off) ==
  me' = [Disturbed EXCEPT ![p] = [Rest(p) EXCEPT !.pc = pc, !.call = call, !.m = m,
                                       !.dbindex = b, !.off = off]]

\* exit or UEHANDLE: the process is gone, what it wrote stays
Die(p) == me' = [Disturbed EXCEPT ![p] = [Rest(p) EXCEPT !.pc = "dead"]]

----------------------------------------------------------------------------
(* open *)

AfterLookup(call) == IF call.flags = "append" THEN "append" ELSE "cursor"

\* the path is in the table; with O_TRUNC its buckets are emptied next
OpenFound(p) ==
  \E call \in Calls(p, "open") : \E m \in Named(call.path) :
    /\ Enter(p, call, IF call.flags = "trunc" THEN "trunc" ELSE AfterLookup(call),
             m, mb[m].first_dbucket, 0)
    /\ UNCHANGED <<db, mb, fdTable, disk>>

\* With O_TRUNC the disk is not looked up.
ToCreate(p) ==
  {call \in Calls(p, "open") :
     /\ Named(call.path) = {}
     /\ call.flags = "trunc" \/ (call.flags # "plain" /\ call.path \notin DOMAIN disk)}

\* create_new_file: a meta bucket and a first data bucket
OpenCreate(p) ==
  \E call \in ToCreate(p) : \E m \in Meta : \E b \in FreeBuckets :
    /\ ~mb[m].in_use
    /\ mb' = [mb EXCEPT ![m].in_use = TRUE, ![m].path = call.path,
                        ![m].first_dbucket = b, ![m].st_size = 0,
                        ![m].consisent = FALSE]
    /\ db' = [db EXCEPT ![b].in_use = TRUE]
    /\ Enter(p, call, AfterLookup(call), m, b, 0)
    /\ UNCHANGED <<fdTable, disk>>

\* create_new_file when no data bucket is left: get_free_dbucket_ix exits,
\* after the meta bucket was taken and before it has its path
OpenNoBucket(p) ==
  \E call \in ToCreate(p) : \E m \in Meta :
    /\ ~mb[m].in_use
    /\ FreeBuckets = {}
    /\ mb' = [mb EXCEPT ![m].in_use = TRUE]
    /\ Die(p)
    /\ UNCHANGED <<db, fdTable, disk>>

\* upload_file, after it asked the disk for the size (off): a meta bucket is
\* taken and linked, with whatever path its last file had
OpenUpload(p) ==
  \E call \in Calls(p, "open") : \E m \in Meta :
    /\ call.flags # "trunc" /\ call.path \in DOMAIN disk
    /\ Named(call.path) = {}
    /\ ~mb[m].in_use
    /\ mb' = [mb EXCEPT ![m].in_use = TRUE]
    /\ Enter(p, call, "read", m, NoBucket, Len(disk[call.path]))
    /\ UNCHANGED <<db, fdTable, disk>>

UploadRead(p) ==
  LET content == disk[me[p].call.path] IN
  /\ me[p].pc = "read" /\ Len(content) >= me[p].off
  /\ mb' = [mb EXCEPT ![me[p].m].path = me[p].call.path,
                      ![me[p].m].st_size = me[p].off]
  /\ me' = [me EXCEPT ![p].pc = "upload", ![p].out = SubSeq(content, 1, me[p].off)]
  /\ UNCHANGED <<db, fdTable, disk>>

\* the file shrank since: open fails, and the meta bucket stays as it is
UploadShort(p) ==
  /\ me[p].pc = "read" /\ Len(disk[me[p].call.path]) < me[p].off
  /\ me' = [me EXCEPT ![p] = Rest(p)]
  /\ UNCHANGED <<db, mb, fdTable, disk>>

\* even an empty file has a bucket
Uploading(p) ==
  me[p].pc = "upload" /\ (me[p].n < Len(me[p].out) \/ me[p].dbindex = NoBucket)

\* the next bytes that fit into a bucket, in a bucket of their own
UploadBucket(p) ==
  LET left  == Len(me[p].out) - me[p].n
      size  == IF left < DBUCKET_BUF_SIZE THEN left ELSE DBUCKET_BUF_SIZE
      chunk == SubSeq(me[p].out, me[p].n + 1, me[p].n + size)
      first == me[p].dbindex = NoBucket
  IN
  /\ Uploading(p)
  /\ \E b \in FreeBuckets :
       /\ db' = [c \in Bucket |->
            IF c = b THEN [db[b] EXCEPT !.in_use = TRUE, !.bytes = Len(chunk),
                             !.buf = [j \in 1..DBUCKET_BUF_SIZE |->
                                        IF j <= Len(chunk) THEN chunk[j] ELSE @[j]]]
            ELSE IF c = me[p].dbindex THEN [db[c] EXCEPT !.next_ix = b] ELSE db[c]]
       /\ mb' = IF first THEN [mb EXCEPT ![me[p].m].first_dbucket = b] ELSE mb
       /\ me' = [me EXCEPT ![p].dbindex = b, ![p].n = @ + Len(chunk)]
  /\ UNCHANGED <<fdTable, disk>>

UploadNoBucket(p) ==
  /\ Uploading(p) /\ FreeBuckets = {}
  /\ Die(p)
  /\ UNCHANGED <<db, mb, fdTable, disk>>

UploadDone(p) ==
  /\ me[p].pc = "upload" /\ ~Uploading(p)
  /\ Enter(p, me[p].call, AfterLookup(me[p].call), me[p].m, mb[me[p].m].first_dbucket, 0)
  /\ UNCHANGED <<db, mb, fdTable, disk>>

\* Mutant: the truncated buckets are released but stay linked.
MutTruncBucket(p) ==
  LET b == me[p].dbindex IN
  /\ me[p].pc = "trunc" /\ b # NoBucket
  /\ db' = [db EXCEPT ![b].bytes = 0, ![b].in_use = b = mb[me[p].m].first_dbucket]
  /\ me' = [me EXCEPT ![p].dbindex = db[b].next_ix, ![p].n = 1]
  /\ UNCHANGED <<mb, fdTable, disk>>

\* O_TRUNC: every bucket of the chain is emptied and stays linked; n tells the
\* first bucket, which is taken to exist, from the others
TruncBucket(p) ==
  LET b == me[p].dbindex IN
  /\ me[p].pc = "trunc" /\ b # NoBucket
  /\ db' = [db EXCEPT ![b].bytes = 0]
  /\ me' = [me EXCEPT ![p].dbindex = db[b].next_ix, ![p].n = 1]
  /\ UNCHANGED <<mb, fdTable, disk>>

TruncDone(p) ==
  /\ me[p].pc = "trunc" /\ me[p].n = 1 /\ me[p].dbindex = NoBucket
  /\ mb' = [mb EXCEPT ![me[p].m].st_size = 0, ![me[p].m].consisent = FALSE]
  /\ me' = [me EXCEPT ![p].pc = "cursor"]
  /\ UNCHANGED <<db, fdTable, disk>>

\* O_APPEND: next_ix is unsigned, so next_ix >= 0 holds for -1 as well and
\* the loop walks off the end of the chain, where get_dbucket_ptr exits
AppendBucket(p) ==
  /\ me[p].pc = "append" /\ me[p].dbindex # NoBucket
  /\ me' = [me EXCEPT ![p].dbindex = db[@].next_ix]
  /\ UNCHANGED <<db, mb, fdTable, disk>>

\* Mutant: the offset of the cursor is not reset.
MutSetCursor(p) ==
  LET m == me[p].m
      Empty == {f \in Fd : fdTable[p][f].mindex = NoMeta} IN
  /\ me[p].pc = "cursor"
  /\ mb' = [mb EXCEPT ![m].last_dbucket = mb[m].first_dbucket]
  /\ fdTable' = [fdTable EXCEPT ![p] = [f \in Fd |->
       IF f \in Empty /\ \A g \in Empty : f <= g
       THEN [EmptyFd EXCEPT !.mindex = m] ELSE fdTable[p][f]]]
  /\ me' = [me EXCEPT ![p] = Rest(p)]
  /\ UNCHANGED <<db, disk>>

\* the cursor of the file goes back to its first byte; get_empty_fd picks the
\* first empty descriptor, and open fails when it finds none
SetCursor(p) ==
  LET m == me[p].m
      Empty == {f \in Fd : fdTable[p][f].mindex = NoMeta} IN
  /\ me[p].pc = "cursor"
  /\ mb' = [mb EXCEPT ![m].last_dbucket = mb[m].first_dbucket,
                      ![m].last_db_offset = 0]
  /\ fdTable' = [fdTable EXCEPT ![p] = [f \in Fd |->
       IF f \in Empty /\ \A g \in Empty : f <= g
       THEN [EmptyFd EXCEPT !.mindex = m] ELSE fdTable[p][f]]]
  /\ me' = [me EXCEPT ![p] = Rest(p)]
  /\ UNCHANGED <<db, disk>>

\* with no empty descriptor, get_empty_fd also tests the one past the table;
\* if that memory says empty, open writes a descriptor there
WildFd(p) ==
  /\ me[p].pc = "cursor"
  /\ \A f \in Fd : fdTable[p][f].mindex # NoMeta
  /\ me' = [me EXCEPT ![p] = [Rest(p) EXCEPT !.pc = "wild"]]
  /\ UNCHANGED <<db, mb, fdTable, disk>>

----------------------------------------------------------------------------
(* read, write, pread, pwrite: where they start *)

\* read and write start at the shared cursor
AtCursor(p, op) ==
  \E call \in FdCalls(p, op) :
    LET m == fdTable[p][call.fd].mindex IN
    /\ Enter(p, call, "loop", m, mb[m].last_dbucket, mb[m].last_db_offset)
    /\ UNCHANGED <<db, mb, fdTable, disk>>

ReadCall(p) == AtCursor(p, "read")

WriteCall(p) == AtCursor(p, "write")

\* The buckets linked from b, in order; one too many when they form a cycle.
Chain(b) ==
  LET walk[k \in 0..Cardinality(Bucket)] ==
        IF k = 0 THEN IF b = NoBucket THEN <<>> ELSE <<b>>
        ELSE LET s == walk[k - 1] IN
             IF s = <<>> \/ db[s[Len(s)]].next_ix = NoBucket THEN s
             ELSE Append(s, db[s[Len(s)]].next_ix)
  IN  walk[Cardinality(Bucket)]

FileChain(m) == Chain(mb[m].first_dbucket)

\* pread and pwrite: the cached bucket when the offset is the cached one,
\* else offset / DBUCKET_BUF_SIZE links down the chain.  One link past the
\* end is remembered as no bucket; further past it the call returns 0 at once.
AtOffset(p, op) ==
  \E call \in FdCalls(p, op) :
    LET fd     == fdTable[p][call.fd]
        chain  == FileChain(fd.mindex)
        rounds == call.offset \div DBUCKET_BUF_SIZE
        hit    == fd.offset = call.offset /\ fd.dbindex # NoBucket
        b      == IF hit THEN fd.dbindex
                  ELSE IF rounds < Len(chain) THEN chain[rounds + 1] ELSE NoBucket
    IN
    /\ Enter(p, call, "loop", fd.mindex, b, call.offset % DBUCKET_BUF_SIZE)
    /\ fdTable' = [fdTable EXCEPT ![p][call.fd] =
         IF hit \/ rounds > Len(chain) THEN @
         ELSE [@ EXCEPT !.offset = call.offset, !.dbindex = b]]
    /\ UNCHANGED <<db, mb, disk>>

PreadCall(p) == AtOffset(p, "pread")

PwriteCall(p) == AtOffset(p, "pwrite")

----------------------------------------------------------------------------
(* the copying loops *)

\* write_to_disk has a bucket to copy; off is st_size when it began, n counts.
Gathering(p) == me[p].n * DBUCKET_BUF_SIZE < me[p].off

Reading(p) == me[p].call.op \in {"read", "pread"}

Writing(p) == me[p].call.op \in {"write", "pwrite"}

\* Process p is at the head of its loop with a bucket to work on.
InLoop(p) == me[p].pc = "loop" /\ me[p].dbindex # NoBucket

\* get_dbucket_ptr(-1) exits: O_APPEND past the chain, O_TRUNC of a file that
\* has no first bucket, read and write through a descriptor whose file was
\* unlinked, or write_to_disk of a file whose chain is shorter than st_size
BadBucket(p) ==
  /\ me[p].dbindex = NoBucket
  /\ \/ me[p].pc = "append"
     \/ me[p].pc = "trunc" /\ me[p].n = 0
     \/ me[p].pc = "loop" /\ me[p].call.op \in {"read", "write"}
     \/ me[p].pc = "gather" /\ Gathering(p)
  /\ Die(p)
  /\ UNCHANGED <<db, mb, fdTable, disk>>

\* pread and pwrite leave their loop when there is no bucket
NoMore(p) ==
  /\ me[p].pc = "loop" /\ me[p].dbindex = NoBucket
  /\ me[p].call.op \in {"pread", "pwrite"}
  /\ me' = [me EXCEPT ![p].pc = "end"]
  /\ UNCHANGED <<db, mb, fdTable, disk>>

\* len bytes of bucket d from off on; what lies past the buffer is unknown
Copy(d, off, len) ==
  [j \in 1..len |-> IF off + j <= DBUCKET_BUF_SIZE THEN d.buf[off + j] ELSE Junk]

\* db->bytes - off, a size_t
Avail(d, off) == (d.bytes - off) % SizeT

\* the bucket holds all that is still wanted
ReadLast(p) ==
  LET d == db[me[p].dbindex]
      c == me[p].call.count - me[p].n IN
  /\ InLoop(p) /\ Reading(p)
  /\ c <= Avail(d, me[p].off)
  /\ me' = [me EXCEPT ![p].out = @ \o Copy(d, me[p].off, c),
                      ![p].n = @ + c, ![p].off = @ + c, ![p].pc = "end"]
  /\ UNCHANGED <<db, mb, fdTable, disk>>

\* Mutant: the loop stays on the same bucket.
MutReadOn(p) ==
  LET d == db[me[p].dbindex]
      a == Avail(d, me[p].off)
      more == d.next_ix # NoBucket IN
  /\ InLoop(p) /\ Reading(p)
  /\ me[p].call.count - me[p].n > a
  /\ me' = [me EXCEPT ![p].out = @ \o Copy(d, me[p].off, a),
                      ![p].n = @ + a,
                      ![p].off = IF more THEN 0 ELSE d.bytes,
                      ![p].pc = IF more THEN "loop" ELSE "end"]
  /\ UNCHANGED <<db, mb, fdTable, disk>>

\* take what the bucket holds; go on in the next one, if there is one
ReadOn(p) ==
  LET d == db[me[p].dbindex]
      a == Avail(d, me[p].off)
      more == d.next_ix # NoBucket IN
  /\ InLoop(p) /\ Reading(p)
  /\ me[p].call.count - me[p].n > a
  /\ me' = [me EXCEPT ![p].out = @ \o Copy(d, me[p].off, a),
                      ![p].n = @ + a,
                      ![p].off = IF more THEN 0 ELSE d.bytes,
                      ![p].dbindex = IF more THEN d.next_ix ELSE @,
                      ![p].pc = IF more THEN "loop" ELSE "end"]
  /\ UNCHANGED <<db, mb, fdTable, disk>>

\* Mutant: the offset in the new bucket is not stored.
MutCursor(p) ==
  IF me[p].call.op \in {"read", "write"} /\ me[p].n > 0
  THEN [mb EXCEPT ![me[p].m].last_dbucket = me[p].dbindex]
  ELSE mb

\* The cursor is moved only by read and write, and only if bytes were moved.
Cursor(p) ==
  IF me[p].call.op \in {"read", "write"} /\ me[p].n > 0
  THEN [mb EXCEPT ![me[p].m].last_dbucket = me[p].dbindex,
                  ![me[p].m].last_db_offset = me[p].off]
  ELSE mb

ReadEnd(p) ==
  /\ me[p].pc = "end" /\ Reading(p)
  /\ mb' = Cursor(p)
  /\ me' = [me EXCEPT ![p] = Rest(p)]
  /\ UNCHANGED <<db, fdTable, disk>>

\* Bucket d after the next len bytes of the call went to its offset off.
Fill(p, d, len) ==
  [d EXCEPT !.buf = [j \in 1..DBUCKET_BUF_SIZE |->
              IF j - me[p].off \in 1..len THEN me[p].call.data[me[p].n + j - me[p].off]
              ELSE d.buf[j]],
            !.bytes = IF me[p].off + len > @ THEN me[p].off + len ELSE @]

Left(p) == Len(me[p].call.data) - me[p].n

\* Mutant: one byte too many is taken to fit.
MutRoom(p) == (DBUCKET_BUF_SIZE + 1 - me[p].off) % SizeT

\* DBUCKET_BUF_SIZE - off, a size_t
Room(p) == (DBUCKET_BUF_SIZE - me[p].off) % SizeT

\* a cursor past the buffer, which a read racing with O_TRUNC can leave, makes
\* Room wrap around: the copy goes past the buffer, and what the memory after
\* it holds from then on is not modelled
WildWrite(p) ==
  /\ InLoop(p) /\ Writing(p) /\ me[p].off > DBUCKET_BUF_SIZE
  /\ me' = [me EXCEPT ![p] = [Rest(p) EXCEPT !.pc = "wild"]]
  /\ UNCHANGED <<db, mb, fdTable, disk>>

\* the rest fits into the bucket
WriteLast(p) ==
  LET b == me[p].dbindex
      d == Fill(p, db[b], Left(p)) IN
  /\ InLoop(p) /\ Writing(p) /\ me[p].off <= DBUCKET_BUF_SIZE
  /\ Left(p) <= Room(p)
  /\ db' = [db EXCEPT ![b] = d]
  /\ me' = [me EXCEPT ![p].size_ind = @ + d.bytes - db[b].bytes,
                      ![p].n = Len(me[p].call.data),
                      ![p].off = @ + Left(p), ![p].pc = "end"]
  /\ UNCHANGED <<mb, fdTable, disk>>

\* fill the bucket up and look for its successor
WriteOn(p) ==
  LET b == me[p].dbindex
      d == Fill(p, db[b], Room(p)) IN
  /\ InLoop(p) /\ Writing(p) /\ me[p].off <= DBUCKET_BUF_SIZE
  /\ Left(p) > Room(p)
  /\ db' = [db EXCEPT ![b] = d]
  /\ me' = [me EXCEPT ![p].size_ind = @ + d.bytes - db[b].bytes,
                      ![p].n = @ + Room(p), ![p].off = 0,
                      ![p].dbindex = IF d.next_ix = NoBucket THEN b ELSE d.next_ix,
                      ![p].pc = IF d.next_ix = NoBucket THEN "alloc" ELSE "loop"]
  /\ UNCHANGED <<mb, fdTable, disk>>

\* there was no successor: take a free bucket and link it
WriteAlloc(p) ==
  /\ me[p].pc = "alloc"
  /\ \E b \in FreeBuckets :
       /\ db' = [db EXCEPT ![b].in_use = TRUE, ![me[p].dbindex].next_ix = b]
       /\ me' = [me EXCEPT ![p].dbindex = b, ![p].pc = "loop"]
  /\ UNCHANGED <<mb, fdTable, disk>>

\* no bucket is left: get_free_dbucket_ix exits
WriteNoBucket(p) ==
  /\ me[p].pc = "alloc" /\ FreeBuckets = {}
  /\ Die(p)
  /\ UNCHANGED <<db, mb, fdTable, disk>>

\* Mutant: write does not mark the file.
MutModified(p) == Cursor(p)

\* MB_MODIFY, if bytes were moved.
Modified(p) ==
  [Cursor(p) EXCEPT ![me[p].m].consisent = @ /\ me[p].n = 0]

\* Mutant: what was gained replaces the size instead of adding to it.
MutWriteEnd(p) ==
  LET grew == me[p].size_ind > 0 IN
  /\ me[p].pc = "end" /\ Writing(p)
  /\ mb' = Modified(p)
  /\ me' = [me EXCEPT ![p] = IF grew THEN [me[p] EXCEPT !.pc = "size"] ELSE Rest(p)]
  /\ UNCHANGED <<db, fdTable, disk>>

\* move the cursor; size_ind += st_size is computed now and stored later
WriteEnd(p) ==
  LET grew == me[p].size_ind > 0 IN
  /\ me[p].pc = "end" /\ Writing(p)
  /\ mb' = Modified(p)
  /\ me' = [me EXCEPT ![p] =
       IF grew THEN [me[p] EXCEPT !.size_ind = @ + mb[me[p].m].st_size, !.pc = "size"]
       ELSE Rest(p)]
  /\ UNCHANGED <<db, fdTable, disk>>

WriteSize(p) ==
  /\ me[p].pc = "size"
  /\ mb' = [mb EXCEPT ![me[p].m].st_size = me[p].size_ind]
  /\ me' = [me EXCEPT ![p] = Rest(p)]
  /\ UNCHANGED <<db, fdTable, disk>>

----------------------------------------------------------------------------
(* close, unlink *)

Close(p) ==
  \E call \in FdCalls(p, "close") :
    /\ fdTable' = [fdTable EXCEPT ![p][call.fd] = EmptyFd]
    /\ UNCHANGED <<db, mb, disk, me>>

\* release_meta_bucket; the path stays in the free meta bucket, and the data
\* buckets are left as they are
Unlink(p) ==
  \E call \in Calls(p, "unlink") : \E m \in Named(call.path) :
    /\ mb' = [mb EXCEPT ![m].in_use = FALSE, ![m].first_dbucket = NoBucket,
                        ![m].last_dbucket = NoBucket, ![m].last_db_offset = 0]
    /\ UNCHANGED <<db, fdTable, disk, me>>

----------------------------------------------------------------------------
(* back to the disk: write_to_disk, for exec and for cleanup *)

\* exec_file_in_shm writes the program out; the process then goes on as that
\* program, with the same descriptors (module ProcTable)
ExecFile(p) ==
  \E call \in Calls(p, "exec") : \E m \in Named(call.path) :
    /\ Enter(p, call, "gather", m, mb[m].first_dbucket, mb[m].st_size)
    /\ UNCHANGED <<db, mb, fdTable, disk>>

\* The orders in which the interchangeable members of Meta may be indexed.
Orders ==
  {s \in [1..Cardinality(Meta) -> Meta] : \A m \in Meta : \E k \in DOMAIN s : s[k] = m}

\* cleanup: flush_write visits the meta buckets in the order of their index
Cleanup(p) ==
  \E call \in Calls(p, "cleanup") : \E order \in Orders :
    /\ me' = [me EXCEPT ![p] = [Rest(p) EXCEPT !.pc = "flush", !.call = call,
                                  !.todo = order, !.calm = Quiet]]
    /\ UNCHANGED <<db, mb, fdTable, disk>>

ToFlush(m) == mb[m].in_use /\ ~mb[m].consisent

FlushSkip(p) ==
  /\ me[p].pc = "flush" /\ me[p].todo # <<>> /\ ~ToFlush(Head(me[p].todo))
  /\ me' = [me EXCEPT ![p].todo = Tail(@)]
  /\ UNCHANGED <<db, mb, fdTable, disk>>

FlushFile(p) ==
  LET m == Head(me[p].todo) IN
  /\ me[p].pc = "flush" /\ me[p].todo # <<>> /\ ToFlush(m)
  /\ me' = [me EXCEPT ![p] = [me[p] EXCEPT !.pc = "gather", !.m = m,
                !.todo = Tail(me[p].todo), !.dbindex = mb[m].first_dbucket,
                !.off = mb[m].st_size]]
  /\ UNCHANGED <<db, mb, fdTable, disk>>

\* cleanup goes on to remove the shared memory and exits
FlushDone(p) ==
  /\ me[p].pc = "flush" /\ me[p].todo = <<>>
  /\ me' = [me EXCEPT ![p].pc = "closed"]
  /\ UNCHANGED <<db, mb, fdTable, disk>>

\* whole buckets one after another; the last bytes, when they do not fill a
\* bucket, are copied to the start of the malloc'ed buffer
GatherBucket(p) ==
  LET d == db[me[p].dbindex]
      tail == me[p].off - me[p].n * DBUCKET_BUF_SIZE
  IN
  /\ me[p].pc = "gather" /\ Gathering(p) /\ me[p].dbindex # NoBucket
  /\ me' = [me EXCEPT ![p].dbindex = d.next_ix, ![p].n = @ + 1,
       ![p].out = IF tail >= DBUCKET_BUF_SIZE THEN @ \o d.buf
                  ELSE [k \in 1..me[p].off |-> IF k <= tail THEN d.buf[k]
                                               ELSE IF k <= Len(@) THEN @[k] ELSE Junk]]
  /\ UNCHANGED <<db, mb, fdTable, disk>>

\* real_open with O_TRUNC
DiskOpen(p) ==
  LET path == mb[me[p].m].path IN
  /\ me[p].pc = "gather" /\ ~Gathering(p)
  /\ disk' = [f \in DOMAIN disk \union {path} |-> IF f = path THEN <<>> ELSE disk[f]]
  /\ me' = [me EXCEPT ![p].pc = "disk", ![p].call = [op |-> @.op, path |-> path]]
  /\ UNCHANGED <<db, mb, fdTable>>

\* real_write of st_size bytes, past the buffer if the file grew since
DiskWrite(p) ==
  /\ me[p].pc = "disk"
  /\ disk' = [disk EXCEPT ![me[p].call.path] =
       [k \in 1..mb[me[p].m].st_size |-> IF k <= Len(me[p].out) THEN me[p].out[k] ELSE Junk]]
  /\ me' = [me EXCEPT ![p] =
       IF me[p].call.op = "exec" THEN Rest(p)
       ELSE [Rest(p) EXCEPT !.pc = "flush", !.call = [op |-> "cleanup"],
                            !.todo = me[p].todo, !.calm = me[p].calm]]
  /\ UNCHANGED <<db, mb, fdTable>>

Step(p) ==
  \/ OpenFound(p) \/ OpenCreate(p) \/ OpenNoBucket(p)
  \/ OpenUpload(p) \/ UploadRead(p) \/ UploadShort(p)
  \/ UploadBucket(p) \/ UploadNoBucket(p) \/ UploadDone(p)
  \/ TruncBucket(p) \/ TruncDone(p) \/ AppendBucket(p) \/ SetCursor(p) \/ WildFd(p)
  \/ ReadCall(p) \/ WriteCall(p) \/ PreadCall(p) \/ PwriteCall(p)
  \/ BadBucket(p) \/ NoMore(p) \/ ReadLast(p) \/ ReadOn(p) \/ ReadEnd(p)
  \/ WriteLast(p) \/ WriteOn(p) \/ WildWrite(p)
  \/ WriteAlloc(p) \/ WriteNoBucket(p)
  \/ WriteEnd(p) \/ WriteSize(p)
  \/ Close(p) \/ Unlink(p) \/ ExecFile(p)
  \/ Cleanup(p) \/ FlushSkip(p) \/ FlushFile(p) \/ FlushDone(p)
  \/ GatherBucket(p) \/ DiskOpen(p) \/ DiskWrite(p)

Next == \E p \in Proc : Step(p)

Spec == Init /\ [][Next]_vars

----------------------------------------------------------------------------
(* Properties *)

BucketOrNone == Bucket \union {NoBucket}

\* The shared structures keep their types; a bucket never claims more bytes
\* than its buffer has (the copies of the write loops, file_syscalls.c 378-402
\* and 565-588).
TypeOK ==
  /\ \A b \in Bucket :
       /\ db[b].in_use \in BOOLEAN /\ db[b].next_ix \in BucketOrNone
       /\ db[b].bytes \in 0..DBUCKET_BUF_SIZE
       /\ DOMAIN db[b].buf = 1..DBUCKET_BUF_SIZE
  /\ \A m \in Meta :
       /\ mb[m].in_use \in BOOLEAN /\ mb[m].path \in Path \union {NoPath}
       /\ mb[m].first_dbucket \in BucketOrNone
       /\ mb[m].last_dbucket \in BucketOrNone
       /\ mb[m].last_db_offset \in Nat
       /\ mb[m].st_size \in Nat
  /\ \A p \in Proc :
       /\ \A f \in Fd : fdTable[p][f].mindex \in Meta \union {NoMeta}
       /\ me[p].pc \in {"idle", "read", "upload", "trunc", "append", "cursor", "loop",
                        "alloc", "end", "size", "flush", "gather", "disk", "closed",
                        "dead", "wild"}
       /\ me[p].dbindex \in BucketOrNone
       /\ me[p].off \in Nat

ChainSet(m) == LET s == FileChain(m) IN {s[k] : k \in 1..Len(s)}

\* However the calls of several processes interleave, bucket by bucket and
\* without a lock, the chain of every file is free of cycles, all its buckets
\* are in use, and no two files share a bucket: a write to one file never
\* lands in another one.  Two writers that both find next_ix = -1
\* (file_syscalls.c 397-400, 583-586) may lose a bucket, but never tie two
\* chains together.  Nothing is claimed after a wild write.
ChainsSound ==
  (\A p \in Proc : me[p].pc # "wild") =>
  /\ \A m \in Meta : LET s == FileChain(m) IN
       /\ \A j, k \in 1..Len(s) : s[j] = s[k] => j = k
       /\ \A k \in 1..Len(s) : db[s[k]].in_use
  /\ \A m1, m2 \in Meta : m1 # m2 => ChainSet(m1) \intersect ChainSet(m2) = {}

\* Between calls, the cursor of every file that was opened is inside its own
\* chain and not past the bytes of its bucket.  read subtracts the offset
\* from db->bytes in unsigned arithmetic (file_syscalls.c 308), so with a
\* cursor past the bytes it would copy what the file does not hold.
CursorInBounds ==
  Quiet => \A m \in Meta : mb[m].in_use =>
    /\ mb[m].last_dbucket \in ChainSet(m)
    /\ mb[m].last_db_offset <= db[mb[m].last_dbucket].bytes
=============================================================================
