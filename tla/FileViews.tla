----------------------------- MODULE FileViews ------------------------------
(***************************************************************************)
(* The contents of the files of FileData, as sequences of bytes, and what  *)
(* is claimed of them: that st_size is their length, and that the daemon   *)
(* leaves them on disk.                                                    *)
(***************************************************************************)
EXTENDS FileData

LOCAL INSTANCE FiniteSetsExt
LOCAL INSTANCE SequencesExt

\* The bytes of file m, bucket after bucket.
Content(m) == LET s == FileChain(m) IN
  FlattenSeq([k \in 1..Len(s) |-> SubSeq(db[s[k]].buf, 1, db[s[k]].bytes)])

\* Between calls, st_size, which write and pwrite keep up to date by adding
\* what each pass gained, is the number of bytes in the chain.
SizeIsSum ==
  Quiet => \A m \in Meta : mb[m].in_use =>
    mb[m].st_size = MapThenSumSet(LAMBDA b : db[b].bytes, ChainSet(m))

\* write_to_disk copies m right: each bucket before the last is full, and the
\* last bytes fill a bucket or are the only ones (the bytes that do not are
\* copied to the wrong place, util.c 163).
WritesRight(m) ==
  /\ Len(Content(m)) = mb[m].st_size
  /\ mb[m].st_size <= DBUCKET_BUF_SIZE \/ mb[m].st_size % DBUCKET_BUF_SIZE = 0
  /\ \A k \in 1..(mb[m].st_size \div DBUCKET_BUF_SIZE) :
       db[FileChain(m)[k]].bytes = DBUCKET_BUF_SIZE

\* When the daemon has closed and no call ran meanwhile, every file in memory
\* is on disk byte for byte: the files that were changed since upload_file read them
\* are marked and none is passed over (util.c 174-194), and those that exec
\* wrote out in between or that never changed have a good copy as well.
WrittenBack ==
  \A p \in Proc : me[p].pc = "closed" /\ me[p].calm =>
    \A m \in Meta : mb[m].in_use /\ WritesRight(m) =>
      mb[m].path \in DOMAIN disk /\ disk[mb[m].path] = Content(m)
=============================================================================
