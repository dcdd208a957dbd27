----------------------------- MODULE FileOracle -----------------------------
(***************************************************************************)
(* What the calls of FileData promise, stated with a byte sequence and a   *)
(* position per file instead of a chain of buckets.                        *)
(*                                                                         *)
(* The history variable `posix` follows the calls of FileData: it takes    *)
(* the whole effect of a call when the call starts.  For each file it has  *)
(* the bytes, the position of the shared cursor, whether all pread and     *)
(* pwrite calls so far began inside the file (inside), and whether O_TRUNC *)
(* met it with more than one bucket (hollow): the emptied buckets stay     *)
(* linked then, and the chain no longer is the file bucket after bucket.   *)
(* For each process it has the bytes its current call must return.  The    *)
(* properties compare it with what the chain holds.                        *)
(***************************************************************************)
EXTENDS FileViews, SequencesExt

VARIABLE posix

oracleVars == <<db, mb, fdTable, disk, me, posix>>

EmptyFile == [content |-> <<>>, pos |-> 0, inside |-> TRUE, hollow |-> FALSE]

OracleInit ==
  /\ Init
  /\ posix = [file |-> [m \in Meta |-> EmptyFile], answer |-> [p \in Proc |-> <<>>]]

\* content after data is written at offset at; a gap reads as zeros
Overwrite(content, at, data) ==
  [k \in 1..Max({Len(content), at + Len(data)}) |->
     IF k - at \in 1..Len(data) THEN data[k - at]
     ELSE IF k <= Len(content) THEN content[k] ELSE Zero]

\* at most count bytes of content from offset at on
Extract(content, at, count) == SubSeq(content, at + 1, Min({at + count, Len(content)}))

\* What call does to the file f.
Effect(call, f) ==
  CASE call.op = "open"   -> [f EXCEPT !.pos = 0,
                                       !.content = IF call.flags = "trunc" THEN <<>> ELSE @,
                                       !.hollow = \/ @
                                                  \/ /\ call.flags = "trunc"
                                                     /\ Len(f.content) > DBUCKET_BUF_SIZE]
    [] call.op = "read"   -> [f EXCEPT !.pos = @ + Len(Extract(f.content, @, call.count))]
    [] call.op = "write"  -> [f EXCEPT !.content = Overwrite(@, f.pos, call.data),
                                       !.pos = @ + Len(call.data)]
    [] call.op = "pread"  -> [f EXCEPT !.inside = @ /\ call.offset < Len(f.content)]
    [] call.op = "pwrite" -> [f EXCEPT !.content = Overwrite(@, call.offset, call.data),
                                       !.inside = @ /\ call.offset < Len(f.content)]

\* The bytes call returns from the file f.
Answer(call, f) ==
  CASE call.op = "read"  -> Extract(f.content, f.pos, call.count)
    [] call.op = "pread" -> Extract(f.content, call.offset, call.count)
    [] OTHER             -> <<>>

\* The process whose call starts in this step.
Starting(p) == me[p].pc = "idle" /\ me'[p].pc \notin {"idle", "dead"}

\* A file that is created in this step has no past, one that is uploaded has
\* the bytes on disk.
Past(m, call) ==
  IF mb[m].in_use THEN posix.file[m]
  ELSE IF call.flags = "trunc" \/ call.path \notin DOMAIN disk THEN EmptyFile
  ELSE [EmptyFile EXCEPT !.content = disk[call.path]]

Follow ==
  posix' =
    IF \E p \in Proc : Starting(p)
    THEN LET p == CHOOSE q \in Proc : Starting(q)
             m == me'[p].m
             call == me'[p].call
         IN [file   |-> [posix.file EXCEPT ![m] = Effect(call, Past(m, call))],
             answer |-> [posix.answer EXCEPT ![p] = Answer(call, Past(m, call))]]
    ELSE IF \E p \in Proc : me[p].pc # "idle" /\ me'[p].pc = "idle"
    THEN [posix EXCEPT !.answer = [p \in Proc |-> <<>>]]
    ELSE posix

OracleNext == Next /\ Follow

OracleSpec == OracleInit /\ [][OracleNext]_oracleVars

----------------------------------------------------------------------------

\* Between calls, the chain of every file holds exactly the bytes that the
\* open, read, write, pread and pwrite calls made so far should have left in
\* it, until O_TRUNC meets a file of several buckets.  The calls are those of
\* one process, and each pread and pwrite begins inside the file
\* (file_syscalls.c 109-214, 282-611).
ContentAgrees ==
  Quiet => \A m \in Meta : mb[m].in_use /\ ~posix.file[m].hollow =>
    Content(m) = posix.file[m].content

\* When a read or a pread is about to return, it has copied exactly the bytes
\* that the calls before it put at its position, across bucket boundaries and
\* up to the end of the file, until O_TRUNC meets a file of several buckets
\* (file_syscalls.c 306-327, 479-493).
ReadsAgree ==
  \A p \in Proc :
    me[p].pc = "end" /\ Reading(p) /\ ~posix.file[me[p].m].hollow =>
      me[p].out = posix.answer[p]
=============================================================================
