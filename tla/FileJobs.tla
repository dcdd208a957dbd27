------------------------------ MODULE FileJobs ------------------------------
(* The calls that the instances of FileData and FileOracle make.  Buckets    *)
(* have two bytes there, so three bytes always cross a bucket boundary.      *)
EXTENDS Naturals, TLC

CONSTANTS p1, p2, f, g

OpenJob(path, flags)    == [op |-> "open", path |-> path, flags |-> flags]
UnlinkJob(path)         == [op |-> "unlink", path |-> path]
ExecJob(path)           == [op |-> "exec", path |-> path]
CleanupJob              == [op |-> "cleanup"]
CloseJob(fd)            == [op |-> "close", fd |-> fd]
ReadJob(fd, count)      == [op |-> "read", fd |-> fd, count |-> count]
WriteJob(fd, data)      == [op |-> "write", fd |-> fd, data |-> data]
PreadJob(fd, count, offset)  == [op |-> "pread", fd |-> fd, count |-> count, offset |-> offset]
PwriteJob(fd, data, offset)  == [op |-> "pwrite", fd |-> fd, data |-> data, offset |-> offset]

\* One process, one file, two descriptors: every order of opens that rewind
\* or truncate, reads and writes that cross bucket boundaries, and accesses by
\* offset.
JobsStream ==
  [p \in {p1} |->
    {OpenJob(f, "creat"), OpenJob(f, "trunc"), OpenJob(f, "append"),
     OpenJob(f, "plain"), CloseJob(0),
     WriteJob(0, <<"x">>), WriteJob(1, <<"y", "x", "y">>),
     ReadJob(0, 1), ReadJob(1, 3)}
    \union {PreadJob(0, 2, o) : o \in {1, 3}}
    \union {PwriteJob(0, <<"y", "x">>, o) : o \in {1, 3}}]

\* Two processes, two files: f is written by both, and unlinked and truncated
\* meanwhile.  All bytes are alike, the run is about the chains.
JobsShared ==
  (p1 :> {OpenJob(f, "trunc"), OpenJob(f, "append"), UnlinkJob(f),
          WriteJob(0, <<"x", "x", "x">>)}) @@
  (p2 :> {OpenJob(f, "creat"), OpenJob(g, "creat"), CloseJob(0), ReadJob(0, 3),
          PwriteJob(0, <<"x", "x", "x">>, 1)})

\* One process changes, removes and runs files that are on disk and files
\* that are not, and the daemon, p2 here, may be closed at any time.
JobsSync ==
  (p1 :> {OpenJob(f, "plain"), OpenJob(g, "trunc"), UnlinkJob(f),
          ExecJob(f), CloseJob(0), WriteJob(0, <<"y", "y">>)}) @@
  (p2 :> {CleanupJob})

\* A file is run by one process while the other one removes it and reads it
\* from the disk again.
JobsReload ==
  (p1 :> {OpenJob(f, "plain"), ExecJob(f)}) @@
  (p2 :> {OpenJob(f, "plain"), UnlinkJob(f)})

StreamSessions ==
  <<[jobs |-> JobsStream, disk |-> <<>>],
    [jobs |-> JobsStream, disk |-> f :> <<"x", "y", "x">>]>>

SharedSessions ==
  <<[jobs |-> JobsShared, disk |-> <<>>],
    [jobs |-> JobsSync, disk |-> f :> <<"x", "x">>],
    [jobs |-> JobsReload, disk |-> f :> <<"x", "x", "x">>]>>
=============================================================================
