---------------------------- MODULE MCFileOracle ----------------------------
(* FileOracle for TLC: which data or meta bucket is taken makes no           *)
(* difference, and a file is not followed once a pread or pwrite began       *)
(* outside of it.                                                            *)
EXTENDS FileOracle, FileJobs

Interchangeable == Permutations(Bucket) \union Permutations(Meta)

Followed == \A m \in Meta : posix.file[m].inside
=============================================================================
