----------------------------- MODULE MCFileData -----------------------------
(* FileData for TLC: which data or meta bucket is taken makes no difference. *)
EXTENDS FileViews, FileJobs

Interchangeable == Permutations(Bucket) \union Permutations(Meta)
=============================================================================
