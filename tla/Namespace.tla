----------------------------- MODULE Namespace ------------------------------
(***************************************************************************)
(* What the file table promises: a set of names to which open adds one     *)
(* file and from which unlink removes one file, each in one step.          *)
(***************************************************************************)
CONSTANT Path

VARIABLE files  \* the paths that exist in SpaceFish memory

\* Any files may have been uploaded when the daemon started.
Init == files \subseteq Path

Create(f) == f \notin files /\ files' = files \cup {f}

Unlink(f) == f \in files /\ files' = files \ {f}

Next == \E f \in Path : Create(f) \/ Unlink(f)

Spec == Init /\ [][Next]_files
=============================================================================
