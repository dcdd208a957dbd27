---------------------------- MODULE MCMetaTable -----------------------------
(* MetaTable for TLC: two processes and three paths, a and b in row 0 and  *)
(* c in row 1, so that lists have several buckets, a bucket moves between  *)
(* rows, and the two processes meet in one row.                            *)
EXTENDS MetaTableViews

CONSTANTS p1, p2, a, b, c

MCProc == {p1, p2}
MCPath == {a, b, c}
MCRow  == {0, 1}

MCHash == [f \in MCPath |-> IF f = c THEN 1 ELSE 0]

On(ops, paths) == {[op |-> o, old |-> f, new |-> f] : o \in ops, f \in paths}
Rename(f, g) == [op |-> "rename", old |-> f, new |-> g]

\* Each process creates its own file of row 0; both remove and look up any.
JobsNames ==
  [p \in MCProc |-> On({"open"}, {IF p = p1 THEN a ELSE b})
                    \cup On({"unlink"}, {a, b}) \cup On({"stat"}, {a})]

\* Files are renamed into and out of a row where both processes create the
\* same file and one of them removes it.
JobsRename ==
  [p \in MCProc |->
     IF p = p1 THEN {Rename(a, c), Rename(c, a)} \cup On({"open"}, {c})
               ELSE On({"open", "unlink"}, {c})]

\* Both processes create the same file.
JobsSame == [p \in MCProc |-> On({"open"}, {a})]

\* In the first the table gets full: c, a and one more file.
MCSessions   == <<[files |-> <<c, a>>, calls |-> JobsNames],
                  [files |-> <<a, b>>, calls |-> JobsRename]>>
SameSessions == <<[files |-> <<>>, calls |-> JobsSame]>>
=============================================================================
