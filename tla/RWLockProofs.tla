---------------------------- MODULE RWLockProofs ----------------------------
(***************************************************************************)
(* Proofs about RWLock, for any finite set of processes.                   *)
(*                                                                         *)
(* Neither TypeOK nor WriterExclusion is inductive.  A counter stays a     *)
(* natural number only because it counts the processes that will give it   *)
(* back (CountersExact), and two writers are kept apart only because the   *)
(* holder recorded in real_lock is the process at w_cs or w_out (HolderIn).*)
(* RWInv is the conjunction that is inductive.                             *)
(***************************************************************************)
EXTENDS RWLock, FiniteSetTheorems, TLAPS

HolderIn == \A p \in Proc : real_lock = p <=> pc[p] \in {"w_cs", "w_out"}

RWInv == TypeOK /\ CountersExact /\ HolderIn

(* Every set At(S) is finite, so its cardinality is a natural number. *)
LEMMA AtFinite ==
  ASSUME NEW S
  PROVE  IsFiniteSet(At(S)) /\ Cardinality(At(S)) \in Nat
<1>1. At(S) \subseteq Proc
  BY DEF At
<1> QED
  BY <1>1, ProcAssumption, FS_Subset, FS_CardinalityType

(* How one process that moves changes the number of processes in S. *)
LEMMA AtStep ==
  ASSUME NEW S, NEW p \in Proc, NEW from, NEW to \in Control,
         pc \in [Proc -> Control], Goto(p, from, to)
  PROVE  /\ from \notin S /\ to \in S
              => Cardinality(At(S)') = Cardinality(At(S)) + 1
         /\ from \in S /\ to \notin S
              => Cardinality(At(S)') = Cardinality(At(S)) - 1
         /\ (from \in S <=> to \in S)
              => At(S)' = At(S)
         /\ from \in S => Cardinality(At(S)) # 0
<1>1. /\ from \notin S /\ to \in S => At(S)' = At(S) \cup {p}
      /\ from \in S /\ to \notin S => At(S)' = At(S) \ {p}
      /\ (from \in S <=> to \in S) => At(S)' = At(S)
      /\ p \in At(S) <=> from \in S
  BY DEF At, Goto
<1>2. /\ IsFiniteSet(At(S)) /\ Cardinality(At(S)) \in Nat
  BY AtFinite
<1>3. from \notin S => Cardinality(At(S) \cup {p}) = Cardinality(At(S)) + 1
  BY <1>1, <1>2, FS_AddElement, ZenonT(40)
<1>4. from \in S => Cardinality(At(S) \ {p}) = Cardinality(At(S)) - 1
  BY <1>1, <1>2, FS_RemoveElement, ZenonT(40)
<1>5. from \in S => Cardinality(At(S)) # 0
  BY <1>1, <1>2, FS_EmptySet
<1> QED
  BY <1>1, <1>3, <1>4, <1>5

-----------------------------------------------------------------------------
\* The lock is created free, with both counters at 0.
LEMMA InitRWInv == Init => RWInv
<1> SUFFICES ASSUME Init
             PROVE  RWInv
  OBVIOUS
<1>1. TypeOK
  BY DEF Init, TypeOK, Control
<1>2. At({"r_cs"}) = {} /\ At(Registered) = {}
  BY DEF Init, At, Registered
<1>3. CountersExact
  BY <1>2, FS_EmptySet DEF Init, CountersExact
<1>4. HolderIn
  BY ProcAssumption DEF Init, HolderIn
<1> QED
  BY <1>1, <1>3, <1>4 DEF RWInv

\* Every step of a reader, a writer or a call keeps the invariant.
LEMMA NextRWInv == RWInv /\ [Next]_vars => RWInv'
<1> SUFFICES ASSUME RWInv, [Next]_vars
             PROVE  RWInv'
  OBVIOUS
<1> USE DEF RWInv
<1>0. CASE UNCHANGED vars
  BY <1>0 DEF vars, TypeOK, CountersExact, HolderIn, At
<1>1. ASSUME NEW p \in Proc, WriterRegister(p)
      PROVE  RWInv'
  <2>1. Goto(p, "idle", "w_wait")
    BY <1>1 DEF WriterRegister
  <2>2. At({"r_cs"})' = At({"r_cs"})
    BY <2>1, AtStep DEF TypeOK, Control, Registered, Admitted
  <2>3. Cardinality(At(Registered)') = Cardinality(At(Registered)) + 1
    BY <2>1, AtStep DEF TypeOK, Control, Registered, Admitted
  <2>4. TypeOK'
    BY <1>1, <2>1, <2>2, <2>3, AtFinite
       DEF WriterRegister, TypeOK, CountersExact, Goto, Control, Registered, Admitted
  <2>5. CountersExact'
    BY <1>1, <2>2, <2>3 DEF WriterRegister, CountersExact
  <2>6. HolderIn'
    BY <1>1, <2>1, ProcAssumption DEF WriterRegister, TypeOK, HolderIn, Goto
  <2> QED
    BY <2>4, <2>5, <2>6
<1>2. ASSUME NEW p \in Proc, WriterSeesNoReader(p)
      PROVE  RWInv'
  <2>1. Goto(p, "w_wait", "w_spin")
    BY <1>2 DEF WriterSeesNoReader
  <2>2. At({"r_cs"})' = At({"r_cs"})
    BY <2>1, AtStep DEF TypeOK, Control, Registered, Admitted
  <2>3. At(Registered)' = At(Registered)
    BY <2>1, AtStep DEF TypeOK, Control, Registered, Admitted
  <2>4. TypeOK'
    BY <1>2, <2>1, <2>2, <2>3, AtFinite
       DEF WriterSeesNoReader, TypeOK, CountersExact, Goto, Control, Registered, Admitted
  <2>5. CountersExact'
    BY <1>2, <2>2, <2>3, ZenonT(40) DEF WriterSeesNoReader, CountersExact
  <2>6. HolderIn'
    BY <1>2, <2>1, ProcAssumption DEF WriterSeesNoReader, TypeOK, HolderIn, Goto
  <2> QED
    BY <2>4, <2>5, <2>6
<1>3. ASSUME NEW p \in Proc, WriterLock(p)
      PROVE  RWInv'
  <2>1. Goto(p, "w_spin", "w_cs")
    BY <1>3 DEF WriterLock
  <2>2. At({"r_cs"})' = At({"r_cs"})
    BY <2>1, AtStep DEF TypeOK, Control, Registered, Admitted
  <2>3. At(Registered)' = At(Registered)
    BY <2>1, AtStep DEF TypeOK, Control, Registered, Admitted
  <2>4. TypeOK'
    BY <1>3, <2>1, <2>2, <2>3, AtFinite
       DEF WriterLock, TypeOK, CountersExact, Goto, Control, Registered, Admitted
  <2>5. CountersExact'
    BY <1>3, <2>2, <2>3 DEF WriterLock, CountersExact
  <2>6. HolderIn'
    BY <1>3, <2>1, ProcAssumption DEF WriterLock, TypeOK, HolderIn, Goto
  <2> QED
    BY <2>4, <2>5, <2>6
<1>4. ASSUME NEW p \in Proc, WriterDeregister(p)
      PROVE  RWInv'
  <2>1. Goto(p, "w_cs", "w_out")
    BY <1>4 DEF WriterDeregister
  <2>2. At({"r_cs"})' = At({"r_cs"})
    BY <2>1, AtStep DEF TypeOK, Control, Registered, Admitted
  <2>3. Cardinality(At(Registered)') = Cardinality(At(Registered)) - 1 /\ Cardinality(At(Registered)) # 0
    <3>1. "w_cs" \in Registered /\ "w_out" \notin Registered /\ "w_out" \in Control
      BY DEF Control, Registered
    <3> QED
      BY <2>1, <3>1, AtStep DEF TypeOK
  <2>4. TypeOK'
    BY <1>4, <2>1, <2>2, <2>3, AtFinite
       DEF WriterDeregister, TypeOK, CountersExact, Goto, Control, Registered, Admitted
  <2>5. CountersExact'
    BY <1>4, <2>2, <2>3 DEF WriterDeregister, CountersExact
  <2>6. HolderIn'
    BY <1>4, <2>1, ProcAssumption DEF WriterDeregister, TypeOK, HolderIn, Goto
  <2> QED
    BY <2>4, <2>5, <2>6
<1>5. ASSUME NEW p \in Proc, WriterUnlock(p)
      PROVE  RWInv'
  <2>1. Goto(p, "w_out", "idle")
    BY <1>5 DEF WriterUnlock
  <2>2. At({"r_cs"})' = At({"r_cs"})
    BY <2>1, AtStep DEF TypeOK, Control, Registered, Admitted
  <2>3. At(Registered)' = At(Registered)
    BY <2>1, AtStep DEF TypeOK, Control, Registered, Admitted
  <2>4. TypeOK'
    BY <1>5, <2>1, <2>2, <2>3, AtFinite
       DEF WriterUnlock, TypeOK, CountersExact, Goto, Control, Registered, Admitted
  <2>5. CountersExact'
    BY <1>5, <2>2, <2>3 DEF WriterUnlock, CountersExact
  <2>6. HolderIn'
    BY <1>5, <2>1, ProcAssumption DEF WriterUnlock, TypeOK, HolderIn, Goto
  <2> QED
    BY <2>4, <2>5, <2>6
<1>6. ASSUME NEW p \in Proc, ReaderCall(p)
      PROVE  RWInv'
  <2>1. Goto(p, "idle", "r_wait")
    BY <1>6 DEF ReaderCall
  <2>2. At({"r_cs"})' = At({"r_cs"})
    BY <2>1, AtStep DEF TypeOK, Control, Registered, Admitted
  <2>3. At(Registered)' = At(Registered)
    BY <2>1, AtStep DEF TypeOK, Control, Registered, Admitted
  <2>4. TypeOK'
    BY <1>6, <2>1, <2>2, <2>3, AtFinite
       DEF ReaderCall, TypeOK, CountersExact, Goto, Control, Registered, Admitted
  <2>5. CountersExact'
    BY <1>6, <2>2, <2>3 DEF ReaderCall, CountersExact
  <2>6. HolderIn'
    BY <1>6, <2>1, ProcAssumption DEF ReaderCall, TypeOK, HolderIn, Goto
  <2> QED
    BY <2>4, <2>5, <2>6
<1>7. ASSUME NEW p \in Proc, ReaderSeesNoWriter(p)
      PROVE  RWInv'
  <2>1. Goto(p, "r_wait", "r_add")
    BY <1>7 DEF ReaderSeesNoWriter
  <2>2. At({"r_cs"})' = At({"r_cs"})
    BY <2>1, AtStep DEF TypeOK, Control, Registered, Admitted
  <2>3. At(Registered)' = At(Registered)
    BY <2>1, AtStep DEF TypeOK, Control, Registered, Admitted
  <2>4. TypeOK'
    BY <1>7, <2>1, <2>2, <2>3, AtFinite
       DEF ReaderSeesNoWriter, TypeOK, CountersExact, Goto, Control, Registered, Admitted
  <2>5. CountersExact'
    BY <1>7, <2>2, <2>3, ZenonT(40) DEF ReaderSeesNoWriter, CountersExact
  <2>6. HolderIn'
    BY <1>7, <2>1, ProcAssumption DEF ReaderSeesNoWriter, TypeOK, HolderIn, Goto
  <2> QED
    BY <2>4, <2>5, <2>6
<1>8. ASSUME NEW p \in Proc, ReaderRegister(p)
      PROVE  RWInv'
  <2>1. Goto(p, "r_add", "r_cs")
    BY <1>8 DEF ReaderRegister
  <2>2. Cardinality(At({"r_cs"})') = Cardinality(At({"r_cs"})) + 1
    BY <2>1, AtStep DEF TypeOK, Control, Registered, Admitted
  <2>3. At(Registered)' = At(Registered)
    BY <2>1, AtStep DEF TypeOK, Control, Registered, Admitted
  <2>4. TypeOK'
    BY <1>8, <2>1, <2>2, <2>3, AtFinite
       DEF ReaderRegister, TypeOK, CountersExact, Goto, Control, Registered, Admitted
  <2>5. CountersExact'
    BY <1>8, <2>2, <2>3 DEF ReaderRegister, CountersExact
  <2>6. HolderIn'
    BY <1>8, <2>1, ProcAssumption DEF ReaderRegister, TypeOK, HolderIn, Goto
  <2> QED
    BY <2>4, <2>5, <2>6
<1>9. ASSUME NEW p \in Proc, ReaderDeregister(p)
      PROVE  RWInv'
  <2>1. Goto(p, "r_cs", "idle")
    BY <1>9 DEF ReaderDeregister
  <2>2. Cardinality(At({"r_cs"})') = Cardinality(At({"r_cs"})) - 1 /\ Cardinality(At({"r_cs"})) # 0
    BY <2>1, AtStep DEF TypeOK, Control, Registered, Admitted
  <2>3. At(Registered)' = At(Registered)
    BY <2>1, AtStep DEF TypeOK, Control, Registered, Admitted
  <2>4. TypeOK'
    BY <1>9, <2>1, <2>2, <2>3, AtFinite
       DEF ReaderDeregister, TypeOK, CountersExact, Goto, Control, Registered, Admitted
  <2>5. CountersExact'
    BY <1>9, <2>2, <2>3 DEF ReaderDeregister, CountersExact
  <2>6. HolderIn'
    BY <1>9, <2>1, ProcAssumption DEF ReaderDeregister, TypeOK, HolderIn, Goto
  <2> QED
    BY <2>4, <2>5, <2>6
<1> QED
  BY <1>0, <1>1, <1>2, <1>3, <1>4, <1>5, <1>6, <1>7, <1>8, <1>9 DEF Next, Step

(* The lock's words keep their types: in particular unlock_rw never takes  *)
(* num_readers or num_writers below zero.                                  *)
THEOREM TypeCorrect == Spec => []TypeOK
<1>1. RWInv => TypeOK
  BY DEF RWInv
<1> QED
  BY <1>1, InitRWInv, NextRWInv, PTL DEF Spec

(* lock_rw(l, 2) keeps writers apart, for any number of processes. *)
THEOREM WritersExcludeEachOther == Spec => []WriterExclusion
<1>1. RWInv => WriterExclusion
  BY DEF RWInv, HolderIn, WriterExclusion, At
<1> QED
  BY <1>1, InitRWInv, NextRWInv, PTL DEF Spec

(* num_readers and num_writers count exactly the processes that lock_rw    *)
(* has counted and unlock_rw has not.                                      *)
THEOREM CountersAreExact == Spec => []CountersExact
<1>1. RWInv => CountersExact
  BY DEF RWInv
<1> QED
  BY <1>1, InitRWInv, NextRWInv, PTL DEF Spec

(* No reader overtakes a registered writer. *)
THEOREM WritersHavePriority == Spec => WriterPriority
<1>1. RWInv /\ [Next]_vars =>
        [(\E w \in Proc : pc[w] \in Registered /\ pc'[w] \in Registered)
           => At(Admitted)' \subseteq At(Admitted)]_vars
  <2> SUFFICES ASSUME RWInv, Next,
                      NEW w \in Proc, pc[w] \in Registered
               PROVE  At(Admitted)' \subseteq At(Admitted)
    BY DEF vars, At
  <2>1. num_writers # 0
    <3>1. w \in At(Registered)
      BY DEF At
    <3>2. Cardinality(At(Registered)) # 0
      BY <3>1, AtFinite, FS_EmptySet
    <3> QED
      BY <3>2 DEF RWInv, CountersExact
  <2>2. PICK p \in Proc : WriterRegister(p) \/ ReaderCall(p) \/ Step(p)
    BY DEF Next
  <2>3. pc \in [Proc -> Control]
    BY DEF RWInv, TypeOK
  <2> QED
    BY <2>1, <2>2, <2>3 DEF Step, WriterRegister, ReaderCall, WriterSeesNoReader,
       WriterLock, WriterDeregister, WriterUnlock, ReaderSeesNoWriter,
       ReaderRegister, ReaderDeregister, Goto, At, Admitted
<1> QED
  BY <1>1, InitRWInv, NextRWInv, PTL DEF Spec, WriterPriority
=============================================================================
