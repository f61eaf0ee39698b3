---------------------------- MODULE RunDirProofs ----------------------------
(***************************************************************************)
(* Proofs about RunDir, for any validations and any finite set of stamps.  *)
(***************************************************************************)
EXTENDS RunDir, FiniteSetTheorems, TLAPS

\* A run has no directory until mkdir succeeds, and exactly one from then on; one
\* that has failed has one or none.
Owns ==
  \A p \in Procs :
    /\ own[p] \subseteq dirs
    /\ pc[p] \in {"before", "stamp", "mkdir"} => own[p] = {}
    /\ pc[p] \in {"after", "passed"} => \E d \in dirs : own[p] = {d}
    /\ own[p] # {} => \E d \in dirs : own[p] = {d}

\* What a validation listed before its run is there still, and its run's
\* directory was not there then.
Listed ==
  \A p \in Procs :
    /\ before[p] \subseteq dirs
    /\ own[p] \intersect before[p] = {}

\* The names a run has tried in vain are taken.
Tried ==
  \A p \in Procs :
    pc[p] = "mkdir" => \A k \in 1..(name[p][2] - 1) : <<name[p][1], k>> \in dirs

IInv ==
  /\ TypeOK /\ IsFiniteSet(dirs)
  /\ Owns /\ Listed /\ Tried /\ NeverShared /\ ValidatesItsOwn /\ NoGap

\* The invariant holds whatever directories earlier runs have left.
LEMMA InitIInv == Init => IInv
<1> SUFFICES ASSUME Init PROVE IInv
  OBVIOUS
<1>1. <<CHOOSE t \in Stamps : TRUE, 1>> \in Names
  <2>1. (CHOOSE t \in Stamps : TRUE) \in Stamps
    BY RunDirAssumption DEF RunDirAssumption
  <2> QED
    BY <2>1 DEF Names
<1>2. dirs \subseteq Names
  BY DEF Init, Names
<1>3. TypeOK
  BY <1>1, <1>2 DEF Init, TypeOK
<1>4. IsFiniteSet(dirs)
  <2>1. IsFiniteSet({1, 2})
    <3>1. IsFiniteSet({1} \union {2})
      BY FS_AddElement, FS_Singleton
    <3>2. {1} \union {2} = {1, 2}
      OBVIOUS
    <3> QED
      BY <3>1, <3>2
  <2>2. IsFiniteSet(Stamps \X {1, 2})
    BY <2>1, FS_Product, RunDirAssumption DEF RunDirAssumption
  <2> QED
    BY <2>2, FS_Subset DEF Init
<1>5. Owns /\ Listed /\ Tried /\ NeverShared /\ ValidatesItsOwn /\ NoGap
  BY DEF Init, Owns, Listed, Tried, NeverShared, ValidatesItsOwn, NoGap
<1> QED
  BY <1>3, <1>4, <1>5 DEF IInv

\* Every step keeps the types, removes no directory and adds at most one.
LEMMA NextTypeOK ==
  ASSUME TypeOK, IsFiniteSet(dirs), [Next]_vars
  PROVE  TypeOK' /\ IsFiniteSet(dirs') /\ dirs \subseteq dirs'
<1> USE DEF TypeOK, Goto
<1>1. ASSUME NEW p \in Procs, ListBefore(p) PROVE TypeOK' /\ dirs' = dirs
  BY <1>1 DEF ListBefore
<1>2. ASSUME NEW p \in Procs, ReadClock(p) PROVE TypeOK' /\ dirs' = dirs
  <2>1. PICK t \in Stamps : name' = [name EXCEPT ![p] = <<t, 1>>]
    BY <1>2 DEF ReadClock
  <2>2. <<t, 1>> \in Names
    BY DEF Names
  <2>3. name' \in [Procs -> Names]
    BY <2>1, <2>2
  <2> QED
    BY <1>2, <2>3 DEF ReadClock
<1>3. ASSUME NEW p \in Procs, Mkdir(p)
      PROVE  TypeOK' /\ dirs' = dirs \union {name[p]}
  BY <1>3 DEF Mkdir
<1>4. ASSUME NEW p \in Procs, Exists(p) PROVE TypeOK' /\ dirs' = dirs
  <2>1. <<name[p][1], name[p][2] + 1>> \in Names
    BY DEF Names
  <2>2. name' \in [Procs -> Names]
    BY <1>4, <2>1 DEF Exists
  <2> QED
    BY <1>4, <2>2 DEF Exists
<1>5. ASSUME NEW p \in Procs, ListAfter(p) PROVE TypeOK' /\ dirs' = dirs
  <2>1. dirs \ before[p] \in SUBSET Names
    OBVIOUS
  <2>2. chosen' \in [Procs -> SUBSET Names]
    BY <1>5, <2>1 DEF ListAfter
  <2> QED
    BY <1>5, <2>2 DEF ListAfter
<1>6. ASSUME NEW p \in Procs, RunFails(p) PROVE TypeOK' /\ dirs' = dirs
  BY <1>6 DEF RunFails
<1>7. CASE UNCHANGED vars
  BY <1>7 DEF vars
<1> QED
  BY <1>1, <1>2, <1>3, <1>4, <1>5, <1>6, <1>7, FS_AddElement DEF Next, Step, Done

\* A run's new name is one no other run and no earlier listing has.
LEMMA MkdirIsExclusive ==
  ASSUME TypeOK, Owns, Listed, Tried, NEW p \in Procs, Mkdir(p)
  PROVE  /\ own'[p] = {name[p]} /\ name[p] \in dirs' /\ name[p] \in Names
         /\ \A q \in Procs : name[p] \notin own[q] /\ name[p] \notin before[q]
         /\ \A q \in Procs : q # p => own'[q] = own[q]
         /\ \A k \in 1..(name[p][2] - 1) : <<name[p][1], k>> \in dirs'
  BY DEF Mkdir, TypeOK, Owns, Listed, Tried

\* A validation that passes has chosen the directory of its run.
LEMMA TheNewOneIsOwn ==
  ASSUME IInv, NEW p \in Procs, ListAfter(p), pc'[p] = "passed"
  PROVE  chosen'[p] = own[p]
<1>1. /\ pc[p] = "after" /\ chosen'[p] = dirs \ before[p]
      /\ Cardinality(dirs \ before[p]) = 1
  BY DEF IInv, TypeOK, ListAfter, Goto
<1>2. PICK d \in dirs : own[p] = {d}
  BY <1>1 DEF IInv, Owns
<1>3. d \in dirs \ before[p]
  BY <1>2 DEF IInv, Owns, Listed
<1>4. IsFiniteSet(dirs \ before[p])
  BY FS_Subset DEF IInv
<1>5. PICK x : dirs \ before[p] = {x}
  BY <1>1, <1>4, FS_Singleton
<1> QED
  BY <1>1, <1>2, <1>3, <1>5

\* Every step keeps the invariant.
LEMMA NextIInv == IInv /\ [Next]_vars => IInv'
<1> SUFFICES ASSUME IInv, [Next]_vars PROVE IInv'
  OBVIOUS
<1>1. TypeOK' /\ IsFiniteSet(dirs') /\ dirs \subseteq dirs'
  BY NextTypeOK DEF IInv
<1> USE <1>1 DEF TypeOK, Owns, Listed, Tried, NeverShared, ValidatesItsOwn, NoGap,
                 Goto
<1>2. CASE UNCHANGED vars
  BY <1>2 DEF IInv, vars
<1>3. ASSUME NEW p \in Procs, ListBefore(p) PROVE IInv'
  BY <1>3 DEF IInv, ListBefore
<1>4. ASSUME NEW p \in Procs, ReadClock(p) PROVE IInv'
  <2>1. Tried'
    BY <1>4 DEF IInv, ReadClock
  <2> QED
    BY <1>4, <2>1 DEF IInv, ReadClock
<1>5. ASSUME NEW p \in Procs, Mkdir(p) PROVE IInv'
  <2>1. /\ own'[p] = {name[p]} /\ name[p] \in dirs' /\ name[p] \in Names
        /\ \A q \in Procs : name[p] \notin own[q] /\ name[p] \notin before[q]
        /\ \A q \in Procs : q # p => own'[q] = own[q]
        /\ \A k \in 1..(name[p][2] - 1) : <<name[p][1], k>> \in dirs'
    BY <1>5, MkdirIsExclusive DEF IInv
  <2>2. Owns' /\ Listed' /\ Tried'
    BY <1>5, <2>1 DEF IInv, Mkdir
  <2>3. NeverShared' /\ ValidatesItsOwn' /\ NoGap'
    BY <1>5, <2>1 DEF IInv, Mkdir
  <2> QED
    BY <2>2, <2>3 DEF IInv
<1>6. ASSUME NEW p \in Procs, Exists(p) PROVE IInv'
  <2>1. /\ name[p] = <<name[p][1], name[p][2]>> /\ name[p][2] \in Nat \ {0}
        /\ name'[p] = <<name[p][1], name[p][2] + 1>>
    BY <1>6 DEF IInv, Exists, Names
  <2>2. ASSUME NEW k \in 1..name[p][2] PROVE <<name[p][1], k>> \in dirs
    <3>1. CASE k = name[p][2]
      BY <1>6, <2>1, <3>1 DEF Exists
    <3>2. CASE k # name[p][2]
      BY <1>6, <2>1, <3>2 DEF IInv, Exists
    <3> QED
      BY <3>1, <3>2
  <2>3. Tried'
    BY <1>6, <2>1, <2>2 DEF IInv, Exists
  <2> QED
    BY <1>6, <2>3 DEF IInv, Exists
<1>7. ASSUME NEW p \in Procs, ListAfter(p) PROVE IInv'
  <2>1. ValidatesItsOwn'
    BY <1>7, TheNewOneIsOwn DEF IInv, ListAfter
  <2> QED
    BY <1>7, <2>1 DEF IInv, ListAfter
<1>8. ASSUME NEW p \in Procs, RunFails(p) PROVE IInv'
  BY <1>8 DEF IInv, RunFails
<1> QED
  BY <1>2, <1>3, <1>4, <1>5, <1>6, <1>7, <1>8 DEF Next, Step, Done
-----------------------------------------------------------------------------
\* The inductive invariant of any number of validations, in any directory.
THEOREM Invariance == Spec => []IInv
  BY InitIInv, NextIInv, PTL DEF Spec

\* The validations' state and the directories stay of their types.
THEOREM DirectoryTypes == Spec => []TypeOK
<1>1. IInv => TypeOK
  BY DEF IInv
<1> QED
  BY <1>1, Invariance, PTL

\* No two runs, of however many, ever share a directory.
THEOREM DirectoriesAreExclusive == Spec => []NeverShared
<1>1. IInv => NeverShared
  BY DEF IInv
<1> QED
  BY <1>1, Invariance, PTL

\* However many validations and runs of the experiment overlap, one that
\* passes has validated the directory of the run it started.
THEOREM NoForeignDirectory == Spec => []ValidatesItsOwn
<1>1. IInv => ValidatesItsOwn
  BY DEF IInv
<1> QED
  BY <1>1, Invariance, PTL

\* A run takes a suffix only after all the smaller ones, since no directory
\* of the experiment is ever removed.
THEOREM SuffixesInOrder == Spec => []NoGap
<1>1. IInv => NoGap
  BY DEF IInv
<1> QED
  BY <1>1, Invariance, PTL
-----------------------------------------------------------------------------
(* RunDir implements Allocation.                                           *)

\* The validations whose run is under way.
Open == {p \in Procs : pc[p] \in {"stamp", "mkdir", "after"}}

Phase == [p \in Procs |-> CASE pc[p] = "before"               -> "idle"
                            [] pc[p] \in {"passed", "failed"} -> pc[p]
                            [] OTHER                          -> "open"]

Crowded == {p \in Procs : /\ pc[p] \in {"stamp", "mkdir", "after"}
                          /\ (dirs \ before[p]) \ own[p] # {}}

\* The phase of a validation follows its program counter.
LEMMA PhaseIs ==
  ASSUME TypeOK, NEW p \in Procs
  PROVE  /\ pc[p] = "before" => Phase[p] = "idle"
         /\ pc[p] \in {"stamp", "mkdir", "after"} => Phase[p] = "open"
         /\ pc[p] \in {"passed", "failed"} => Phase[p] = pc[p]
  BY DEF Phase, TypeOK

\* A step of one validation that leaves its program counter in its phase.
LEMMA PhaseStays ==
  ASSUME TypeOK, NEW p \in Procs, NEW to \in {"stamp", "mkdir", "after"},
         pc[p] \in {"stamp", "mkdir", "after"}, pc' = [pc EXCEPT ![p] = to]
  PROVE  Phase' = Phase
<1>1. \A q \in Procs : q # p => pc'[q] = pc[q]
  BY DEF TypeOK
<1>2. pc'[p] = to
  BY DEF TypeOK
<1> QED
  BY <1>1, <1>2 DEF Phase

\* The first free suffix is at most one more than the directories there are.
LEMMA FreeSuffixIsSmall ==
  ASSUME NEW d, IsFiniteSet(dirs), NEW n \in Nat \ {0},
         \A k \in 1..(n - 1) : <<d, k>> \in dirs
  PROVE  n \in 1..(Cardinality(dirs) + 1)
<1> DEFINE below == {<<d, k>> : k \in 1..(n - 1)}
           pair  == [k \in 1..(n - 1) |-> <<d, k>>]
<1>1. IsFiniteSet(1..(n - 1)) /\ Cardinality(1..(n - 1)) = n - 1
  <2>1. \A m \in Int : /\ IsFiniteSet(1..m)
                      /\ Cardinality(1..m) = IF 1 > m THEN 0 ELSE m - 1 + 1
    BY FS_Interval, SMT
  <2> QED
    BY <2>1
<1>2. pair \in Surjection(1..(n - 1), below)
  BY DEF Surjection
<1>3. pair \in Injection(1..(n - 1), below)
  BY DEF Injection, IsInjective
<1>4. Cardinality(below) = n - 1
  BY <1>1, <1>2, <1>3, FS_Surjection
<1>5. below \subseteq dirs
  OBVIOUS
<1>6. Cardinality(below) <= Cardinality(dirs) /\ Cardinality(dirs) \in Nat
  BY <1>5, FS_Subset, FS_CardinalityType
<1> QED
  BY <1>4, <1>6

\* The same of any stamp and suffix, as one formula.
LEMMA ShortSearch ==
  IsFiniteSet(dirs) =>
    \A d, n : n \in Nat \ {0} /\ (\A k \in 1..(n - 1) : <<d, k>> \in dirs)
                => n \in 1..(Cardinality(dirs) + 1)
  BY FreeSuffixIsSmall

\* Allocation counts as RunDir does.
LEMMA SameCounting ==
  \A S : /\ Atomic!Cardinality(S) = Cardinality(S)
         /\ Atomic!IsFiniteSet(S) <=> IsFiniteSet(S)
<1>1. \A S : Atomic!Cardinality(S) = Cardinality(S)
  BY Zenon DEF Atomic!Cardinality, Cardinality
<1>2. \A S : Atomic!IsFiniteSet(S) <=> IsFiniteSet(S)
  BY Zenon DEF Atomic!IsFiniteSet, IsFiniteSet
<1> QED
  BY <1>1, <1>2

\* The initial states are those of Allocation.
LEMMA InitImplements == ASSUME Init, IInv PROVE Atomic!Init
<1>1. Phase = [p \in Procs |-> "idle"]
  BY DEF Init, Phase
<1>2. Crowded = {}
  BY DEF Init, Crowded
<1>3. dirs \subseteq Stamps \X (Nat \ {0}) /\ IsFiniteSet(dirs)
  BY DEF IInv, TypeOK, Names
<1>4. own = [p \in Procs |-> {}]
  BY DEF Init
<1> QED
  BY <1>1, <1>2, <1>3, <1>4, SameCounting DEF Atomic!Init, Phase, Crowded

\* Listing what is there begins a validation, which is not crowded then.
LEMMA ListBeforeImplements ==
  ASSUME IInv, NEW p \in Procs, ListBefore(p) PROVE Atomic!Begin(p)
<1> USE DEF IInv, TypeOK, Goto
<1>1. Phase[p] = "idle" /\ Phase' = [Phase EXCEPT ![p] = "open"]
  BY DEF ListBefore, Phase
<1>2. Crowded' = Crowded
  BY DEF ListBefore, Crowded
<1>3. own' = own /\ dirs' = dirs
  BY DEF ListBefore
<1> QED
  BY <1>1, <1>2, <1>3 DEF Atomic!Begin, Phase, Crowded

\* The mkdir that succeeds takes the first free suffix, and crowds the others.
LEMMA MkdirImplements ==
  ASSUME IInv, NEW p \in Procs, Mkdir(p) PROVE Atomic!Take(p)
<1>1. /\ pc[p] = "mkdir" /\ name[p] \notin dirs /\ dirs' = dirs \union {name[p]}
      /\ own' = [own EXCEPT ![p] = {name[p]}] /\ before' = before
      /\ pc' = [pc EXCEPT ![p] = "after"]
  BY DEF Mkdir, Goto
<1>2. Phase[p] = "open" /\ Phase' = Phase
  BY <1>1, PhaseIs, PhaseStays DEF IInv
<1>3. own[p] = {}
  BY <1>1 DEF IInv, Owns
<1>4. /\ name[p][1] \in Stamps /\ name[p][2] \in Nat \ {0}
      /\ name[p] = <<name[p][1], name[p][2]>>
  BY DEF IInv, TypeOK, Names
<1>5. Atomic!IsFirstFree(name[p])
  BY <1>1 DEF IInv, Tried, Atomic!IsFirstFree
<1>6. name[p] \in Stamps \X Atomic!Suffixes
  <2>1. name[p][2] \in 1..(Cardinality(dirs) + 1)
    BY <1>1, <1>4, FreeSuffixIsSmall DEF IInv, Tried
  <2> QED
    <3>1. <<name[p][1], name[p][2]>> \in Stamps \X (1..(Cardinality(dirs) + 1))
      BY <1>4, <2>1
    <3> QED
      BY <1>4, <3>1, SameCounting DEF Atomic!Suffixes
<1>7. Crowded' = Crowded \union {q \in Procs \ {p} : Phase[q] = "open"}
  <2>1. ASSUME NEW q \in Procs, q # p
        PROVE  q \in Crowded' <=> Phase[q] = "open"
    <3>1. pc'[q] = pc[q] /\ own'[q] = own[q] /\ before'[q] = before[q]
      BY <1>1, <2>1 DEF IInv, TypeOK
    <3>2. name[p] \in dirs' /\ name[p] \notin own[q] /\ name[p] \notin before[q]
      BY <1>1 DEF IInv, Owns, Listed
    <3>3. (dirs' \ before'[q]) \ own'[q] # {}
      BY <3>1, <3>2
    <3>4. Phase[q] = "open" <=> pc[q] \in {"stamp", "mkdir", "after"}
      BY PhaseIs DEF IInv, TypeOK
    <3> QED
      BY <3>1, <3>3, <3>4 DEF Crowded
  <2>2. p \in Crowded' <=> p \in Crowded
    <3>1. pc'[p] = "after" /\ own'[p] = {name[p]} /\ before'[p] = before[p]
      BY <1>1 DEF IInv, TypeOK
    <3>2. (dirs' \ before'[p]) \ own'[p] = (dirs \ before[p]) \ own[p]
      BY <1>1, <1>3, <3>1
    <3> QED
      BY <1>1, <3>1, <3>2 DEF Crowded
  <2>3. \A q \in Procs : q \in Crowded => Phase[q] = "open"
    BY PhaseIs DEF IInv, Crowded
  <2>4. Crowded' \subseteq Procs /\ Crowded \subseteq Procs
    BY DEF Crowded
  <2> QED
    BY <2>1, <2>2, <2>3, <2>4
<1> QED
  BY <1>1, <1>2, <1>3, <1>5, <1>6, <1>7 DEF Atomic!Take, Phase, Crowded

\* A validation that ends leaves the others as crowded as they were.
LEMMA EndImplements ==
  ASSUME IInv, NEW p \in Procs, NEW verdict \in {"passed", "failed"},
         p \in Open, pc' = [pc EXCEPT ![p] = verdict],
         UNCHANGED <<before, own, dirs>>
  PROVE  Atomic!Close(p, verdict)
<1> USE DEF IInv, TypeOK
<1>1. Phase[p] = "open"
  BY PhaseIs DEF Open
<1>2. Phase' = [Phase EXCEPT ![p] = verdict]
  BY DEF Phase
<1>3. Crowded' = Crowded \ {p}
  BY DEF Crowded
<1> QED
  BY <1>1, <1>2, <1>3 DEF Atomic!Close, Phase, Crowded

\* The verdict depends on whether there is a new directory beside the run's own.
LEMMA ListAfterImplements ==
  ASSUME IInv, NEW p \in Procs, ListAfter(p) PROVE Atomic!Judge(p)
<1>1. /\ pc[p] = "after" /\ UNCHANGED <<before, own, dirs>>
      /\ pc' = [pc EXCEPT ![p] = IF Cardinality(dirs \ before[p]) = 1
                                 THEN "passed" ELSE "failed"]
  BY DEF ListAfter, Goto
<1>2. PICK d \in dirs : own[p] = {d}
  BY <1>1 DEF IInv, Owns
<1>3. d \in dirs \ before[p]
  BY <1>2 DEF IInv, Owns, Listed
<1>4. IsFiniteSet(dirs \ before[p])
  BY FS_Subset DEF IInv
<1>5. Cardinality(dirs \ before[p]) = 1 <=> \E x : dirs \ before[p] = {x}
  BY <1>4, FS_Singleton
<1>6. Cardinality(dirs \ before[p]) = 1 <=> p \notin Crowded
  BY <1>1, <1>2, <1>3, <1>5 DEF Crowded
<1>7. p \in Open /\ own[p] # {}
  BY <1>1, <1>2 DEF Open
<1>8. CASE p \in Crowded
  <2>1. Atomic!Close(p, "failed")
    BY <1>1, <1>6, <1>7, <1>8, EndImplements
  <2> QED
    BY <1>7, <1>8, <2>1 DEF Atomic!Judge, Atomic!Close, Crowded
<1>9. CASE p \notin Crowded
  <2>1. Atomic!Close(p, "passed")
    BY <1>1, <1>6, <1>7, <1>9, EndImplements
  <2> QED
    BY <1>7, <1>9, <2>1 DEF Atomic!Judge, Atomic!Close, Crowded
<1> QED
  BY <1>8, <1>9

\* Every step is one of Allocation's, or leaves what it speaks of alone.
LEMMA StepImplements ==
  ASSUME IInv, [Next]_vars PROVE [Atomic!Next]_(Atomic!vars)
<1>1. ASSUME NEW p \in Procs, ListBefore(p) PROVE Atomic!Next
  BY <1>1, ListBeforeImplements DEF Atomic!Next
<1>2. ASSUME NEW p \in Procs, ReadClock(p) PROVE UNCHANGED Atomic!vars
  <2>1. /\ pc[p] = "stamp" /\ pc' = [pc EXCEPT ![p] = "mkdir"]
        /\ UNCHANGED <<before, own, dirs>>
    BY <1>2 DEF ReadClock, Goto
  <2>2. Phase' = Phase
    BY <2>1, PhaseStays DEF IInv
  <2>3. Crowded' = Crowded
    BY <2>1 DEF IInv, TypeOK, Crowded
  <2> QED
    BY <2>1, <2>2, <2>3 DEF Atomic!vars, Phase, Crowded
<1>3. ASSUME NEW p \in Procs, Mkdir(p) PROVE Atomic!Next
  BY <1>3, MkdirImplements DEF Atomic!Next
<1>4. ASSUME NEW p \in Procs, Exists(p) PROVE UNCHANGED Atomic!vars
  BY <1>4 DEF Exists, Atomic!vars
<1>5. ASSUME NEW p \in Procs, ListAfter(p) PROVE Atomic!Next
  BY <1>5, ListAfterImplements DEF Atomic!Next
<1>6. ASSUME NEW p \in Procs, RunFails(p) PROVE Atomic!Next
  <2>1. p \in Open /\ pc' = [pc EXCEPT ![p] = "failed"] /\ UNCHANGED <<before, own, dirs>>
    BY <1>6 DEF RunFails, Goto, Open
  <2>2. Atomic!RunFails(p)
    BY <2>1, EndImplements DEF Atomic!RunFails
  <2> QED
    BY <2>2 DEF Atomic!Next
<1>7. CASE UNCHANGED vars
  BY <1>7 DEF vars, Atomic!vars
<1> QED
  BY <1>1, <1>2, <1>3, <1>4, <1>5, <1>6, <1>7 DEF Next, Step, Done

\* Any number of overlapping searches and validations are some sequence of atomic
\* ones, in which a validation fails for another's directory exactly when one was
\* taken while it was open.
THEOREM SearchIsAtomic == Spec => AllocatesAtomically
<1>1. Init => Atomic!Init
  BY InitIInv, InitImplements
<1>2. IInv /\ [Next]_vars => [Atomic!Next]_(Atomic!vars)
  BY StepImplements
<1> QED
  BY <1>1, <1>2, Invariance, PTL DEF Spec, AllocatesAtomically, Atomic!Spec
-----------------------------------------------------------------------------
\* The name a search tries next has a suffix of at most one more than the
\* directories there are.
SearchIsShort ==
  \A p \in Procs : pc[p] = "mkdir" => name[p][2] \in 1..(Cardinality(dirs) + 1)

\* So a search goes on past the directories that were there when it began only as far as
\* other runs create more: two searches can not keep each other from ending.
THEOREM SearchesAreShort == Spec => []SearchIsShort
<1>1. ASSUME IInv, NEW p \in Procs, pc[p] = "mkdir"
      PROVE  name[p][2] \in 1..(Cardinality(dirs) + 1)
  <2>1. name[p][2] \in Nat \ {0}
    BY <1>1 DEF IInv, TypeOK, Names
  <2>2. \A k \in 1..(name[p][2] - 1) : <<name[p][1], k>> \in dirs
    BY <1>1 DEF IInv, Tried
  <2> DEFINE stamp == name[p][1]
             suffix == name[p][2]
  <2>3. suffix \in Nat \ {0} /\ \A k \in 1..(suffix - 1) : <<stamp, k>> \in dirs
    BY <2>1, <2>2
  <2>4. IsFiniteSet(dirs)
    BY <1>1 DEF IInv
  <2> QED
    BY <2>3, <2>4, ShortSearch
<1>2. IInv => SearchIsShort
  BY <1>1 DEF SearchIsShort
<1> QED
  BY <1>2, Invariance, PTL
=============================================================================
