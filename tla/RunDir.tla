-------------------------------- MODULE RunDir --------------------------------
(***************************************************************************)
(* prepare_run_directory (scripts/testbed/rundir.py) and the way           *)
(* run_scenario (scripts/validate_scenario.py) finds the directory of the  *)
(* run it starts: the one that did not exist before.  Several validations  *)
(* of one experiment share its directory; their runs may start in the same *)
(* second, and directories of earlier runs are there already.              *)
(*                                                                         *)
(* A directory is its time stamp and the number of its suffix, 1 for none. *)
(***************************************************************************)
EXTENDS Integers, FiniteSets

CONSTANTS Procs,    \* validations, each with its run.py
          Stamps    \* time stamps; a clock may repeat them

ASSUME RunDirAssumption == IsFiniteSet(Stamps) /\ Stamps # {}

VARIABLES
  pc,       \* of each: "before", "stamp", "mkdir", "after", verdict
  before,   \* run_scenario: the directories before the run
  name,     \* run_dir, the name that is tried next
  own,      \* the directory the run has created, as a set of at most one
  chosen,   \* run_scenario: created, the new directories after the run
  dirs      \* the directories of the experiment

vars == <<pc, before, name, own, chosen, dirs>>

Names == Stamps \X (Nat \ {0})

TypeOK ==
  /\ pc \in [Procs -> {"before", "stamp", "mkdir", "after", "passed", "failed"}]
  /\ before \in [Procs -> SUBSET Names]
  /\ name \in [Procs -> Names]
  /\ own \in [Procs -> SUBSET Names]
  /\ chosen \in [Procs -> SUBSET Names]
  /\ dirs \subseteq Names

Init ==
  /\ pc = [p \in Procs |-> "before"]
  /\ before = [p \in Procs |-> {}]
  /\ name = [p \in Procs |-> <<CHOOSE t \in Stamps : TRUE, 1>>]
  /\ own = [p \in Procs |-> {}]
  /\ chosen = [p \in Procs |-> {}]
  /\ dirs \in SUBSET (Stamps \X {1, 2})

Goto(p, where) == pc' = [pc EXCEPT ![p] = where]

ListBefore(p) ==
  /\ pc[p] = "before"
  /\ before' = [before EXCEPT ![p] = dirs]
  /\ Goto(p, "stamp")
  /\ UNCHANGED <<name, own, chosen, dirs>>

ReadClock(p) ==
  /\ pc[p] = "stamp"
  /\ \E t \in Stamps : name' = [name EXCEPT ![p] = <<t, 1>>]
  /\ Goto(p, "mkdir")
  /\ UNCHANGED <<before, own, chosen, dirs>>

MkdirExistOk(p) ==                      \* mutant: exist_ok=True
  /\ pc[p] = "mkdir"
  /\ dirs' = dirs \union {name[p]}
  /\ own' = [own EXCEPT ![p] = {name[p]}]
  /\ Goto(p, "after")
  /\ UNCHANGED <<before, name, chosen>>

\* mkdir(exist_ok=False) creates the directory or fails, in one system call.
Mkdir(p) ==
  /\ pc[p] = "mkdir"
  /\ name[p] \notin dirs
  /\ dirs' = dirs \union {name[p]}
  /\ own' = [own EXCEPT ![p] = {name[p]}]
  /\ Goto(p, "after")
  /\ UNCHANGED <<before, name, chosen>>

SuffixStays(p) ==                       \* mutant: no suffix += 1
  /\ pc[p] = "mkdir"
  /\ name[p] \in dirs
  /\ name' = [name EXCEPT ![p] = <<@[1], 2>>]
  /\ UNCHANGED <<pc, before, own, chosen, dirs>>

SkipSuffix(p) ==                        \* mutant: suffix advanced twice
  /\ pc[p] = "mkdir"
  /\ name[p] \in dirs
  /\ name' = [name EXCEPT ![p] = <<@[1], @[2] + 2>>]
  /\ UNCHANGED <<pc, before, own, chosen, dirs>>

Exists(p) ==
  /\ pc[p] = "mkdir"
  /\ name[p] \in dirs
  /\ name' = [name EXCEPT ![p] = <<@[1], @[2] + 1>>]
  /\ UNCHANGED <<pc, before, own, chosen, dirs>>

TakeAnyNew(p) ==                        \* mutant: at least one new directory
  /\ pc[p] = "after"
  /\ chosen' = [chosen EXCEPT ![p] = dirs \ before[p]]
  /\ Goto(p, IF dirs \ before[p] # {} THEN "passed" ELSE "failed")
  /\ UNCHANGED <<before, name, own, dirs>>

\* The run has returned 0; its validation looks for the single new directory.
ListAfter(p) ==
  /\ pc[p] = "after"
  /\ chosen' = [chosen EXCEPT ![p] = dirs \ before[p]]
  /\ Goto(p, IF Cardinality(dirs \ before[p]) = 1 THEN "passed" ELSE "failed")
  /\ UNCHANGED <<before, name, own, dirs>>

\* run.py ends with another code, with or without a directory of its own; the
\* validation looks no further.
RunFails(p) ==
  /\ pc[p] \in {"stamp", "mkdir", "after"}
  /\ Goto(p, "failed")
  /\ UNCHANGED <<before, name, own, chosen, dirs>>

Step(p) == \/ ListBefore(p) \/ ReadClock(p) \/ Mkdir(p) \/ Exists(p)
           \/ ListAfter(p)

Done == /\ \A p \in Procs : pc[p] \in {"passed", "failed"}
        /\ UNCHANGED vars

Next == (\E p \in Procs : Step(p) \/ RunFails(p)) \/ Done

Spec     == Init /\ [][Next]_vars
FairSpec == Spec /\ \A p \in Procs : WF_vars(Step(p))
-----------------------------------------------------------------------------
(* Properties.                                                             *)

(* No two runs ever share a directory (docstring of prepare_run_directory),*)
(* even if they start in the same second and try the same names in turn.   *)
NeverShared ==
  \A p, q \in Procs : p # q => own[p] \intersect own[q] = {}

(* A validation that finds a single new directory has found its own run's, *)
(* never that of another run of the same experiment.                       *)
ValidatesItsOwn == \A p \in Procs : pc[p] = "passed" => chosen[p] = own[p]

(* The suffixes of one second have no gap but those there were before: a   *)
(* run takes a suffix only if the smaller ones were taken.                 *)
NoGap ==
  \A p \in Procs : \A d \in own[p] :
    \A k \in 1..(d[2] - 1) : <<d[1], k>> \in dirs

(* The search for a free name ends: each run gets its directory, unless it *)
(* fails for another reason.                                               *)
EveryRunGetsOne == \A p \in Procs : <>(own[p] # {} \/ pc[p] = "failed")

Atomic == INSTANCE Allocation WITH
  phase   <- [p \in Procs |-> CASE pc[p] = "before"               -> "idle"
                                [] pc[p] \in {"passed", "failed"} -> pc[p]
                                [] OTHER                          -> "open"],
  held    <- own,
  taken   <- dirs,
  crowded <- {p \in Procs : /\ pc[p] \in {"stamp", "mkdir", "after"}
                            /\ (dirs \ before[p]) \ own[p] # {}}

(* The search by trial amounts to taking the first free suffix of a second *)
(* in one step, and the comparison of two listings to knowing whether      *)
(* another run has taken a directory in between: whatever the overlap, a   *)
(* validation is refused for that reason only, and then always.            *)
AllocatesAtomically == Atomic!Spec
=============================================================================
