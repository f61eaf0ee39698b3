----------------------------- MODULE Allocation -----------------------------
(***************************************************************************)
(* What prepare_run_directory (scripts/testbed/rundir.py) and run_scenario *)
(* (scripts/validate_scenario.py) promise the validations that share an    *)
(* experiment, without clocks, listings and tries: each run takes, in one  *)
(* step, the first free suffix of some time stamp, and a validation passes *)
(* exactly when no other run has taken a directory while it was open.      *)
(***************************************************************************)
EXTENDS Integers, FiniteSets

CONSTANTS Procs, Stamps

VARIABLES
  phase,    \* of each validation: "idle", "open", "passed" or "failed"
  held,     \* the directory its run has taken, as a set of at most one
  taken,    \* the directories of the experiment
  crowded   \* open validations during which another run has taken one

vars == <<phase, held, taken, crowded>>

Init ==
  /\ phase = [p \in Procs |-> "idle"]
  /\ held = [p \in Procs |-> {}]
  /\ taken \subseteq Stamps \X (Nat \ {0}) /\ IsFiniteSet(taken)
  /\ crowded = {}

Begin(p) ==
  /\ phase[p] = "idle"
  /\ phase' = [phase EXCEPT ![p] = "open"]
  /\ UNCHANGED <<held, taken, crowded>>

IsFirstFree(d) ==
  d \notin taken /\ \A k \in 1..(d[2] - 1) : <<d[1], k>> \in taken

\* With n directories there, one of the first n + 1 suffixes is free.
Suffixes == 1..(Cardinality(taken) + 1)

Take(p) ==
  /\ phase[p] = "open" /\ held[p] = {}
  /\ \E d \in Stamps \X Suffixes :
       /\ IsFirstFree(d)
       /\ held' = [held EXCEPT ![p] = {d}]
       /\ taken' = taken \union {d}
  /\ crowded' = crowded \union {q \in Procs \ {p} : phase[q] = "open"}
  /\ UNCHANGED phase

Close(p, verdict) ==
  /\ phase[p] = "open"
  /\ phase' = [phase EXCEPT ![p] = verdict]
  /\ crowded' = crowded \ {p}
  /\ UNCHANGED <<held, taken>>

Judge(p) == held[p] # {} /\ Close(p, IF p \in crowded THEN "failed" ELSE "passed")

RunFails(p) == Close(p, "failed")

Next == \E p \in Procs : Begin(p) \/ Take(p) \/ Judge(p) \/ RunFails(p)

Spec == Init /\ [][Next]_vars
=============================================================================
