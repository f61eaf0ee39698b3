-------------------------- MODULE RunnerRefinement --------------------------
(***************************************************************************)
(* Runner implements Supervision.  A receiver is dismissed when stop_      *)
(* receivers polls it for the last time; the sender ended well when it     *)
(* exited with code 0 before its time was over.                            *)
(***************************************************************************)
EXTENDS Runner

AbsReceiver(p) == CASE os[p] = "absent"  -> "idle"
                    [] os[p] = "running" -> "up"
                    [] os[p] = "exited"  -> "down"

AbsSender == CASE os[Sender] = "absent"  -> "idle"
               [] os[Sender] = "running" -> "up"
               [] os[Sender] = "exited"  ->
                    IF code[Sender] = "zero" /\ ~late THEN "ok" ELSE "bad"

Abstract == INSTANCE Supervision WITH
  rx        <- [p \in Receivers |-> AbsReceiver(p)],
  tx        <- AbsSender,
  dismissed <- {p \in 1..nrec : ~BeforeShutdownPoll(p)},
  early     <- lost,
  verdict   <- IF pc = "returned" THEN Status ELSE "open"

(* Every behaviour of execute_protocol whose wait for the sender is not    *)
(* cut short is one of the abstract experiment: the sender starts after    *)
(* and ends before every receiver's dismissal, and "success" is only       *)
(* concluded after a clean experiment, the sender's end in time included,  *)
(* with nothing left up.                                                   *)
Supervises == Abstract!Spec
=============================================================================
