---------------------------- MODULE Supervision ----------------------------
(***************************************************************************)
(* What execute_protocol (scripts/testbed/runner.py) promises run.py when  *)
(* it returns, without its polls, signals, timeouts and records: receivers *)
(* are launched before the sender and dismissed after it, nothing is left  *)
(* up, and the verdict is "success" only after a clean experiment.         *)
(***************************************************************************)
CONSTANT Receivers

VARIABLES
  rx,         \* each receiver: "idle" (never launched), "up" or "down"
  tx,         \* the sender: "idle", "up", "ok" (code 0, in time) or "bad"
  dismissed,  \* receivers whose work is over
  early,      \* receivers that went down before they were dismissed
  verdict     \* "open", "success" or "failed"

vars == <<rx, tx, dismissed, early, verdict>>

Init ==
  /\ rx = [r \in Receivers |-> "idle"]
  /\ tx = "idle"
  /\ dismissed = {} /\ early = {}
  /\ verdict = "open"

Launch(r) ==
  /\ rx[r] = "idle" /\ tx = "idle" /\ dismissed = {} /\ verdict = "open"
  /\ rx' = [rx EXCEPT ![r] = "up"]
  /\ UNCHANGED <<tx, dismissed, early, verdict>>

GoDown(r) ==
  /\ rx[r] = "up"
  /\ rx' = [rx EXCEPT ![r] = "down"]
  /\ early' = IF r \in dismissed THEN early ELSE early \union {r}
  /\ UNCHANGED <<tx, dismissed, verdict>>

StartSender ==
  /\ tx = "idle" /\ dismissed = {} /\ verdict = "open"
  /\ \A r \in Receivers : rx[r] # "idle"
  /\ tx' = "up"
  /\ UNCHANGED <<rx, dismissed, early, verdict>>

EndSender ==
  /\ tx = "up"
  /\ tx' \in {"ok", "bad"}
  /\ UNCHANGED <<rx, dismissed, early, verdict>>

Dismiss(r) ==
  /\ rx[r] # "idle" /\ r \notin dismissed /\ tx # "up"
  /\ dismissed' = dismissed \union {r}
  /\ UNCHANGED <<rx, tx, early, verdict>>

Clean ==
  /\ \A r \in Receivers : rx[r] # "idle"
  /\ early = {}
  /\ tx = "ok"

Conclude ==
  /\ verdict = "open"
  /\ tx # "up" /\ \A r \in Receivers : rx[r] # "up"
  /\ \A r \in Receivers : rx[r] = "down" => r \in dismissed
  /\ verdict' \in {"failed"} \union (IF Clean THEN {"success"} ELSE {})
  /\ UNCHANGED <<rx, tx, dismissed, early>>

Next ==
  \/ \E r \in Receivers : Launch(r) \/ GoDown(r) \/ Dismiss(r)
  \/ StartSender \/ EndSender \/ Conclude

Spec == Init /\ [][Next]_vars
=============================================================================
