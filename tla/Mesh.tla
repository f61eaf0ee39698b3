-------------------------------- MODULE Mesh --------------------------------
(***************************************************************************)
(* wait_for_network in scripts/testbed/network.py: the sender pings each   *)
(* receiver until every one has answered or a deadline is found to have    *)
(* passed, then the neighbour caches the pings filled are flushed on every *)
(* node.  The mesh is not under the testbed's control: a receiver comes    *)
(* into reach and leaves it at any time, and packets get lost.             *)
(*                                                                         *)
(* Time is counted in units of the clock time.monotonic, whose start is 0; *)
(* a ping takes up to PingWait of them, whether it is answered or not.     *)
(* The timeout is any number config.py accepts for the field.  `elapsed >= *)
(* timeout' is never true of an infinity or a NaN, and the clock is not    *)
(* counted when it is compared with one of these.                          *)
(***************************************************************************)
EXTENDS Values

CONSTANTS
  N,          \* number of receivers
  Seconds,    \* the finite network_ready_timeout_seconds that are tried
  PingWait,   \* ping -W 1
  Pause       \* _READY_POLL_SECONDS

ASSUME MeshAssumption ==
  /\ N \in Nat \ {0}
  /\ Seconds \subseteq Int /\ PingWait \in Nat \ {0} /\ Pause \in Nat \ {0}

Sender    == 0
Receivers == 1..N
Nodes     == 0..N

VARIABLES
  pc, i,      \* "ping" receiver i, "check" the deadline, "flush" node i, end
  pending,    \* receivers that have not answered
  timeout,    \* config["experiment"]["network_ready_timeout_seconds"]
  now,        \* seconds since the start
  reachable,  \* receivers the sender reaches at the moment
  answered,   \* history: receivers that have answered a ping
  arp,        \* nodes with a neighbour entry that a ping created
  unflushed   \* history: nodes whose ip neigh flush failed

vars == <<pc, i, pending, timeout, now, reachable, answered, arp, unflushed>>

\* load_config lets the value through to float(), which keeps it.
Accepts(v) == PositiveFloat(v) = "ok"

Accepted == {v \in {Num(n) : n \in Seconds} \union {Inf, NegInf, NaN, Huge, Null} :
               Accepts(v)}

Finite(v) == v.type = "int"

TypeOK ==
  /\ pc \in {"ping", "check", "flush", "ready", "failed"}
  /\ i \in Nodes
  /\ pending \subseteq Receivers
  /\ timeout \in Accepted /\ now \in Nat
  /\ reachable \subseteq Receivers
  /\ answered \subseteq Receivers
  /\ arp \subseteq Nodes /\ unflushed \subseteq Nodes

Init ==
  /\ pc = "ping" /\ i = 1
  /\ pending = Receivers
  /\ timeout \in Accepted /\ now = 0
  /\ reachable \in SUBSET Receivers
  /\ answered = {} /\ arp = {} /\ unflushed = {}

Spend(d) == now' = IF Finite(timeout) THEN now + d ELSE now

\* time.monotonic() - start >= timeout
Late == Finite(timeout) /\ now >= timeout.num

Goto(where, n) == pc' = where /\ i' = n

NextPingPastEnd == IF i <= N THEN Goto("ping", i + 1)    \* mutant
                   ELSE Goto("check", 0)

\* The next receiver of the round, or the end of the round.
NextPing == IF i < N THEN Goto("ping", i + 1) ELSE Goto("check", 0)

Answered ==
  /\ pc = "ping" /\ i \in pending /\ i \in reachable
  /\ pending' = pending \ {i}
  /\ answered' = answered \union {i}
  /\ arp' = arp \union {Sender, i}
  /\ NextPing
  /\ \E d \in 0..PingWait : Spend(d)
  /\ UNCHANGED <<timeout, reachable, unflushed>>

\* No echo reply in time: unreachable, or the request or the reply was lost.
NotAnswered ==
  /\ pc = "ping" /\ i \in pending
  /\ arp' \in {arp, arp \union {Sender, i}}
  /\ i \notin reachable => arp' = arp
  /\ NextPing
  /\ \E d \in 0..PingWait : Spend(d)
  /\ UNCHANGED <<timeout, pending, reachable, answered, unflushed>>

AlreadyAnswered ==
  /\ pc = "ping" /\ i \notin pending
  /\ NextPing
  /\ UNCHANGED <<timeout, pending, now, reachable, answered, arp, unflushed>>

FlushReceivers ==                       \* mutant: not on the sender's node
  /\ pc = "check" /\ pending = {}
  /\ Goto("flush", 1)
  /\ UNCHANGED <<timeout, pending, now, reachable, answered, arp, unflushed>>

\* Readiness is tested before the deadline, and the deadline only here.
AllAnswered ==
  /\ pc = "check" /\ pending = {}
  /\ Goto("flush", 0)
  /\ UNCHANGED <<timeout, pending, now, reachable, answered, arp, unflushed>>

NotReady ==
  /\ pc = "check" /\ pending # {} /\ Late
  /\ Goto("failed", 0)
  /\ UNCHANGED <<timeout, pending, now, reachable, answered, arp, unflushed>>

SleepAnyway ==                          \* mutant: the deadline is forgotten
  /\ pc = "check" /\ pending # {}
  /\ Spend(Pause)
  /\ Goto("ping", 1)
  /\ UNCHANGED <<timeout, pending, reachable, answered, arp, unflushed>>

SleepAndRestart ==                      \* mutant: start is read in the loop
  /\ pc = "check" /\ pending # {} /\ ~Late
  /\ now' = 0
  /\ Goto("ping", 1)
  /\ UNCHANGED <<timeout, pending, reachable, answered, arp, unflushed>>

Sleep ==
  /\ pc = "check" /\ pending # {} /\ ~Late
  /\ Spend(Pause)
  /\ Goto("ping", 1)
  /\ UNCHANGED <<timeout, pending, reachable, answered, arp, unflushed>>

\* The outcome of the command is not looked at: where it fails, what the pings
\* left stays.
Flush ==
  /\ pc = "flush"
  /\ \/ arp' = arp \ {i} /\ UNCHANGED unflushed
     \/ unflushed' = unflushed \union {i} /\ UNCHANGED arp
  /\ IF i < N THEN Goto("flush", i + 1) ELSE Goto("ready", 0)
  /\ UNCHANGED <<timeout, pending, now, reachable, answered>>

\* A receiver enters or leaves the sender's reach over the mesh.
Move ==
  /\ \E r \in Receivers :
       reachable' = IF r \in reachable THEN reachable \ {r}
                    ELSE reachable \union {r}
  /\ UNCHANGED <<timeout, pc, i, pending, now, answered, arp, unflushed>>

Step == \/ Answered \/ NotAnswered \/ AlreadyAnswered
        \/ AllAnswered \/ NotReady \/ Sleep \/ Flush

Next == Step \/ Move

Spec     == Init /\ [][Next]_vars
FairSpec == Spec /\ WF_vars(Step)
-----------------------------------------------------------------------------
(* Properties.                                                             *)

(* wait_for_network returns only after every receiver has answered a ping, *)
(* and with no neighbour entry of those pings left on any node but those   *)
(* whose ip neigh flush failed, which nobody looks at: every other node's  *)
(* cache, the sender's included, is as the protocol needs it.  Its error   *)
(* names exactly the receivers that never answered, and is not raised      *)
(* before the deadline.                                                    *)
AnswerIsRight ==
  /\ pc = "ready" => answered = Receivers /\ arp \subseteq unflushed
  /\ pc = "failed" => pending # {} /\ pending = Receivers \ answered /\ Late

(* The wait overruns a finite deadline by at most one pause and one round  *)
(* of pings, however many receivers are silent.                            *)
BoundedWait == Finite(timeout) => now < timeout.num + Pause + N * PingWait

(* A receiver that comes into and out of reach does not keep the wait      *)
(* going for ever: with a finite timeout it ends, ready or not, and with   *)
(* any accepted one it ends if from some moment on every ping is answered. *)
Terminates ==
  Finite(timeout) \/ <>[][~NotAnswered]_vars => <>(pc \in {"ready", "failed"})

(* docs/DECISOES.md, D3: if they do not answer within                      *)
(* network_ready_timeout_seconds, the run fails and no protocol process is *)
(* started.  .nan and .inf pass for numbers greater than zero, and the     *)
(* wait for a silent receiver has no end.                                  *)
SilenceEndsTheWait == <>(pc \in {"ready", "failed"})
=============================================================================
