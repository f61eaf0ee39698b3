----------------------------- MODULE Executables -----------------------------
(***************************************************************************)
(* bin/receiver and bin/sender, the reference executables, timed by the    *)
(* delays of execute_protocol: receiver_startup_seconds after the receivers*)
(* are spawned the sender is, drain_seconds after it has ended they get    *)
(* SIGTERM, and are then waited for in turn, each for up to                *)
(* shutdown_timeout_seconds and then killed; so is a sender that has not   *)
(* ended with its duration.  The runner's control is module Runner's; here *)
(* is what one of the N receivers, `mine', does meanwhile.  Of the others  *)
(* only the time that collecting them takes matters.  Module Timing puts   *)
(* these actions together and adds what is recorded.                       *)
(*                                                                         *)
(* now counts ticks.  Starting an interpreter, binding and sending take    *)
(* any time; what is waited for happens in the tick it is due: time does   *)
(* not pass a deadline, or a datagram a receiver could read.  The delays   *)
(* are finite; a process that is killed is gone, with what holds its pipes.*)
(***************************************************************************)
EXTENDS Integers

CONSTANTS
  N,           \* number of receivers
  Startup,     \* receiver_startup_seconds
  Durations,   \* the duration_seconds that are tried
  MinWait,     \* the 0.1 s the sender gets when they are over
  Drain,       \* drain_seconds
  Shutdowns,   \* the shutdown_timeout_seconds that are tried
  Poll,        \* the receiver's settimeout(0.5)
  Latency      \* bound on the time a datagram is in flight

ASSUME ExecutablesAssumption ==
  /\ N \in Nat \ {0}
  /\ {Startup, Drain, Latency} \subseteq Nat
  /\ {Poll, MinWait} \subseteq Nat \ {0}
  /\ (Shutdowns \union Durations) \subseteq Nat \ {0}

None == -1

VARIABLES
  now, pc,     \* the clock; what the runner waits for
  due,         \* when the runner's wait is over
  shutdown,    \* shutdown_timeout_seconds
  duration,    \* duration_seconds
  mine, turn,  \* the receiver looked at; the one that finish() is waiting for
  rx, code,    \* receiver `mine': where it is, its exit code
  running,     \* its global of that name
  wake,        \* when its recvfrom times out
  tx,          \* the sender: "absent", "running" or "ended"
  datagram,    \* "none", "flying", "queued" on the receiver's socket, ...
  sentAt,      \* when it was sent, or None
  arrivedAt,   \* when it arrived at a bound socket, or None
  listening    \* history: whether the receiver was in its loop at the send

settings == <<shutdown, duration, mine>>
runner   == <<pc, due, turn, settings>>
receiver == <<rx, code, running, wake>>
packet   == <<tx, listening, datagram, sentAt, arrivedAt>>
vars     == <<now, runner, receiver, packet>>

Codes == {"none", "zero", "error", "sigterm", "sigkill"}

TypeOK ==
  /\ now \in Nat /\ due \in Nat /\ shutdown \in Shutdowns
  /\ duration \in Durations /\ mine \in 1..N /\ turn \in 1..N
  /\ pc \in {"startup", "send", "term", "drain", "stop", "done"}
  /\ rx \in {"boot", "handlers", "receiving", "over"} /\ code \in Codes
  /\ rx = "over" <=> code # "none"
  /\ running \in BOOLEAN /\ wake \in Nat
  /\ tx \in {"absent", "running", "ended"}
  /\ datagram \in {"none", "flying", "queued", "read", "lost"}
  /\ sentAt \in {None} \union 0..now /\ arrivedAt \in {None} \union sentAt..now
  /\ listening \in BOOLEAN

Init ==
  /\ now = 0 /\ pc = "startup" /\ due = Startup
  /\ shutdown \in Shutdowns /\ duration \in Durations
  /\ mine \in 1..N /\ turn = 1
  /\ rx = "boot" /\ code = "none" /\ running = TRUE /\ wake = 0
  /\ tx = "absent" /\ datagram = "none" /\ sentAt = None /\ arrivedAt = None
  /\ listening = FALSE
-----------------------------------------------------------------------------
(* bin/receiver.                                                           *)

\* A process that is gone waits for nothing.
Exit(c) == rx' = "over" /\ code' = c /\ wake' = 0 /\ UNCHANGED running

\* main() up to the two signal() calls, `running = True' before them.
InstallHandlers ==
  /\ rx = "boot" /\ rx' = "handlers"
  /\ UNCHANGED <<now, runner, code, running, wake, packet>>

\* recvfrom, for as long as settimeout() lets it wait.
RecvFor(delay) == rx' = "receiving" /\ wake' = now + delay /\ UNCHANGED <<code, running>>

LoopForEver == RecvFor(Poll)            \* mutant: running is not looked at

LoopWithoutTimeout == IF running THEN RecvFor(-now - 1) ELSE Exit("zero")    \* mutant

\* The head of the loop: `while running', then recvfrom.
Loop == IF running THEN RecvFor(Poll) ELSE Exit("zero")

\* The arguments are checked and the socket bound, or the exit code is not 0.
Bind ==
  /\ rx = "handlers"
  /\ Loop \/ Exit("error")
  /\ UNCHANGED <<now, runner, packet>>

Receive ==
  /\ rx = "receiving" /\ datagram = "queued"
  /\ datagram' = "read"
  /\ Loop
  /\ UNCHANGED <<now, runner, tx, listening, sentAt, arrivedAt>>

\* A signal does not cut the wait short: its handler only clears running.
PollEnds ==
  /\ rx = "receiving" /\ datagram # "queued" /\ now >= wake
  /\ Loop
  /\ UNCHANGED <<now, runner, packet>>

Signal ==
  IF rx = "boot" THEN Exit("sigterm")
  ELSE running' = FALSE /\ UNCHANGED <<rx, code, wake>>
-----------------------------------------------------------------------------
(* The runner's delays, bin/sender and the network between.                *)

Wait(where, delay) == pc' = where /\ due' = now + delay

Larger(a, b) == IF a > b THEN a ELSE b

WholeDuration == Larger(MinWait, duration)       \* mutant

\* duration_seconds counts from the start of execute_protocol, at 0.
Remaining == Larger(MinWait, duration - now)

\* The poll after the startup delay: a live receiver counts as ready.
StartSender ==
  /\ pc = "startup" /\ now >= due /\ rx # "over"
  /\ Wait("send", Remaining) /\ tx' = "running"
  /\ UNCHANGED <<now, turn, settings, receiver, listening, datagram, sentAt, arrivedAt>>

\* One datagram, which the radio may lose.
Send ==
  /\ tx = "running" /\ sentAt = None
  /\ datagram' \in {"flying", "lost"} /\ sentAt' = now
  /\ listening' = (rx = "receiving")
  /\ UNCHANGED <<now, runner, receiver, tx, arrivedAt>>

\* It exits, whether or not it has sent.
ExitSender ==
  /\ tx = "running" /\ tx' = "ended"
  /\ UNCHANGED <<now, runner, receiver, listening, datagram, sentAt, arrivedAt>>

DrainNot == Wait("drain", 0)            \* mutant

StartDrain == Wait("drain", Drain)

\* The timeout: SIGTERM, which ends bin/sender, but not every sender at once.
TimeOut ==
  /\ pc = "send" /\ tx = "running" /\ now >= due
  /\ Wait("term", shutdown)
  /\ UNCHANGED <<now, turn, settings, receiver, packet>>

KillSender ==
  /\ pc = "term" /\ tx = "running" /\ now >= due
  /\ tx' = "ended"
  /\ UNCHANGED <<now, runner, receiver, listening, datagram, sentAt, arrivedAt>>

\* communicate() returns.
FinishSender ==
  /\ pc \in {"send", "term"} /\ tx = "ended"
  /\ StartDrain
  /\ UNCHANGED <<now, turn, settings, receiver, packet>>

\* A datagram nobody has bound its port for is dropped.
Arrive ==
  /\ datagram = "flying"
  /\ datagram' = IF rx = "receiving" THEN "queued" ELSE "lost"
  /\ arrivedAt' = now
  /\ UNCHANGED <<now, runner, receiver, tx, listening, sentAt>>

\* stop_receivers' first loop, and the wait for the first receiver.
StopReceivers ==
  /\ Wait("stop", shutdown) /\ turn' = 1
  /\ IF rx = "over" THEN UNCHANGED receiver ELSE Signal
  /\ UNCHANGED <<now, settings, packet>>

Stop == pc = "drain" /\ now >= due /\ StopReceivers

\* A receiver has exited during startup, or the sender cannot be spawned.
Abandon == pc = "startup" /\ now >= due /\ StopReceivers

\* Its second loop gives the next receiver the whole delay again.
NextReceiver ==
  /\ IF turn < N THEN Wait("stop", shutdown) /\ turn' = turn + 1
     ELSE Wait("done", 0) /\ UNCHANGED turn
  /\ UNCHANGED <<now, settings, packet>>

\* Another receiver exits at any moment of its wait, or is killed at its end.
Collect ==
  /\ pc = "stop" /\ (turn = mine => rx = "over")
  /\ NextReceiver
  /\ UNCHANGED receiver

Kill ==
  /\ pc = "stop" /\ turn = mine /\ rx # "over" /\ now >= due
  /\ NextReceiver /\ Exit("sigkill")

Urgent ==
  \/ pc # "done" /\ now >= due
  \/ pc \in {"send", "term"} /\ tx = "ended"
  \/ pc = "stop" /\ turn = mine /\ rx = "over"
  \/ rx = "receiving" /\ (now >= wake \/ datagram = "queued")
  \/ datagram = "flying" /\ now >= sentAt + Latency

Tick ==
  /\ ~Urgent /\ pc # "done"
  /\ now' = now + 1
  /\ UNCHANGED <<runner, receiver, packet>>
-----------------------------------------------------------------------------
(* Properties.                                                             *)

(* docs: the receiver exits cleanly on SIGTERM.  It does if it had come to *)
(* its loop when the sender had sent and shutdown_timeout_seconds is more  *)
(* than the half second its recvfrom waits: it is not killed, whatever its *)
(* place among the receivers that are waited for in turn.                  *)
ListeningReceiverStopsCleanly ==
  pc = "done" /\ listening /\ shutdown > Poll => code = "zero"

(* A datagram sent to a listening receiver that reaches its node within    *)
(* the drain delay has been read when the receiver ends.                   *)
DrainIsEnough ==
  pc = "done" /\ listening /\ arrivedAt # None /\ arrivedAt < sentAt + Drain
    => datagram = "read"

(* duration_seconds bounds the experiment.  The sender's wait is over that *)
(* long after the start, or its least wait after the startup delay; if it  *)
(* ignores SIGTERM it has the shutdown delay more.  Then come the drain    *)
(* and, as the receivers are waited for in turn, N times the shutdown      *)
(* delay.  The waits add up to no more than this, whenever the sender and  *)
(* the receivers exit and whichever signals they ignore.                   *)
ProtocolEndsInTime ==
  pc = "done" =>
    due <= Larger(duration, Startup + MinWait) + shutdown + Drain + N * shutdown
=============================================================================
