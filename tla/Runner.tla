------------------------------- MODULE Runner -------------------------------
(***************************************************************************)
(* scripts/testbed/runner.py: execute_protocol starts the receivers of an  *)
(* experiment, then its sender, waits for the sender, and stops the        *)
(* receivers in a `finally' block (stop_receivers).                        *)
(*                                                                         *)
(* The runner is one sequential thread; pc is the statement it is about to *)
(* execute and idx the position of its `for' loop.  It observes the        *)
(* processes it started only through poll, terminate, kill and             *)
(* communicate of their Popen objects, while the operating system runs     *)
(* them: a process may exit by itself, obey or ignore SIGTERM, and exit    *)
(* between any two statements of the runner.  A KeyboardInterrupt may      *)
(* arrive between any two statements too.                                  *)
(*                                                                         *)
(* Time is abstracted: a timeout may expire whenever what it waits for has *)
(* not happened.  A delay that is no finite number of seconds, which       *)
(* config.py accepts (.inf, .nan), makes the wait for it raise.  Names,    *)
(* commands, stdout and durations are left out.                            *)
(***************************************************************************)
EXTENDS Integers

CONSTANTS
  N,             \* number of receivers, len(config["protocol"]["receivers"])
  Binary,        \* processes whose output is not text in the host's encoding
  Daemons,       \* processes that may leave a descendant holding their pipes
  Endless,       \* delays of the experiment that may be no finite number
  MayInterrupt   \* whether a KeyboardInterrupt may reach the runner, once

Sender    == 0
Receivers == 1..N
Procs     == {Sender} \union Receivers
Delays    == {"startup", "duration", "shutdown", "drain"}

ASSUME RunnerAssumption ==
  /\ N \in Nat \ {0}
  /\ Binary \subseteq Procs
  /\ Daemons \subseteq Procs
  /\ Endless \subseteq Delays
  /\ MayInterrupt \in BOOLEAN

None  == "none"
\* Return codes: 0, positive, -SIGTERM, -SIGKILL.
Codes == {"zero", "error", "sigterm", "sigkill"}

VARIABLES
  pc, idx,      \* the runner's next statement, its loop's position
  nrec,         \* len(receiver_records); receiver i is record i
  exitCode,     \* exit_code of each ProcessRecord
  ended,        \* whether ended_at of each ProcessRecord is set
  failures,     \* the list failures, as a set of <<what, process>>
  raising,      \* whether an exception is propagating through `finally'
  interrupted,  \* whether the KeyboardInterrupt has happened
  endless,      \* the delays of this experiment that are no finite number
  os, code,     \* each process and its return code, as the system has them
  term, kill,   \* SIGTERM and SIGKILL delivered while it was running
  held,         \* exited processes whose pipes a descendant keeps open
  lost,         \* history: receivers that exited before the shutdown poll
  late          \* history: the sender was running when its time was over

records == <<nrec, exitCode, ended>>
control == <<pc, idx, raising>>
outside == <<interrupted, endless>>
system  == <<os, code, term, kill, held, lost, late>>
vars    == <<control, records, failures, outside, system>>

TryPoints     == {"start_receiver", "check", "start_sender", "send",
                  "terminate_sender", "send_term", "kill_sender", "send_kill",
                  "drain"}
FinallyPoints == {"poll", "terminate", "finish", "kill", "reap"}
FinalPoints   == {"returned", "raised"}

Kinds == {"spawn", "startup", "unexpected", "timeout", "exit"}

TypeOK ==
  /\ pc \in TryPoints \union FinallyPoints \union FinalPoints
  /\ idx \in Receivers
  /\ nrec \in 0..N
  /\ exitCode \in [Procs -> Codes \union {None}]
  /\ ended \in [Procs -> BOOLEAN]
  /\ failures \subseteq Kinds \X Procs
  /\ raising \in BOOLEAN
  /\ interrupted \in BOOLEAN /\ endless \subseteq Endless
  /\ os \in [Procs -> {"absent", "running", "exited"}]
  /\ code \in [Procs -> Codes \union {None}]
  /\ term \in [Procs -> BOOLEAN]
  /\ kill \in [Procs -> BOOLEAN]
  /\ held \subseteq Procs
  /\ lost \subseteq Receivers /\ late \in BOOLEAN

Init ==
  /\ pc = "start_receiver" /\ idx = 1
  /\ nrec = 0
  /\ exitCode = [p \in Procs |-> None]
  /\ ended = [p \in Procs |-> FALSE]
  /\ failures = {}
  /\ raising = FALSE /\ interrupted = FALSE /\ endless \in SUBSET Endless
  /\ os = [p \in Procs |-> "absent"]
  /\ code = [p \in Procs |-> None]
  /\ term = [p \in Procs |-> FALSE]
  /\ kill = [p \in Procs |-> FALSE]
  /\ held = {} /\ lost = {} /\ late = FALSE
-----------------------------------------------------------------------------
(* What the runner does to a process and learns from it.                   *)

Spawned(p) == os[p] # "absent"

\* communicate() returns once the process has exited and its pipes are closed.
Over(p) == os[p] = "exited" /\ p \notin held

Spawn(p) ==
  /\ os' = [os EXCEPT ![p] = "running"]
  /\ UNCHANGED <<code, term, kill, held, lost, late>>

\* Popen.terminate and Popen.kill do nothing to a process that has exited.
Terminate(p) ==
  /\ term' = [term EXCEPT ![p] = @ \/ os[p] = "running"]
  /\ UNCHANGED <<os, code, kill, held, lost, late>>

KillIgnored(p) == Terminate(p)          \* mutant: terminate() once more

Kill(p) ==
  /\ kill' = [kill EXCEPT ![p] = @ \/ os[p] = "running"]
  /\ UNCHANGED <<os, code, term, held, lost, late>>

\* ProcessRecord.finish, once communicate() has returned.
Collect(p) ==
  /\ exitCode' = [exitCode EXCEPT ![p] = code[p]]
  /\ ended' = [ended EXCEPT ![p] = TRUE]
  /\ UNCHANGED nrec

FlagNothing(p) == UNCHANGED exitCode    \* mutant

\* The startup check stores the exit code it found.
Flag(p) == exitCode' = [exitCode EXCEPT ![p] = code[p]]

Fail(what, p) == failures' = failures \union {<<what, p>>}

Status == IF failures = {} THEN "success" ELSE "failed"
-----------------------------------------------------------------------------
(* Control flow.                                                           *)

Goto(where, i) == pc' = where /\ idx' = i

\* The end of stop_receivers: execute_protocol returns, or re-raises.
Leave(exc) == IF exc THEN "raised" ELSE "returned"

EnterNoFinally(n, exc) ==               \* mutant: not in a `finally' block
  /\ raising' = exc
  /\ Goto(IF n = 0 \/ exc THEN Leave(exc) ELSE "poll", 1)

\* Enter the `finally' block with n records, an exception pending or not.
EnterFinally(n, exc) ==
  /\ raising' = exc
  /\ Goto(IF n = 0 THEN Leave(exc) ELSE "poll", 1)

NextRecordPastEnd(loop, after) ==       \* mutant
  IF idx <= nrec THEN Goto(loop, idx + 1) ELSE Goto(after, 1)

\* The next iteration of a loop over the records, or what follows the loop.
NextRecord(loop, after) ==
  IF idx < nrec THEN Goto(loop, idx + 1) ELSE Goto(after, 1)
-----------------------------------------------------------------------------
(* The waits.                                                              *)

\* time.sleep and communicate(timeout=...) raise OverflowError or ValueError
\* for a delay that is no finite number.  (A duration_seconds of .nan is no
\* such delay: the sender gets 0.1 s; nor is a drain_seconds of .nan: none.)
Waits ==
  \/ pc = "check" /\ "startup" \notin endless
  \/ pc = "send" /\ "duration" \notin endless
  \/ pc \in {"send_term", "finish"} /\ "shutdown" \notin endless
  \/ pc = "drain" /\ "drain" \notin endless
  \/ pc \in {"send_kill", "reap"}        \* finish(timeout=None)

WaitRaises ==
  /\ pc \in {"check", "send", "send_term", "drain", "finish"} /\ ~Waits
  /\ IF pc = "finish" THEN raising' = TRUE /\ Goto("raised", 1)
     ELSE EnterFinally(nrec, TRUE)
  /\ UNCHANGED <<records, failures, outside, system>>
-----------------------------------------------------------------------------
(* The `try' block.                                                        *)

StartReceiver ==
  /\ pc = "start_receiver"
  /\ Spawn(idx)
  /\ nrec' = nrec + 1
  /\ IF idx < N THEN Goto("start_receiver", idx + 1) ELSE Goto("check", 1)
  /\ UNCHANGED <<exitCode, ended, failures, raising, outside>>

ReceiverSpawnFails ==
  /\ pc = "start_receiver"
  /\ Fail("spawn", idx)
  /\ EnterFinally(nrec, FALSE)
  /\ UNCHANGED <<records, outside, system>>

\* The poll of one receiver after the startup sleep; the sender starts only
\* when no poll of the loop found a dead receiver.
CheckReceiver ==
  /\ pc = "check" /\ Waits
  /\ IF os[idx] = "exited"
     THEN Flag(idx) /\ Fail("startup", idx)
     ELSE UNCHANGED <<exitCode, failures>>
  /\ IF idx < nrec THEN Goto("check", idx + 1) /\ UNCHANGED raising
     ELSE IF failures' = {} THEN Goto("start_sender", 1) /\ UNCHANGED raising
     ELSE EnterFinally(nrec, FALSE)
  /\ UNCHANGED <<nrec, ended, outside, system>>

StartSender ==
  /\ pc = "start_sender"
  /\ Spawn(Sender)
  /\ Goto("send", 1)
  /\ UNCHANGED <<raising, records, failures, outside>>

SenderSpawnFails ==
  /\ pc = "start_sender"
  /\ Fail("spawn", Sender)
  /\ EnterFinally(nrec, FALSE)
  /\ UNCHANGED <<records, outside, system>>

JudgeExitOnly ==                        \* mutant: no failure for a timeout
  IF pc = "send" /\ code[Sender] # "zero" THEN Fail("exit", Sender)
  ELSE UNCHANGED failures

JudgeBySignal ==                        \* mutant: late only if SIGTERM ended it
  IF pc # "send" /\ term[Sender] THEN Fail("timeout", Sender)
  ELSE IF code[Sender] # "zero" THEN Fail("exit", Sender)
  ELSE UNCHANGED failures

JudgeSender ==
  IF pc # "send" THEN Fail("timeout", Sender)
  ELSE IF code[Sender] # "zero" THEN Fail("exit", Sender)
  ELSE UNCHANGED failures

\* finish(timeout=remaining), finish(shutdown_timeout) or finish(None) returns.
SenderFinishes ==
  /\ pc \in {"send", "send_term", "send_kill"} /\ Waits
  /\ Over(Sender) /\ Sender \notin Binary
  /\ Collect(Sender)
  /\ JudgeSender
  /\ Goto("drain", 1)
  /\ UNCHANGED <<raising, outside, system>>

\* communicate() waits for the process, then decodes its output strictly
\* (text=True): UnicodeDecodeError, which no handler here expects.
SenderOutputRaises ==
  /\ pc \in {"send", "send_term", "send_kill"} /\ Waits
  /\ Over(Sender) /\ Sender \in Binary
  /\ EnterFinally(nrec, TRUE)
  /\ UNCHANGED <<records, failures, outside, system>>

\* TimeoutExpired ...
SenderTimesOut ==
  /\ Waits /\ ~Over(Sender)
  /\ \/ /\ pc = "send" /\ Goto("terminate_sender", 1)
        /\ late' = (os[Sender] = "running")
     \/ pc = "send_term" /\ Goto("kill_sender", 1) /\ UNCHANGED late
  /\ UNCHANGED <<raising, records, failures, outside,
                 os, code, term, kill, held, lost>>

TerminateAndGoOn ==                     \* mutant: no finish() after terminate()
  /\ pc = "terminate_sender"
  /\ Terminate(Sender) /\ Goto("drain", 1)
  /\ UNCHANGED <<raising, records, failures, outside>>

\* ... then terminate, by when the sender may have exited by itself ...
TerminateSender ==
  /\ pc = "terminate_sender"
  /\ Terminate(Sender) /\ Goto("send_term", 1)
  /\ UNCHANGED <<raising, records, failures, outside>>

\* ... or, the second time, kill.
KillSender ==
  /\ pc = "kill_sender"
  /\ Kill(Sender) /\ Goto("send_kill", 1)
  /\ UNCHANGED <<raising, records, failures, outside>>

Drain ==
  /\ pc = "drain" /\ Waits
  /\ EnterFinally(nrec, FALSE)
  /\ UNCHANGED <<records, failures, outside, system>>
-----------------------------------------------------------------------------
(* The `finally' block: stop_receivers.                                    *)

\* First pass: poll ...
PollReceiver ==
  /\ pc = "poll"
  /\ IF exitCode[idx] # None THEN NextRecord("poll", "finish") /\ UNCHANGED failures
     ELSE IF os[idx] = "exited" THEN /\ Fail("unexpected", idx)
                                     /\ NextRecord("poll", "finish")
     ELSE Goto("terminate", idx) /\ UNCHANGED failures
  /\ UNCHANGED <<raising, records, outside, system>>

\* ... then terminate, by when the receiver may have exited.
TerminateReceiver ==
  /\ pc = "terminate"
  /\ Terminate(idx)
  /\ NextRecord("poll", "finish")
  /\ UNCHANGED <<raising, records, failures, outside>>

\* Second pass: finish(timeout), or finish(None) after a kill.  No receiver's
\* ended_at is set before, so the `continue' of this loop is never taken.
FinishReceiver ==
  /\ pc \in {"finish", "reap"} /\ Waits
  /\ Over(idx) /\ idx \notin Binary
  /\ Collect(idx)
  /\ NextRecord("finish", Leave(raising))
  /\ UNCHANGED <<raising, failures, outside, system>>

ReceiverOutputRaises ==
  /\ pc \in {"finish", "reap"} /\ Waits
  /\ Over(idx) /\ idx \in Binary
  /\ raising' = TRUE /\ Goto("raised", 1)
  /\ UNCHANGED <<records, failures, outside, system>>

ReceiverTimesOut ==
  /\ pc = "finish" /\ Waits
  /\ ~Over(idx)
  /\ Goto("kill", idx)
  /\ UNCHANGED <<raising, records, failures, outside, system>>

KillAndForget ==                        \* mutant: no finish() after kill()
  /\ pc = "kill"
  /\ Kill(idx)
  /\ NextRecord("finish", Leave(raising))
  /\ UNCHANGED <<raising, records, failures, outside>>

KillReceiver ==
  /\ pc = "kill"
  /\ Kill(idx)
  /\ Goto("reap", idx)
  /\ UNCHANGED <<raising, records, failures, outside>>

Interrupt ==
  /\ MayInterrupt /\ ~interrupted
  /\ interrupted' = TRUE
  /\ \/ pc \in TryPoints /\ EnterFinally(nrec, TRUE)
     \/ pc \in FinallyPoints /\ raising' = TRUE /\ Goto("raised", 1)
  /\ UNCHANGED <<records, failures, endless, system>>
-----------------------------------------------------------------------------
(* The operating system.                                                   *)

\* Whether receiver p has still to be polled by the first pass of the shutdown.
BeforeShutdownPoll(p) ==
  \/ pc \in TryPoints
  \/ pc = "poll" /\ idx <= p
  \/ pc = "terminate" /\ idx < p

\* A process exits: by itself or in its SIGTERM handler with a code of its
\* own, or because of a signal that has reached it.
Exit(p, c) ==
  /\ os[p] = "running"
  /\ c = "sigterm" => term[p]
  /\ c = "sigkill" => kill[p]
  /\ os' = [os EXCEPT ![p] = "exited"]
  /\ code' = [code EXCEPT ![p] = c]
  /\ held' \in {held} \union (IF p \in Daemons THEN {held \union {p}} ELSE {})
  /\ lost' = IF p \in Receivers /\ BeforeShutdownPoll(p)
             THEN lost \union {p} ELSE lost
  /\ UNCHANGED <<control, records, failures, outside, term, kill, late>>

\* The descendant that kept the pipes of p open closes them.
Release(p) ==
  /\ p \in held
  /\ held' = held \ {p}
  /\ UNCHANGED <<control, records, failures, outside,
                 os, code, term, kill, lost, late>>

Try == \/ StartReceiver \/ ReceiverSpawnFails \/ CheckReceiver
       \/ StartSender \/ SenderSpawnFails
       \/ SenderFinishes \/ SenderOutputRaises
       \/ SenderTimesOut \/ TerminateSender \/ KillSender \/ Drain

Finally == \/ PollReceiver \/ TerminateReceiver
           \/ FinishReceiver \/ ReceiverOutputRaises
           \/ ReceiverTimesOut \/ KillReceiver

Step == Try \/ Finally \/ WaitRaises

Done == pc \in FinalPoints /\ UNCHANGED vars

Next ==
  \/ Step
  \/ Interrupt
  \/ \E p \in Procs, c \in Codes : Exit(p, c)
  \/ \E p \in Procs : Release(p)
  \/ Done

\* The runner's thread is scheduled and its timeouts expire; SIGKILL works.
\* Nothing obliges a process to exit by itself or to obey SIGTERM.
Fairness ==
  /\ WF_vars(Step)
  /\ \A p \in Procs : WF_vars(Exit(p, "sigkill"))

Spec     == Init /\ [][Next]_vars
FairSpec == Spec /\ Fairness
-----------------------------------------------------------------------------
(* Properties.                                                             *)

Reported(p) == {k \in {"startup", "unexpected"} : <<k, p>> \in failures}

(* When execute_protocol returns, a receiver is named by exactly one       *)
(* failure of the startup check or of the shutdown poll if it exited       *)
(* before the runner got to that poll, and by none otherwise: the          *)
(* exit_code the startup check stores is what keeps stop_receivers from    *)
(* reporting it again.                                                     *)
EveryLossReportedOnce ==
  pc = "returned" =>
    \A p \in Receivers :
      \/ p \in lost /\ \E k \in {"startup", "unexpected"} : Reported(p) = {k}
      \/ p \notin lost /\ Reported(p) = {}

(* The status "success" means that every receiver was started and alive    *)
(* until its shutdown poll, and that the sender exited with code 0 within  *)
(* its time: not after its timeout had expired, not even if it did so      *)
(* before SIGTERM could reach it.                                          *)
SuccessIsClean ==
  pc = "returned" /\ Status = "success" =>
    /\ nrec = N
    /\ lost = {}
    /\ ended[Sender] /\ exitCode[Sender] = "zero"
    /\ ~late /\ ~term[Sender] /\ ~kill[Sender]

(* A receiver the runner signals is never reported as a failure of its own *)
(* (docstring of stop_receivers: a controlled shutdown is not a failure),  *)
(* not even when it has to be killed.                                      *)
ControlledStopIsNoFailure ==
  \A p \in Receivers : term[p] \/ kill[p] => Reported(p) = {}

(* When execute_protocol returns normally, each process it ever started    *)
(* has exited and been collected: no orphan and no zombie is left to the   *)
(* cleanup of run.py, which could not reach it through the container.      *)
NothingLeft ==
  pc = "returned" =>
    \A p \in Procs : Spawned(p) => os[p] = "exited" /\ ended[p]

(* An exception in the `try' block, of the sender's output or of a wait    *)
(* for a delay that is no finite number, the sender's own included, skips  *)
(* no part of the receivers' shutdown: each receiver before the first      *)
(* whose output raises in stop_receivers has exited and its record is      *)
(* complete when execute_protocol is left, normally or not.  Only if       *)
(* shutdown_timeout_seconds is no finite number are they not collected.    *)
ReceiversCollected ==
  pc \in FinalPoints /\ ~interrupted /\ "shutdown" \notin endless =>
    \A p \in Receivers :
      Spawned(p) /\ (1..p) \intersect Binary = {} => os[p] = "exited" /\ ended[p]

(* No receiver is signalled while the sender runs, so what the sender      *)
(* sends until it exits finds the receivers listening, unless the wait for *)
(* the sender was cut short by an interrupt or raised itself.              *)
CutShort == interrupted \/ endless \intersect {"duration", "shutdown"} # {}

SenderFirst ==
  [][ \A p \in Receivers :
        (term'[p] /\ ~term[p]) \/ (kill'[p] /\ ~kill[p])
          => os[Sender] # "running" \/ CutShort ]_vars

(* execute_protocol ends, whatever the processes do with SIGTERM, but for  *)
(* one case: the finish() after a kill() has no timeout, and waits for     *)
(* ever if a descendant of that process, though it has exited, keeps its   *)
(* pipes open.  A descendant of any other process is outlasted.            *)
WaitsForPipes ==
  LET awaited == IF pc = "send_kill" THEN Sender ELSE idx
  IN  pc \in {"send_kill", "reap"} /\ os[awaited] = "exited" /\ awaited \in held

Terminates == <>(pc \in FinalPoints) \/ <>[]WaitsForPipes

(* docs/RELATORIO_TECNICO.md: an exit requested by the runner is not a     *)
(* failure, a spontaneous one is.  A receiver that exits between the       *)
(* shutdown poll and terminate() is neither signalled nor reported.        *)
SpontaneousExitIsFailure ==
  pc = "returned" =>
    \A p \in Receivers :
      os[p] = "exited" /\ ~term[p] /\ ~kill[p] => Reported(p) # {}

(* bin/BIN_INTERFACE.md: the testbed does not interpret the messages the   *)
(* processes print, so what they print cannot make it raise.               *)
OutputNeverRaises == pc # "raised"

=============================================================================
