------------------------------- MODULE Capture -------------------------------
(***************************************************************************)
(* scripts/testbed/metrics.py: one tcpdump per participant (Capture), all  *)
(* of them started and stopped together (CaptureSet), as run.py uses them: *)
(* start_capture before the protocol, CaptureSet.stop in the stop_capture  *)
(* phase, and once more in run.py's `finally' block if that phase, or the  *)
(* protocol, raised.                                                       *)
(*                                                                         *)
(* pc is the next statement, i the capture it is about, and caller says    *)
(* which of the four calls of CaptureSet.stop is being executed.  A        *)
(* tcpdump is a process of the operating system: it may die or hang at any *)
(* moment.  Opening the file, starting tcpdump, the protocol, and reading  *)
(* the PCAP back may raise; MaxFaults bounds how often in one run.  A poll *)
(* and the signal that follows it are one step.                            *)
(***************************************************************************)
EXTENDS Integers

CONSTANTS M,          \* number of captures; capture 1 is the sender's
          MaxFaults   \* bound on the exceptions of one run

ASSUME CaptureAssumption == M \in Nat \ {0} /\ MaxFaults \in Nat

Captures == 1..M
None     == "none"
Callers  == {"dead", "except", "stop_capture", "cleanup"}
Signals  == {"INT", "TERM", "KILL"}
\* What a Capture's stop() found: the sender's packets, or why it is invalid.
Verdicts == {"observed", "not_observed",
             "not_started", "unexpected_exit", "unreadable"}

VARIABLES
  pc, i, caller,
  dead,        \* whether the startup poll found a dead tcpdump
  unexpected,  \* unexpected_exit of the Capture being stopped
  result,      \* _result of each Capture
  setResult,   \* _result of the CaptureSet
  file,        \* _pcap_file of each Capture
  outcome,     \* what run.py gets: a measurement, or a phase that failed
  tcpdump,     \* each process, as the system has it
  signalled,   \* signals delivered to it while it was running
  faults,      \* exceptions so far
  early        \* history: exited before its last poll, see PollsToCome

control == <<pc, i, caller, dead, unexpected, outcome>>
objects == <<result, setResult, file>>
system  == <<tcpdump, signalled, early>>
vars    == <<control, objects, system, faults>>

Points == {"start", "check", "protocol", "stop", "wait_int", "wait_term",
           "wait_kill", "analyse", "done"}

TypeOK ==
  /\ pc \in Points
  /\ i \in Captures
  /\ caller \in Callers \union {None}
  /\ dead \in BOOLEAN
  /\ unexpected \in BOOLEAN
  /\ result \in [Captures -> Verdicts \union {None}]
  /\ setResult \in {None, "valid", "invalid"}
  /\ file \in [Captures -> {None, "open", "closed"}]
  /\ outcome \in {None, "measured", "aborted", "not_started"}
  /\ tcpdump \in [Captures -> {"absent", "running", "exited"}]
  /\ signalled \in [Captures -> SUBSET Signals]
  /\ faults \in 0..MaxFaults
  /\ early \subseteq Captures

Init ==
  /\ pc = "start" /\ i = 1 /\ caller = None
  /\ dead = FALSE /\ unexpected = FALSE /\ outcome = None
  /\ result = [c \in Captures |-> None]
  /\ setResult = None
  /\ file = [c \in Captures |-> None]
  /\ tcpdump = [c \in Captures |-> "absent"]
  /\ signalled = [c \in Captures |-> {}]
  /\ early = {}
  /\ faults = 0
-----------------------------------------------------------------------------
(* Control flow.                                                           *)

Goto(where, c) == pc' = where /\ i' = c

LastPlusOne == i > M                    \* mutant

\* The last iteration of a loop over the captures.
Last == i = M

Fault == faults < MaxFaults /\ faults' = faults + 1

Finish(what) == Goto("done", 1) /\ caller' = None /\ outcome' = what

\* A call of CaptureSet.stop by `who', which tries its captures in order.
CallStop(who) == Goto("stop", 1) /\ caller' = who /\ UNCHANGED outcome

RaisesOnce ==                           \* mutant: capture = None first
  IF caller \in {"dead", "except"} THEN Finish("not_started") ELSE Finish("aborted")

RetryPublished ==                       \* mutant: the phase itself retries
  CASE caller = "dead"         -> CallStop("except")
    [] caller = "except"       -> Finish("not_started")
    [] caller = "stop_capture" -> CallStop("stop_capture")
    [] caller = "cleanup"      -> Finish("aborted")

\* CaptureSet.stop raises: in CaptureSet.start its `except' clause stops
\* again; in the stop_capture phase run.py's `finally' does.
StopRaises ==
  CASE caller = "dead"         -> CallStop("except")
    [] caller = "except"       -> Finish("not_started")
    [] caller = "stop_capture" -> CallStop("cleanup")
    [] caller = "cleanup"      -> Finish("aborted")

\* CaptureSet.stop returns.  After "dead" CaptureSet.start raises RuntimeError,
\* whose `except' clause calls stop again.
StopReturns ==
  CASE caller = "dead"         -> CallStop("except")
    [] caller = "except"       -> Finish("not_started")
    [] caller = "stop_capture" -> Finish("measured")
    [] caller = "cleanup"      -> Finish("aborted")
-----------------------------------------------------------------------------
(* CaptureSet.start.                                                       *)

StartCapture ==
  /\ pc = "start"
  /\ file' = [file EXCEPT ![i] = "open"]
  /\ tcpdump' = [tcpdump EXCEPT ![i] = "running"]
  /\ IF Last THEN Goto("check", 1) ELSE Goto("start", i + 1)
  /\ UNCHANGED <<caller, dead, unexpected, outcome, result, setResult,
                 signalled, early, faults>>

\* open() fails, or Popen does and the file it was given is closed again.
StartRaises ==
  /\ pc = "start"
  /\ Fault
  /\ file' \in {file, [file EXCEPT ![i] = "closed"]}
  /\ CallStop("except")
  /\ UNCHANGED <<dead, unexpected, result, setResult, system>>

\* poll() of the tcpdump at hand.
HasExited == tcpdump[i] = "exited"

\* The poll of one tcpdump, half a second after the last start.
CheckStarted ==
  /\ pc = "check"
  /\ dead' = (dead \/ HasExited)
  /\ IF ~Last THEN Goto("check", i + 1) /\ UNCHANGED <<caller, outcome>>
     ELSE IF dead' THEN CallStop("dead")
     ELSE Goto("protocol", 1) /\ UNCHANGED <<caller, outcome>>
  /\ UNCHANGED <<unexpected, objects, system, faults>>
-----------------------------------------------------------------------------
(* run.py between start_capture and the end of the run.                    *)

ProtocolReturns ==
  /\ pc = "protocol"
  /\ CallStop("stop_capture")
  /\ UNCHANGED <<dead, unexpected, objects, system, faults>>

ProtocolRaises ==
  /\ pc = "protocol"
  /\ Fault
  /\ CallStop("cleanup")
  /\ UNCHANGED <<dead, unexpected, objects, system>>
-----------------------------------------------------------------------------
(* CaptureSet.stop over its captures, and Capture.stop on each.            *)

Cached ==
  /\ pc = "stop" /\ setResult # None
  /\ StopReturns
  /\ UNCHANGED <<dead, unexpected, objects, system, faults>>

\* The Capture i has its result r: the next one, or the set's own result.
Conclude(r) ==
  /\ result' = [result EXCEPT ![i] = r]
  /\ IF ~Last
     THEN Goto("stop", i + 1) /\ UNCHANGED <<caller, outcome, setResult>>
     ELSE /\ setResult' = IF \A c \in Captures :
                               result'[c] \in {"observed", "not_observed"}
                          THEN "valid" ELSE "invalid"
          /\ StopReturns

\* Capture.stop returns the result of an earlier call.
HasResult == result[i] # None

Stopped ==
  /\ pc = "stop" /\ setResult = None
  /\ HasResult
  /\ Conclude(result[i])
  /\ UNCHANGED <<dead, unexpected, file, system, faults>>

NotStarted ==
  /\ pc = "stop" /\ setResult = None
  /\ ~HasResult /\ tcpdump[i] = "absent"
  /\ Conclude("not_started")
  /\ UNCHANGED <<dead, unexpected, file, system, faults>>

\* Popen.send_signal does nothing to a process that has exited.
Signal(s) ==
  signalled' = [signalled EXCEPT ![i] =
                  IF tcpdump[i] = "running" THEN @ \union {s} ELSE @]

PollAndInterrupt ==
  /\ pc = "stop" /\ setResult = None
  /\ ~HasResult /\ tcpdump[i] # "absent"
  /\ unexpected' = HasExited
  /\ Signal("INT")
  /\ Goto("wait_int", i)
  /\ UNCHANGED <<caller, dead, outcome, objects, tcpdump, early, faults>>

\* A communicate() returns, and the `finally' clause closes the file.
Exited ==
  /\ pc \in {"wait_int", "wait_term", "wait_kill"}
  /\ tcpdump[i] = "exited"
  /\ file' = [file EXCEPT ![i] = "closed"]
  /\ Goto("analyse", i)
  /\ UNCHANGED <<caller, dead, unexpected, outcome, result, setResult,
                 system, faults>>

TerminatesTwice ==                      \* mutant: no kill
  /\ tcpdump[i] # "exited"
  /\ pc \in {"wait_int", "wait_term"} /\ Signal("TERM")
  /\ Goto(IF pc = "wait_int" THEN "wait_term" ELSE "wait_kill", i)
  /\ UNCHANGED <<caller, dead, unexpected, outcome, objects, tcpdump, early,
                 faults>>

\* A communicate(timeout) raises TimeoutExpired.
TimesOut ==
  /\ tcpdump[i] # "exited"
  /\ \/ pc = "wait_int" /\ Signal("TERM") /\ Goto("wait_term", i)
     \/ pc = "wait_term" /\ Signal("KILL") /\ Goto("wait_kill", i)
  /\ UNCHANGED <<caller, dead, unexpected, outcome, objects, tcpdump, early,
                 faults>>

\* analyze_pcap reads the file with another tcpdump: it may be unreadable or
\* hold no packet of the protocol, and the reading itself may raise.
Analyse ==
  /\ pc = "analyse"
  /\ \E analysis \in {"observed", "not_observed", "unreadable"} :
       Conclude(IF unexpected THEN "unexpected_exit" ELSE analysis)
  /\ UNCHANGED <<dead, unexpected, file, system, faults>>

AnalysisRaises ==
  /\ pc = "analyse"
  /\ Fault
  /\ StopRaises
  /\ UNCHANGED <<dead, unexpected, objects, system>>
-----------------------------------------------------------------------------
(* The operating system.                                                   *)

\* Whether a poll of the protocol's run is still to look at capture c: the
\* startup poll, or the first poll of its stop().
PollToCome(c) ==
  \/ pc \in {"start", "check", "protocol"}
  \/ pc = "stop" /\ i <= c
  \/ pc \in {"wait_int", "wait_term", "wait_kill", "analyse"} /\ i < c

Exit(c) ==
  /\ tcpdump[c] = "running"
  /\ tcpdump' = [tcpdump EXCEPT ![c] = "exited"]
  /\ early' = IF PollToCome(c) /\ signalled[c] = {}
              THEN early \union {c} ELSE early
  /\ UNCHANGED <<control, objects, signalled, faults>>

Step ==
  \/ StartCapture \/ StartRaises \/ CheckStarted
  \/ ProtocolReturns \/ ProtocolRaises
  \/ Cached \/ Stopped \/ NotStarted \/ PollAndInterrupt
  \/ Exited \/ TimesOut \/ Analyse \/ AnalysisRaises

Done == pc = "done" /\ UNCHANGED vars

Next == Step \/ (\E c \in Captures : Exit(c)) \/ Done

\* run.py's thread is scheduled and its timeouts expire; only SIGKILL obliges
\* a tcpdump to exit.
Fairness ==
  /\ WF_vars(Step)
  /\ \A c \in Captures : WF_vars("KILL" \in signalled[c] /\ Exit(c))

Spec     == Init /\ [][Next]_vars
FairSpec == Spec /\ Fairness
-----------------------------------------------------------------------------
(* Properties.                                                             *)

(* With at most one exception in the run, no tcpdump outlives it and no    *)
(* PCAP is left open: a capture whose stop() raised cuts the loop short,   *)
(* and a second call of CaptureSet.stop reaches the captures behind it.    *)
AllStopped ==
  pc = "done" =>
    \A c \in Captures : tcpdump[c] # "running" /\ file[c] # "open"

(* The measurement write_outputs receives tells the truth about each       *)
(* tcpdump: "exited unexpectedly" if and only if it died before its stop,  *)
(* never because a stop was repeated.  A valid one covers the whole        *)
(* protocol: every capture was started and lived until it was stopped.     *)
MeasurementIsAccurate ==
  outcome = "measured" =>
    /\ \A c \in Captures : result[c] = "unexpected_exit" <=> c \in early
    /\ setResult = "valid" =>
         early = {} /\ \A c \in Captures : tcpdump[c] # "absent"

(* The captures are always stopped in the end, even if every tcpdump       *)
(* ignores SIGINT and SIGTERM.                                             *)
Terminates == <>(pc = "done")
=============================================================================
