------------------------------- MODULE Timing -------------------------------
(***************************************************************************)
(* The instants and durations a run records (scripts/testbed/timing.py and *)
(* the ProcessRecord of runner.py) over the experiment of Executables.     *)
(*                                                                         *)
(* There are two clocks.  Executables' `now' is the monotonic one; the     *)
(* wall clock, which also stamps the packets tcpdump captures, is `offset' *)
(* ahead of it, and NTP may change that once, at any moment.               *)
(*                                                                         *)
(* The phases before execute_protocol are taken as one, "setup", and those *)
(* after it as another, "cleanup".  What the two readings of one call are  *)
(* apart is left out.                                                      *)
(***************************************************************************)
EXTENDS Executables, Sequences

CONSTANTS
  Before,       \* how long the set-up may have taken
  After,        \* bound on the time between the protocol and the end
  Adjustment    \* by how much NTP moves the wall clock, on or back

ASSUME TimingAssumption ==
  Before \subseteq Nat /\ {After, Adjustment} \subseteq Nat

VARIABLES
  offset, adjusted,   \* the wall clock; history: whether it was adjusted
  began, ended,       \* Timeline._started_*, Timeline._ended_* or NoTime
  current, phases,    \* Timeline._current and Timeline.phases
  record,             \* the sender's ProcessRecord
  stamp               \* the datagram's time in the PCAP

timeline == <<began, ended, current, phases>>
tvars    == <<vars, offset, adjusted, timeline, record, stamp>>

NoTime == [mono |-> None, wall |-> None]
Clock  == [mono |-> now, wall |-> now + offset]
NoPhase == [name |-> "none", at |-> NoTime]

TTypeOK ==
  /\ TypeOK
  /\ offset \in {0, Adjustment, -Adjustment} /\ adjusted \in BOOLEAN
  /\ current.name \in {"none", "execute_protocol", "cleanup"}
  /\ Len(phases) \in 1..3
  /\ \A k \in DOMAIN phases : phases[k].status \in {"ok", "failed"}
  /\ record.ended # NoTime => record.started # NoTime
  /\ stamp \in Int

\* run.py starts execute_protocol; the timeline began with the set-up.
TInit ==
  /\ Init
  /\ offset = 0 /\ adjusted = FALSE
  /\ \E before \in Before :
       /\ began = [mono |-> -before, wall |-> -before]
       /\ phases = <<[name |-> "setup", status |-> "ok",
                      started |-> -before, ended |-> 0, duration |-> before]>>
  /\ current = [name |-> "execute_protocol", at |-> [mono |-> 0, wall |-> 0]]
  /\ ended = NoTime
  /\ record = [started |-> NoTime, ended |-> NoTime]
  /\ stamp = None
-----------------------------------------------------------------------------
(* The timeline.                                                           *)

WallElapsed(from) == Clock.wall - from.wall       \* mutant

Elapsed(from) == now - from.mono

\* _close: the running phase, if there is one, is listed.
Close(status) ==
  phases' = IF current = NoPhase THEN phases
            ELSE Append(phases,
                   [name |-> current.name, status |-> status,
                    started |-> current.at.wall, ended |-> Clock.wall,
                    duration |-> Elapsed(current.at)])

StartPhase(name) ==
  /\ Close("ok") /\ current' = [name |-> name, at |-> Clock]
  /\ UNCHANGED <<began, ended>>

Fail ==
  /\ Close("failed") /\ current' = NoPhase
  /\ UNCHANGED <<began, ended>>

\* execute_protocol returns, or has raised: main's except clause.
ProtocolOver ==
  /\ pc = "done" /\ current.name = "execute_protocol"
  /\ StartPhase("cleanup") \/ Fail
  /\ UNCHANGED <<vars, offset, adjusted, record, stamp>>

\* The finally block after the except clause.
EnterCleanup ==
  /\ current = NoPhase /\ ended = NoTime
  /\ StartPhase("cleanup")
  /\ UNCHANGED <<vars, offset, adjusted, record, stamp>>

Finish ==
  /\ current.name = "cleanup" /\ ended = NoTime
  /\ Close("ok") /\ current' = NoPhase
  /\ ended' = Clock
  /\ UNCHANGED <<vars, began, offset, adjusted, record, stamp>>
-----------------------------------------------------------------------------
(* The sender's record and the capture.                                    *)

\* The record is made once _spawn has returned; the sender already runs.
RecordSender ==
  /\ tx # "absent" /\ record.started = NoTime
  /\ record' = [record EXCEPT !.started = Clock]
  /\ UNCHANGED <<vars, offset, adjusted, timeline, stamp>>

\* communicate() returns, and ProcessRecord.finish reads the clocks.
RecordEnd ==
  /\ record.started # NoTime
  /\ FinishSender
  /\ record' = [record EXCEPT !.ended = Clock]
  /\ UNCHANGED <<offset, adjusted, timeline, stamp>>

\* tcpdump on the sender's node sees the datagram leave.
Sniff ==
  /\ datagram = "flying" /\ stamp = None
  /\ stamp' = Clock.wall
  /\ UNCHANGED <<vars, offset, adjusted, timeline, record>>

\* The steps of Executables that these records are not about.
Elsewhere ==
  /\ \/ InstallHandlers \/ Bind \/ Receive \/ PollEnds
     \/ StartSender \/ Send \/ ExitSender \/ KillSender
     \/ Stop \/ Abandon \/ Collect \/ Kill
     \/ TimeOut /\ record.started # NoTime
     \/ Arrive /\ stamp # None
     \/ Tick /\ (tx = "absent" \/ record.started # NoTime)
  /\ UNCHANGED <<offset, adjusted, timeline, record, stamp>>

\* After the protocol time passes too.
TickAfter ==
  /\ pc = "done" /\ ended = NoTime /\ now < due + After
  /\ now' = now + 1
  /\ UNCHANGED <<runner, receiver, packet, offset, adjusted, timeline, record, stamp>>

Adjust ==
  /\ ~adjusted /\ adjusted' = TRUE
  /\ offset' \in {Adjustment, -Adjustment}
  /\ UNCHANGED <<vars, timeline, record, stamp>>

Over == ended # NoTime /\ UNCHANGED tvars

TNext == \/ Elsewhere \/ RecordSender \/ RecordEnd \/ Sniff
         \/ ProtocolOver \/ EnterCleanup \/ Finish \/ TickAfter \/ Adjust \/ Over

TSpec == TInit /\ [][TNext]_tvars
-----------------------------------------------------------------------------
(* Properties.                                                             *)

(* docs: the wall clock may be adjusted during a run and the durations are *)
(* not affected.  No phase has a negative duration; together they make up  *)
(* the total of the run, but for what passed between a failed phase and    *)
(* the clean-up; the sender's is no longer than that of its phase.         *)
DurationsAddUp ==
  ended # NoTime =>
    LET total == ended.mono - began.mono
        sum   == phases[1].duration + phases[2].duration + phases[3].duration
        hasFailed == \E k \in DOMAIN phases : phases[k].status = "failed"
    IN  /\ Len(phases) = 3 /\ \A k \in 1..3 : phases[k].duration >= 0
        /\ sum <= total /\ (~hasFailed => sum = total)
        /\ record.ended # NoTime =>
             record.ended.mono - record.started.mono <= phases[2].duration

(* docs: phases, processes and packets can be aligned, the instants being  *)
(* on the time base of the PCAP.  Unless the wall clock was adjusted, the  *)
(* sender's record ends in the phase execute_protocol, and the             *)
(* datagram is stamped in it or it left the sender's node later than the   *)
(* drain delay after the sender's end.                                     *)
PacketsAlign ==
  ~adjusted /\ stamp # None /\ Len(phases) >= 2 =>
    /\ phases[2].started <= stamp /\ record.ended.wall <= phases[2].ended
    /\ stamp <= phases[2].ended \/ stamp >= record.ended.wall + Drain
=============================================================================
