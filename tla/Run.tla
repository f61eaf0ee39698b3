--------------------------------- MODULE Run ---------------------------------
(***************************************************************************)
(* scripts/run.py: main() takes an experiment through its phases, timed by *)
(* a Timeline (scripts/testbed/timing.py), and cleans the host up in a     *)
(* `finally' block.  The components it calls appear here by their outcomes *)
(* and by what they leave on the host: Runner, Capture and Mesh model what *)
(* happens inside execute_protocol, the captures and wait_for_network.     *)
(*                                                                         *)
(* pc is the call main() is in.  The host outlives a run: Crash kills      *)
(* run.py without its `finally', and Restart runs the configuration file   *)
(* again, edited or not, on the host as it is.                             *)
(*                                                                         *)
(* Faults says what may go wrong, MaxFaults how often in a behaviour:      *)
(*   "raise"      the call raises an Exception, having cleaned up its own  *)
(*   "leak"       a call fails, or swallows a failure, and leaves behind   *)
(*                something it created or should have removed              *)
(*   "interrupt"  KeyboardInterrupt, which no `except Exception' catches   *)
(*   "crash"      run.py is killed                                         *)
(* Standard error is taken to be writable; standard output may not be.     *)
(***************************************************************************)
EXTENDS Integers, Sequences

CONSTANTS N,          \* number of nodes, each with a container
          Runs,       \* number of runs on the host
          Faults,     \* kinds of faults that may happen
          MaxFaults   \* bound on the number of faults

ASSUME RunAssumption ==
  /\ N \in Nat \ {0} /\ Runs \in Nat \ {0} /\ MaxFaults \in Nat
  /\ Faults \subseteq {"raise", "leak", "interrupt", "crash"}

None  == "none"
Nodes == 1..N
Names == 1..2     \* the container names of the file, before and after an edit
Phases == << "load_config", "prepare_output", "collect_metadata",
             "prepare_host", "build_network", "wait_network", "start_capture",
             "execute_protocol", "stop_capture", "write_outputs" >>
CleanupPoints == {"stop_capture_again", "stop_network", "cleanup_mininet",
                  "write_timing"}
Points == {Phases[k] : k \in 1..Len(Phases)} \union CleanupPoints \union
          {"add_station", "start_net", "configure_nodes", "protocol_runs",
           "report", "ended", "killed"}
Statuses == {"success", "inconclusive", "failed"}

VARIABLES
  pc, i,                        \* the call main() is in; the station it adds
  output, attempted, network, capture,   \* main's locals: are they set?
  protocol, measurement,        \* protocol_result's status, capture_result
  exit,                         \* exit code
  current, phases,              \* the Timeline
  files, status,                \* files of the run directory; summary's status
  names,                        \* the container names this run has read
  containers, strangers,        \* on the host: under these names, under others
  added,                        \* those of the network object
  mininet,                      \* whether the emulated network is up
  alive,                        \* processes of this run still running
  run, faults, met              \* this run, faults so far, kinds met in it

timeline == <<current, phases>>
locals   == <<output, attempted, network, capture, protocol, measurement>>
host     == <<containers, added, mininet, alive>>
setting  == <<run, names, strangers>>
outputs  == <<files, status>>
vars     == <<pc, i, exit, timeline, locals, outputs, host, setting, faults, met>>

TypeOK ==
  /\ pc \in Points
  /\ i \in Nodes
  /\ {output, attempted, network, capture} \subseteq BOOLEAN
  /\ protocol \in {None, "success", "failed"}
  /\ measurement \in {None, "observed", "not_observed", "invalid"}
  /\ exit \in {None, "0", "1", "2", "130"}
  /\ current \in Points \union {None, "cleanup"}
  /\ Len(phases) <= Len(Phases) + 1
  /\ files \subseteq {"directory", "metadata", "csv", "summary", "timing"}
  /\ status \in Statuses \union {None}
  /\ names \in Names
  /\ containers \subseteq Nodes /\ strangers \subseteq Nodes /\ added \subseteq Nodes
  /\ mininet \in BOOLEAN
  /\ alive \subseteq {"tcpdump", "process"}
  /\ run \in 1..Runs /\ faults \in 0..MaxFaults /\ met \subseteq Faults

\* main() up to its `try': the Timeline has started its first phase.
Init ==
  /\ pc = "load_config" /\ i = 1 /\ exit = None
  /\ current = "load_config" /\ phases = << >>
  /\ output = FALSE /\ attempted = FALSE
  /\ network = FALSE /\ capture = FALSE
  /\ protocol = None /\ measurement = None
  /\ files = {} /\ status = None
  /\ added = {} /\ alive = {} /\ met = {}
  /\ names = 1 /\ containers = {} /\ strangers = {} /\ mininet = FALSE
  /\ run = 1 /\ faults = 0

Fault(kind) ==
  /\ kind \in Faults /\ faults < MaxFaults
  /\ faults' = faults + 1
  /\ met' = met \union {kind}

NoFault == UNCHANGED <<faults, met>>
-----------------------------------------------------------------------------
(* Timeline: start, fail and finish close the current phase.               *)

Close(what) == phases' = IF current = None THEN phases
                         ELSE Append(phases, <<current, what>>)

Start(phase) == Close("ok") /\ current' = phase

\* The next phase of main().
Begin(phase) == Start(phase) /\ pc' = phase /\ UNCHANGED exit

\* The `finally' block after a return, or an exception no clause catches.
Leave(code) ==
  /\ Start("cleanup")
  /\ pc' = "stop_capture_again" /\ exit' = code

\* An `except' clause calls fail(), then the `finally' block is entered.
ExceptUnmarked(code) == Leave(code)     \* mutant: fail() is not called

ExceptKeepsCapture(code) ==             \* mutant: the capture is not stopped
  /\ Close("failed") /\ current' = "cleanup"
  /\ pc' = "stop_network" /\ exit' = code

Except(code) ==
  /\ Close("failed") /\ current' = "cleanup"
  /\ pc' = "stop_capture_again" /\ exit' = code

Raise == Fault("raise") /\ Except("1")
-----------------------------------------------------------------------------
(* The phases up to the network.                                           *)

\* What an earlier run left under other names is out of this run's sight.
ReadNames ==
  /\ names' \in Names
  /\ IF names' = names THEN UNCHANGED <<containers, strangers>>
     ELSE containers' = strangers /\ strangers' = containers

LoadConfig ==
  /\ pc = "load_config"
  /\ \/ Begin("prepare_output") /\ ReadNames /\ NoFault
     \/ /\ UNCHANGED <<names, containers, strangers>>
        /\ \/ Fault("raise") /\ Except("2")  \* ConfigError
           \/ Raise                          \* the file cannot be decoded
  /\ UNCHANGED <<i, locals, outputs, added, mininet, alive, run>>

\* prepare_run_directory may fail after mkdir, copying the configuration.
PrepareOutput ==
  /\ pc = "prepare_output"
  /\ \/ /\ files' = {"directory"} /\ output' = TRUE
        /\ Begin("collect_metadata") /\ NoFault
     \/ /\ files' \in {{}, {"directory"}} /\ output' = FALSE
        /\ Raise
  /\ UNCHANGED <<i, attempted, network, capture, protocol, measurement,
                 status, host, setting>>

CollectMetadata ==
  /\ pc = "collect_metadata"
  /\ \/ /\ files' = files \union {"metadata"}
        /\ Begin("prepare_host") /\ NoFault
     \/ files' \in {files, files \union {"metadata"}} /\ Raise
  /\ UNCHANGED <<i, locals, status, host, setting>>

MnOnly == UNCHANGED containers          \* mutant: only "mn -c"

\* "docker rm -f" of every configured container, whatever run left it there.
DockerRm == containers' = {}

\* cleanup_stale_environment: "mn -c", whose absence raises, then "docker rm",
\* whose failure is ignored.
PrepareHost ==
  /\ pc = "prepare_host"
  /\ \/ /\ mininet' = FALSE /\ DockerRm
        /\ Begin("build_network") /\ NoFault
     \/ /\ mininet' = FALSE /\ UNCHANGED containers
        /\ Begin("build_network") /\ Fault("leak")
     \/ UNCHANGED <<mininet, containers>> /\ Raise
  /\ UNCHANGED <<i, locals, outputs, added, alive, setting>>

\* network_attempted = True; the Containernet object exists, with no station.
BuildNetwork ==
  /\ pc = "build_network"
  /\ attempted' = TRUE
  /\ \/ pc' = "add_station" /\ NoFault /\ UNCHANGED <<exit, timeline>>
     \/ Raise
  /\ i' = 1
  /\ UNCHANGED <<output, network, capture, protocol, measurement, outputs,
                 host, setting>>

LastPlusOne == i > N                    \* mutant

LastStation == i = N

\* A container of the same name makes addStation fail.
AddStation ==
  /\ pc = "add_station" /\ i \notin containers
  /\ containers' = containers \union {i}
  /\ added' = added \union {i}
  /\ IF LastStation THEN i' = 1 /\ pc' = "start_net"
     ELSE i' = i + 1 /\ UNCHANGED pc
  /\ NoFault
  /\ UNCHANGED <<exit, timeline, locals, outputs, mininet, alive, setting>>

\* build_network stops what it has built before it re-raises; net.stop may
\* fail in its turn, which build_network swallows: it leaves containers, and
\* the emulated network `up' or not.
Unbuild(left, up) ==
  /\ containers' = (containers \ added) \union left
  /\ mininet' = up
  /\ added' = {}
  /\ i' = 1
  /\ UNCHANGED <<locals, outputs, alive, setting>>

\* A failed addStation may have created its container, which net does not know.
AddStationRaises ==
  /\ pc = "add_station"
  /\ \/ i \in containers /\ NoFault /\ Except("1") /\ Unbuild({}, FALSE)
     \/ i \notin containers /\ Raise /\ Unbuild({}, FALSE)
     \/ /\ i \notin containers /\ Fault("leak") /\ Except("1")
        /\ \E s \in SUBSET (added \union {i}) : Unbuild(s, FALSE)

\* configureNodes, addLink for each node, net.start.
StartNet ==
  /\ pc = "start_net"
  /\ mininet' = TRUE
  /\ pc' = "configure_nodes" /\ NoFault
  /\ UNCHANGED <<i, exit, timeline, locals, outputs, containers, added, alive, setting>>

\* _configure_batman and _assign_application_ip for each node.
ConfigureNodes ==
  /\ pc = "configure_nodes"
  /\ network' = TRUE
  /\ Begin("wait_network") /\ NoFault
  /\ UNCHANGED <<i, output, attempted, capture, protocol, measurement,
                 outputs, host, setting>>

\* Any of these may raise, net.start half-way.
ConfigureRaises ==
  /\ pc \in {"start_net", "configure_nodes"}
  /\ \/ Raise /\ Unbuild({}, FALSE)
     \/ /\ Fault("leak") /\ Except("1")
        /\ \E s \in SUBSET added, up \in BOOLEAN : Unbuild(s, up)
-----------------------------------------------------------------------------
(* The experiment.                                                         *)

WaitNetwork ==
  /\ pc = "wait_network"
  /\ \/ Begin("start_capture") /\ NoFault
     \/ Raise
  /\ UNCHANGED <<i, locals, outputs, host, setting>>

\* CaptureSet.start stops its captures before it raises (Capture!AllStopped),
\* unless stopping them raises too.
StartCapture ==
  /\ pc = "start_capture"
  /\ \/ /\ alive' = alive \union {"tcpdump"} /\ capture' = TRUE
        /\ Begin("execute_protocol") /\ NoFault
     \/ UNCHANGED <<alive, capture>> /\ Raise
     \/ alive' = alive \union {"tcpdump"} /\ UNCHANGED capture
        /\ Fault("leak") /\ Except("1")
  /\ UNCHANGED <<i, output, attempted, network, protocol, measurement,
                 outputs, containers, added, mininet, setting>>

ExecuteProtocol ==
  /\ pc = "execute_protocol"
  /\ alive' = alive \union {"process"}
  /\ pc' = "protocol_runs"
  /\ NoFault
  /\ UNCHANGED <<i, exit, timeline, locals, outputs, containers, added,
                 mininet, setting>>

\* It returns with its processes collected (Runner!NothingLeft); an exception
\* in stop_receivers leaves some running (ReceiverOutputRaises of Runner).
ProtocolEnds ==
  /\ pc = "protocol_runs"
  /\ \/ /\ alive' = alive \ {"process"} /\ protocol' \in {"success", "failed"}
        /\ Begin("stop_capture") /\ NoFault
     \/ alive' = alive \ {"process"} /\ UNCHANGED protocol /\ Raise
     \/ UNCHANGED <<alive, protocol>> /\ Fault("leak") /\ Except("1")
  /\ UNCHANGED <<i, output, attempted, network, capture, measurement, outputs,
                 containers, added, mininet, setting>>

\* A stop that raises has stopped some of the captures, perhaps all.
StopCapture ==
  /\ pc = "stop_capture"
  /\ \/ /\ measurement' \in {"observed", "not_observed", "invalid"}
        /\ alive' = alive \ {"tcpdump"} /\ capture' = FALSE
        /\ Begin("write_outputs") /\ NoFault
     \/ /\ alive' \in {alive, alive \ {"tcpdump"}}
        /\ UNCHANGED <<measurement, capture>> /\ Raise
  /\ UNCHANGED <<i, output, attempted, network, protocol, outputs, containers,
                 added, mininet, setting>>

ProcessStatusOnly ==                    \* mutant: the capture is not judged
  IF protocol = "success" THEN "success" ELSE "failed"

\* write_outputs in scripts/testbed/metrics.py.
SummaryStatus ==
  CASE protocol # "success"                                -> "failed"
    [] protocol = "success" /\ measurement = "invalid"      -> "failed"
    [] protocol = "success" /\ measurement = "not_observed" -> "inconclusive"
    [] protocol = "success" /\ measurement = "observed"     -> "success"

WriteOutputs ==
  /\ pc = "write_outputs"
  /\ \/ /\ files' = files \union {"csv", "summary"}
        /\ status' = SummaryStatus
        /\ pc' = "report" /\ NoFault /\ UNCHANGED <<exit, timeline>>
     \/ /\ files' \in {files, files \union {"csv"}} /\ UNCHANGED status
        /\ Raise
  /\ UNCHANGED <<i, locals, host, setting>>

\* The outcome is printed: a success on standard output, which may be closed.
Report ==
  /\ pc = "report"
  /\ \/ Leave(IF status = "success" THEN "0" ELSE "1") /\ NoFault
     \/ status = "success" /\ Raise
  /\ UNCHANGED <<i, locals, outputs, host, setting>>
-----------------------------------------------------------------------------
(* The `finally' block: every step is tried, whatever the others do.       *)

StopCaptureAgain ==
  /\ pc = "stop_capture_again"
  /\ IF capture
     THEN \/ alive' = alive \ {"tcpdump"} /\ NoFault
          \/ alive' \in {alive, alive \ {"tcpdump"}} /\ Fault("raise")
     ELSE UNCHANGED alive /\ NoFault
  /\ pc' = "stop_network"
  /\ UNCHANGED <<i, exit, timeline, locals, outputs, containers, added,
                 mininet, setting>>

\* NetworkContext.stop swallows what net.stop raises.
StopNetwork ==
  /\ pc = "stop_network"
  /\ IF network
     THEN \/ containers' = containers \ added /\ mininet' = FALSE /\ NoFault
          \/ /\ \E s \in SUBSET added : containers' = containers \ s
             /\ UNCHANGED mininet /\ Fault("leak")
     ELSE UNCHANGED <<containers, mininet>> /\ NoFault
  /\ pc' = "cleanup_mininet"
  /\ UNCHANGED <<i, exit, timeline, locals, outputs, added, alive, setting>>

Built == network                        \* mutant: only what is known to be up

\* network_attempted, set before build_network.
Attempted == attempted

CleanupMininet ==
  /\ pc = "cleanup_mininet"
  /\ \/ mininet' = (mininet /\ ~Attempted) /\ NoFault
     \/ UNCHANGED mininet /\ Attempted /\ Fault("raise")
  /\ pc' = "write_timing"
  /\ UNCHANGED <<i, exit, timeline, locals, outputs, containers, added, alive, setting>>

\* timeline.finish(), then timing.json, if the run has a directory.
WriteTiming ==
  /\ pc = "write_timing"
  /\ Close("ok") /\ current' = None
  /\ \/ files' = (IF output THEN files \union {"timing"} ELSE files) /\ NoFault
     \/ output /\ UNCHANGED files /\ Fault("raise")
  /\ pc' = "ended"
  /\ UNCHANGED <<i, exit, locals, status, host, setting>>
-----------------------------------------------------------------------------
(* The outside.                                                            *)

Running == pc \notin {"ended", "killed"}

\* What the call at hand may have done when it is cut short: no `except' or
\* `finally' clause of build_network, CaptureSet.start or a write undoes it.
CutShort ==
  /\ \/ UNCHANGED files
     \/ pc = "prepare_output" /\ files' = {"directory"}
     \/ pc = "collect_metadata" /\ files' = files \union {"metadata"}
     \/ pc = "write_outputs" /\ files' = files \union {"csv"}
  /\ \/ UNCHANGED containers
     \/ pc = "prepare_host" /\ containers' = {}
     \/ pc = "add_station" /\ containers' = containers \union {i}
     \/ /\ pc = "stop_network" /\ network
        /\ \E s \in SUBSET added : containers' = containers \ s
  /\ \/ UNCHANGED mininet
     \/ pc = "prepare_host" /\ mininet' = FALSE
     \/ pc = "cleanup_mininet" /\ attempted /\ mininet' = FALSE
     \/ pc = "start_net" /\ mininet' = TRUE
  /\ \/ UNCHANGED alive
     \/ pc = "start_capture" /\ alive' = alive \union {"tcpdump"}
     \/ pc = "execute_protocol" /\ alive' = alive \union {"process"}
     \/ pc = "protocol_runs" /\ alive' = alive \ {"process"}
     \/ /\ pc \in {"stop_capture", "stop_capture_again"} /\ capture
        /\ alive' = alive \ {"tcpdump"}

\* In the `finally' block the rest of it is skipped; in the `try' block no
\* `except Exception' runs.
Interrupt ==
  /\ Running /\ Fault("interrupt")
  /\ IF pc \in CleanupPoints
     THEN pc' = "ended" /\ exit' = "130" /\ UNCHANGED timeline
     ELSE Leave("130")
  /\ CutShort
  /\ UNCHANGED <<i, locals, status, added, setting>>

\* SIGKILL: no `finally' clause runs.
Die ==
  /\ Running
  /\ pc' = "killed"
  /\ CutShort
  /\ UNCHANGED <<i, exit, timeline, locals, status, added, setting>>

Crash == Fault("crash") /\ Die

\* The next run.  Processes an earlier run left keep running, outside the
\* containers and their process namespaces: nothing in a run looks for them.
Restart ==
  /\ ~Running /\ run < Runs
  /\ run' = run + 1
  /\ pc' = "load_config" /\ i' = 1 /\ exit' = None
  /\ current' = "load_config" /\ phases' = << >>
  /\ output' = FALSE /\ attempted' = FALSE
  /\ network' = FALSE /\ capture' = FALSE
  /\ protocol' = None /\ measurement' = None
  /\ files' = {} /\ status' = None
  /\ added' = {} /\ alive' = {} /\ met' = {}
  /\ UNCHANGED <<names, containers, strangers, mininet, faults>>

Main ==
  \/ LoadConfig \/ PrepareOutput \/ CollectMetadata \/ PrepareHost
  \/ BuildNetwork \/ AddStation \/ AddStationRaises
  \/ StartNet \/ ConfigureNodes \/ ConfigureRaises \/ WaitNetwork
  \/ StartCapture \/ ExecuteProtocol \/ ProtocolEnds
  \/ StopCapture \/ WriteOutputs \/ Report
  \/ StopCaptureAgain \/ StopNetwork \/ CleanupMininet \/ WriteTiming

Done == ~Running /\ run = Runs /\ UNCHANGED vars

Next == Main \/ Interrupt \/ Crash \/ Restart \/ Done

Spec == Init /\ [][Next]_vars
-----------------------------------------------------------------------------
(* Properties.                                                             *)

(* A run that meets no fault of its own completes with all of its files,   *)
(* whatever crashed or leaking runs left on the host before it: what       *)
(* prepare_host removes is enough for build_network to succeed.            *)
UndisturbedRunCompletes ==
  pc = "ended" /\ met = {} =>
    /\ files = {"directory", "metadata", "csv", "summary", "timing"}
    /\ exit \in {"0", "1"}

(* The timing.json of a run that was not interrupted lists the phases main *)
(* entered, in order, then cleanup; the last one before cleanup is marked  *)
(* failed exactly if it raised: if no summary was completed, or if it says *)
(* success and that could not be printed.  A run that raises once before   *)
(* its summary and has its directory leaves one, whichever call raised; a  *)
(* directory whose preparation fails half-way gets none.                   *)
TimingTellsTheTruth ==
  /\ "timing" \in files /\ "interrupt" \notin met =>
       LET n == Len(phases) - 1 IN
       /\ phases[n + 1] = <<"cleanup", "ok">>
       /\ \A k \in 1..n : phases[k][1] = Phases[k]
       /\ \A k \in 1..(n - 1) : phases[k][2] = "ok"
       /\ "summary" \notin files => phases[n][2] = "failed"
       /\ "summary" \in files =>
            /\ n = Len(Phases)
            /\ phases[n][2] = "failed" <=> status = "success" /\ exit # "0"
  /\ pc = "ended" /\ output /\ faults <= 1 /\ met = {"raise"}
       /\ "summary" \notin files => "timing" \in files

(* Exit code 0 stands for a run whose summary says "success", whose        *)
(* processes and captures were sound, which saw traffic, and all of whose  *)
(* phases ended without an exception.  The last is not idle: a summary     *)
(* that says "success" comes with exit code 1 if the line that reports it  *)
(* cannot be printed.                                                      *)
ExitCodeIsHonest ==
  pc = "ended" /\ exit # "130" =>
    (exit = "0" <=> /\ "summary" \in files /\ status = "success"
                    /\ protocol = "success" /\ measurement = "observed"
                    /\ phases[Len(phases) - 1] = <<"write_outputs", "ok">>)

\* The phase that raised, as timing.json has it.
Failed(phase) == phases[Len(phases) - 1] = <<phase, "failed">>

(* What a run that meets at most one fault leaves on the host under its    *)
(* container names, and running.  Nothing, if the fault is an exception of *)
(* a call that cleaned up its own, or one of an earlier run.  If a call    *)
(* left something behind (a container addStation had created, a network    *)
(* net.stop could not stop, a tcpdump or a protocol process), clean-up     *)
(* takes down the network all the same, and what is left is of one kind:   *)
(* containers, or else a tcpdump whose start_capture raised, or else       *)
(* protocol processes whose execute_protocol raised.  If it is a           *)
(* KeyboardInterrupt outside the clean-up, the network and what main had   *)
(* been given are gone; what build_network, start_capture or               *)
(* execute_protocol were in the middle of creating stays.                  *)
LeavesHostClean ==
  /\ pc = "ended" /\ faults <= 1 /\ met \subseteq {"raise"} =>
       containers = {} /\ ~mininet /\ alive = {}
  /\ pc = "ended" /\ faults <= 1 /\ met = {"leak"} =>
       /\ ~mininet
       /\ alive # {} => containers = {}
       /\ "tcpdump" \in alive => Failed("start_capture")
       /\ "process" \in alive => Failed("execute_protocol")
  /\ pc = "ended" /\ faults <= 1 /\ met = {"interrupt"} /\ current = None =>
       /\ ~mininet
       /\ network => containers = {}
       /\ capture => "tcpdump" \notin alive

(* The network is not taken down while a capture is still recording it, if *)
(* what has raised, once at most, cleaned up its own: CaptureSet.start may *)
(* fail to, and main is then given no capture to stop before the network.  *)
CaptureEndsFirst ==
  [][ mininet /\ ~mininet' /\ faults' <= 1 /\ met' \subseteq {"raise"}
        => "tcpdump" \notin alive ]_vars
=============================================================================
