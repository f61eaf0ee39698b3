---------------------------- MODULE ScenarioProofs ----------------------------
(***************************************************************************)
(* Proofs about Run and Scenario: main() of scripts/run.py, by itself and  *)
(* under the validator's scenarios, for any set of nodes.                  *)
(*                                                                         *)
(* RInv is what run.py keeps whatever it meets; its parts are proved one   *)
(* at a time for any step, by itself or under the validator (StepKeeps).   *)
(* Timings and Given rest on which phase is open at which point; Built-    *)
(* SoFar, Completed, Restored, Spilled and Salvaged follow what is on the  *)
(* host through the `finally' block, by what the run has met.              *)
(***************************************************************************)
EXTENDS Scenario, TLAPS

\* The stretches of main(): before build_network, in it, with the network,
\* in the `finally' block.
PrePoints   == {"load_config", "prepare_output", "collect_metadata", "prepare_host"}
BuildPoints == {"build_network", "add_station", "start_net", "configure_nodes"}
NetPoints   == {"wait_network", "start_capture", "execute_protocol",
                "protocol_runs", "stop_capture", "write_outputs", "report"}
TryPoints   == PrePoints \union BuildPoints \union NetPoints

\* main() is in its k-th phase and the Timeline has closed those before as ok.
Timed(k) ==
  /\ current = Phases[k] /\ Len(phases) = k - 1
  /\ \A j \in 1..(k - 1) : phases[j] = <<Phases[j], "ok">>

\* The last phase raised: it left no summary, or one that could not be reported.
Raised == "summary" \notin files \/ (status = "success" /\ exit # "0")

\* The Timeline has closed n phases, the last one as what the run says of it.
Closed(n) ==
  /\ n \in 1..10
  /\ \A j \in 1..(n - 1) : phases[j] = <<Phases[j], "ok">>
  /\ phases[n] = <<Phases[n], IF Raised THEN "failed" ELSE "ok">>
  /\ "summary" \in files => n = 10

\* What the Timeline may record.
Entries == (Points \union {None, "cleanup"}) \X {"ok", "failed"}

\* What the Timeline has recorded.
Timings ==
  /\ phases \in Seq(Entries) /\ Len(phases) <= 11
  /\ pc = "load_config" => Timed(1)
  /\ pc = "prepare_output" => Timed(2)
  /\ pc = "collect_metadata" => Timed(3)
  /\ pc = "prepare_host" => Timed(4)
  /\ pc \in BuildPoints => Timed(5)
  /\ pc = "wait_network" => Timed(6)
  /\ pc = "start_capture" => Timed(7)
  /\ pc \in {"execute_protocol", "protocol_runs"} => Timed(8)
  /\ pc = "stop_capture" => Timed(9)
  /\ pc \in {"write_outputs", "report"} => Timed(10)
  /\ pc \in CleanupPoints => current = "cleanup" /\ Len(phases) <= 10
  /\ pc \in CleanupPoints /\ "interrupt" \notin met =>
       Closed(Len(phases))
  /\ pc = "ended" /\ "interrupt" \notin met =>
       /\ Closed(Len(phases) - 1)
       /\ phases[Len(phases)] = <<"cleanup", "ok">>
  /\ pc = "ended" /\ current # None => "interrupt" \in met

\* How main() ends, and what the summary says.
Outcome ==
  /\ pc \in TryPoints => exit = None
  /\ pc \in TryPoints \ {"report"} => status = None /\ "summary" \notin files
  /\ pc = "report" => "summary" \in files
  /\ "timing" \in files => pc = "ended"
  /\ "metadata" \in files \/ pc = "collect_metadata" => "directory" \in files
  /\ pc \in CleanupPoints \union {"ended"} =>
       /\ exit \in {"0", "1", "2", "130"}
       /\ exit = "0" => status = "success"
       /\ "interrupt" \in met => exit = "130"
  /\ status = "success" =>
       "summary" \in files /\ protocol = "success" /\ measurement = "observed"
  /\ pc \in {"stop_capture", "write_outputs"} => protocol # None
  /\ pc = "write_outputs" => measurement # None

\* Which faults the run has met.
Blame ==
  /\ met # {} => faults >= 1
  /\ pc \in TryPoints => met \subseteq {"leak"}
  /\ pc \in PrePoints => met = {}
  /\ pc = "killed" => faults >= 1
  /\ pc \in CleanupPoints \union {"ended"} /\ "summary" \notin files => met # {}
  /\ pc = "ended" /\ output /\ faults <= 1 /\ met = {"raise"} /\ "summary" \notin files
       => "timing" \in files

\* How far a run that has met no fault has come.
Undisturbed ==
  met = {} =>
    /\ pc \in {"load_config", "prepare_output"} => files = {}
    /\ pc = "collect_metadata" => files = {"directory"} /\ output = TRUE
    /\ pc \in TryPoints \ {"load_config", "prepare_output", "collect_metadata", "report"} =>
         files = {"directory", "metadata"} /\ output = TRUE
    /\ pc \in CleanupPoints \union {"report"} =>
         files = {"directory", "metadata", "csv", "summary"} /\ output = TRUE
    /\ pc = "ended" => files = {"directory", "metadata", "csv", "summary", "timing"}
    /\ pc \in CleanupPoints \union {"ended"} => exit \in {"0", "1"}

\* A host on which nothing is left under the names of the experiment.
Fresh == containers = {} /\ mininet = FALSE

\* What main() has been given, and what runs, in the `try' block.
Given ==
  /\ pc \in PrePoints => attempted = FALSE
  /\ pc \in PrePoints \union {"build_network"} => added = {}
  /\ pc \in BuildPoints \ {"build_network"} => attempted = TRUE
  /\ pc \in PrePoints \union BuildPoints => network = FALSE
  /\ pc \in NetPoints => network = TRUE
  /\ network = TRUE => attempted = TRUE
  /\ pc \in TryPoints =>
       (capture = TRUE <=> pc \in {"execute_protocol", "protocol_runs", "stop_capture"})
  /\ pc \in TryPoints \ {"execute_protocol", "protocol_runs", "stop_capture"} =>
       alive = {}
  /\ pc \in {"execute_protocol", "stop_capture"} => alive = {"tcpdump"}
  /\ pc = "protocol_runs" => alive = {"tcpdump", "process"}
  /\ pc \in BuildPoints \ {"configure_nodes"} => mininet = FALSE

\* What is on the host in the `try' block of a run that has met no fault;
\* before prepare_host it is what earlier runs have left.
BuiltSoFar ==
  /\ pc \in PrePoints /\ faults = 0 => Fresh
  /\ faults = 0 => strangers = {}
  /\ met = {} =>
       /\ pc = "build_network" => containers = {}
       /\ pc \in (BuildPoints \union NetPoints) \ {"build_network"} => containers = added

\* How far the stations are added, and what is left of a run that ends with
\* exit code 0, whatever it has met.
Completed ==
  /\ pc = "add_station" => added = 1..(i - 1)
  /\ pc \in {"start_net", "configure_nodes"} \union NetPoints => added = Nodes
  /\ pc \in CleanupPoints \union {"ended"} /\ exit = "0" =>
       /\ alive = {}
       /\ pc \in {"stop_capture_again", "stop_network"} =>
            network = TRUE /\ attempted = TRUE /\ added = Nodes
       /\ pc = "cleanup_mininet" =>
            attempted = TRUE /\ (mininet = TRUE => "leak" \in met)
       /\ pc \in {"write_timing", "ended"} =>
            (mininet = TRUE => {"leak", "raise"} \subseteq met)
       /\ pc \in {"cleanup_mininet", "write_timing", "ended"} =>
            (containers # {} => "leak" \in met)

\* A run that has met no fault, or one exception that is the only fault so far.
Gentle == met = {} \/ (met = {"raise"} /\ faults <= 1)

\* What the `finally' block finds and leaves after such a run.
Restored ==
  Gentle =>
    /\ pc \in {"stop_capture_again", "stop_network"} =>
         /\ network = TRUE => containers = added
         /\ network = FALSE => Fresh
    /\ pc = "stop_capture_again" =>
         /\ alive \subseteq {"tcpdump"} /\ (alive # {} => capture = TRUE)
         /\ capture = TRUE => met # {}
    /\ pc \in {"cleanup_mininet", "write_timing", "ended"} => Fresh
    /\ pc \in {"stop_network", "cleanup_mininet", "write_timing", "ended"} => alive = {}

\* A run whose only fault left something behind.
OneLeak == met = {"leak"} /\ faults <= 1

\* What the `finally' block finds and leaves after such a run.
Spilled ==
  OneLeak =>
    /\ pc \in CleanupPoints \ {"write_timing"} =>
         (mininet = TRUE => attempted = TRUE)
    /\ pc \in {"write_timing", "ended"} => mininet = FALSE
    /\ pc \in {"stop_capture_again", "stop_network"} /\ alive # {} =>
         network = TRUE /\ containers = added
    /\ pc \in {"cleanup_mininet", "write_timing", "ended"} /\ alive # {} =>
         containers = {}
    /\ pc = "stop_capture_again" /\ capture = FALSE /\ "tcpdump" \in alive =>
         Len(phases) = 7
    /\ pc \in CleanupPoints \ {"stop_capture_again"} /\ "tcpdump" \in alive =>
         Len(phases) = 7
    /\ pc \in CleanupPoints /\ "process" \in alive => Len(phases) = 8
    /\ pc = "ended" /\ "tcpdump" \in alive => Len(phases) = 8
    /\ pc = "ended" /\ "process" \in alive => Len(phases) = 9

\* A run whose only fault is a KeyboardInterrupt.
Cut == met = {"interrupt"} /\ faults <= 1

\* The run has been through its `finally' block.
Over == pc = "ended" /\ current = None

\* What the `finally' block finds and leaves after such a run.
Salvaged ==
  Cut =>
    /\ pc \in CleanupPoints \ {"write_timing"} =>
         (mininet = TRUE => attempted = TRUE)
    /\ network = TRUE =>
         /\ pc \in {"stop_capture_again", "stop_network"} => containers = added
         /\ pc \in {"cleanup_mininet", "write_timing"} \/ Over => containers = {}
    /\ capture = TRUE =>
         (pc \in CleanupPoints \ {"stop_capture_again"} \/ Over =>
            "tcpdump" \notin alive)
    /\ pc = "write_timing" \/ Over => mininet = FALSE

\* The inductive invariant of run.py.
RInv ==
  /\ TypeOK /\ Timings /\ Outcome /\ Blame /\ Undisturbed
  /\ Given /\ BuiltSoFar /\ Completed /\ Restored /\ Spilled /\ Salvaged

\* run.py is killed: by a crash, or by its validator once both were interrupted.
Killed == Die /\ (Fault("crash") \/ (NoFault /\ "interrupt" \in met))

\* The steps of run.py, alone or under its validator.
RNext == Main \/ Interrupt \/ Killed \/ Restart

\* The points of main(), by stretches.
LEMMA PointsAre == Points = TryPoints \union CleanupPoints \union {"ended", "killed"}
<1>1. {Phases[k] : k \in 1..Len(Phases)} =
        {"load_config", "prepare_output", "collect_metadata",
             "prepare_host", "build_network", "wait_network", "start_capture",
             "execute_protocol", "stop_capture", "write_outputs"}
  BY DEF Phases
<1> QED
  BY <1>1 DEF Points, TryPoints, PrePoints, BuildPoints, NetPoints

\* Every phase has a name among main()'s points.
LEMMA PhaseNames == \A k \in 1..10 : Phases[k] \in TryPoints /\ Phases[k] # None
  BY DEF Phases, TryPoints, PrePoints, BuildPoints, NetPoints, None

\* Closing the current phase appends its entry.
LEMMA PhaseCloses ==
  ASSUME NEW k \in 1..10, Timed(k), phases \in Seq(Entries),
         NEW what \in {"ok", "failed"}, Close(what)
  PROVE  /\ phases' \in Seq(Entries) /\ Len(phases') = k
         /\ \A j \in 1..(k - 1) : phases'[j] = <<Phases[j], "ok">>
         /\ phases'[k] = <<Phases[k], what>>
<1>1. Phases[k] \in Points /\ Phases[k] # None
  BY PhaseNames, PointsAre
<1>2. phases' = Append(phases, <<Phases[k], what>>) /\ Len(phases) = k - 1
  BY <1>1 DEF Close, Timed
<1>3. <<Phases[k], what>> \in Entries
  BY <1>1 DEF Entries
<1> QED
  BY <1>2, <1>3 DEF Timed

\* The next phase begins.
LEMMA BeginTimed ==
  ASSUME Timings, NEW k \in 1..9, Timed(k), NEW m, m = k + 1, Begin(Phases[m])
  PROVE  Timings'
<1>1. /\ phases' \in Seq(Entries) /\ Len(phases') = k
      /\ \A j \in 1..(k - 1) : phases'[j] = <<Phases[j], "ok">>
      /\ phases'[k] = <<Phases[k], "ok">>
      /\ current' = Phases[k + 1]
  <2>1. Close("ok") /\ current' = Phases[k + 1] /\ k \in 1..10 /\ phases \in Seq(Entries)
    BY DEF Timings, Begin, Start
  <2> QED
    BY <2>1, PhaseCloses
<1>2. Timed(k + 1)'
  BY <1>1 DEF Timed
<1>3. pc' = Phases[k + 1]
  BY DEF Begin
<1> QED
  BY <1>1, <1>2, <1>3, Z3 DEF Timings, Phases, BuildPoints, CleanupPoints

\* An exception ends a phase, before the summary is complete or when it is
\* reported.
LEMMA ExceptTimed ==
  ASSUME Timings, NEW k \in 1..10, Timed(k), NEW c, Except(c), Raised',
         "summary" \in files' => k = 10
  PROVE  Timings'
<1>1. /\ phases' \in Seq(Entries) /\ Len(phases') = k
      /\ \A j \in 1..(k - 1) : phases'[j] = <<Phases[j], "ok">>
      /\ phases'[k] = <<Phases[k], "failed">>
      /\ current' = "cleanup" /\ pc' = "stop_capture_again"
  BY PhaseCloses DEF Timings, Except
<1>2. Closed(Len(phases))'
  BY <1>1 DEF Closed
<1> QED
  BY <1>1, <1>2 DEF Timings, BuildPoints

\* main() returns from its last phase.
LEMMA LeaveTimed ==
  ASSUME Timings, Timed(10), NEW c, Leave(c), ~Raised'
  PROVE  Timings'
<1>1. /\ phases' \in Seq(Entries) /\ Len(phases') = 10
      /\ \A j \in 1..9 : phases'[j] = <<Phases[j], "ok">>
      /\ phases'[10] = <<Phases[10], "ok">>
      /\ current' = "cleanup" /\ pc' = "stop_capture_again"
  BY PhaseCloses DEF Timings, Leave, Start
<1>2. Closed(Len(phases))'
  BY <1>1 DEF Closed, Raised
<1> QED
  BY <1>1, <1>2 DEF Timings, BuildPoints

\* A KeyboardInterrupt ends a phase.
LEMMA InterruptTimed ==
  ASSUME Timings, NEW k \in 1..10, Timed(k), Leave("130"), "interrupt" \in met'
  PROVE  Timings'
<1>1. /\ phases' \in Seq(Entries) /\ Len(phases') = k
      /\ current' = "cleanup" /\ pc' = "stop_capture_again"
  BY PhaseCloses DEF Timings, Leave, Start
<1> QED
  BY <1>1 DEF Timings, BuildPoints

\* The Timeline is left alone.
LEMMA SameTimed ==
  ASSUME Timings, UNCHANGED timeline, "interrupt" \notin met' => "interrupt" \notin met,
         pc' = pc \/ {pc, pc'} \subseteq BuildPoints \/ {pc, pc'} \subseteq CleanupPoints
           \/ pc' = "killed" \/ (pc = "execute_protocol" /\ pc' = "protocol_runs")
           \/ (pc \in CleanupPoints /\ pc' = "ended" /\ "interrupt" \in met'),
         "summary" \in files' <=> "summary" \in files,
         "interrupt" \notin met' => UNCHANGED <<status, exit>>
  PROVE  Timings'
<1>1. \A k \in 1..10 : (Timed(k) => Timed(k)')
  BY DEF Timed, timeline
<1>2. phases' = phases /\ current' = current
  BY DEF timeline
<1>3. "interrupt" \notin met' =>
        /\ Closed(Len(phases)) => Closed(Len(phases))'
        /\ Closed(Len(phases) - 1) => Closed(Len(phases) - 1)'
  BY <1>2 DEF Closed, Raised
<1>4. CASE pc' = pc
  BY <1>1, <1>2, <1>3, <1>4 DEF Timings
<1> QED
  BY <1>1, <1>2, <1>3, <1>4 DEF Timings, BuildPoints, CleanupPoints

\* A summary says success only of a successful protocol and an observed capture.
LEMMA SummaryTells ==
  ASSUME protocol \in {"success", "failed"},
         measurement \in {"observed", "not_observed", "invalid"}
  PROVE  /\ SummaryStatus \in Statuses
         /\ SummaryStatus = "success" => protocol = "success" /\ measurement = "observed"
  BY DEF SummaryStatus, Statuses

\* A run without a fault meets no container of the station's name.
LEMMA StationIsFree ==
  ASSUME RInv, pc = "add_station", met = {} PROVE i \notin containers
<1>1. containers = 1..(i - 1)
  BY DEF RInv, BuiltSoFar, Completed, BuildPoints
<1> QED
  BY <1>1 DEF Nodes

\* What a call cut short may have written.
LEMMA CutShortFiles ==
  ASSUME RInv, CutShort
  PROVE  /\ "summary" \in files' <=> "summary" \in files
         /\ "timing" \in files' <=> "timing" \in files
         /\ "metadata" \in files' => "directory" \in files'
         /\ files' \subseteq {"directory", "metadata", "csv", "summary", "timing"}
  BY DEF RInv, Outcome, TypeOK, CutShort, TryPoints, PrePoints

\* The summary that write_outputs leaves.
LEMMA WriteOutputsStatus ==
  ASSUME RInv, WriteOutputs
  PROVE  /\ status' \in Statuses \union {None}
         /\ status' = "success" =>
              protocol = "success" /\ measurement = "observed" /\ "summary" \in files'
<1>1. /\ protocol \in {"success", "failed"}
      /\ measurement \in {"observed", "not_observed", "invalid"}
  BY DEF RInv, TypeOK, Outcome, WriteOutputs
<1>2. \/ status' = SummaryStatus /\ "summary" \in files'
      \/ status' = None
  BY DEF RInv, Outcome, WriteOutputs, TryPoints, NetPoints
<1> QED
  BY <1>1, <1>2, SummaryTells DEF None

\* A phase of main() ends, in the next one or in an exception.
LEMMA PhaseEnds ==
  ASSUME Timings, NEW k \in 1..9, Timed(k), "summary" \notin files',
         Begin(Phases[k + 1]) \/ Except("1") \/ Except("2")
  PROVE  Timings'
<1>1. k + 1 \in 2..10 /\ k \in 1..10
  OBVIOUS
<1>2. Raised'
  BY DEF Raised
<1> QED
  BY <1>1, <1>2, BeginTimed, ExceptTimed

\* What the Timeline has recorded stays right.
LEMMA TimingsKeep == ASSUME RInv, RNext PROVE Timings'
<1>0. Timings
  BY DEF RInv
<1>1. CASE LoadConfig
  <2>1. Timed(1) /\ "summary" \notin files'
    BY <1>1 DEF RInv, Timings, Outcome, LoadConfig, outputs, TryPoints,
       PrePoints
  <2>2. Begin(Phases[2]) \/ Except("1") \/ Except("2")
    BY <1>1 DEF LoadConfig, Raise, Phases
  <2> QED
    BY <1>0, <2>1, <2>2, PhaseEnds
<1>2. CASE PrepareOutput
  <2>1. Timed(2) /\ "summary" \notin files'
    BY <1>2 DEF RInv, Timings, PrepareOutput
  <2>2. Begin(Phases[3]) \/ Except("1")
    BY <1>2 DEF PrepareOutput, Raise, Phases
  <2> QED
    BY <1>0, <2>1, <2>2, PhaseEnds
<1>3. CASE CollectMetadata
  <2>1. Timed(3) /\ "summary" \notin files'
    BY <1>3 DEF RInv, Timings, Outcome, CollectMetadata, TryPoints, PrePoints
  <2>2. Begin(Phases[4]) \/ Except("1")
    BY <1>3 DEF CollectMetadata, Raise, Phases
  <2> QED
    BY <1>0, <2>1, <2>2, PhaseEnds
<1>4. CASE PrepareHost
  <2>1. Timed(4) /\ "summary" \notin files'
    BY <1>4 DEF RInv, Timings, Outcome, PrepareHost, outputs, TryPoints,
       PrePoints
  <2>2. Begin(Phases[5]) \/ Except("1")
    BY <1>4 DEF PrepareHost, Raise, Phases
  <2> QED
    BY <1>0, <2>1, <2>2, PhaseEnds
<1>5. CASE BuildNetwork /\ Raise
  <2>1. Timed(5) /\ "summary" \notin files'
    BY <1>5 DEF RInv, Timings, Outcome, BuildNetwork, outputs, TryPoints,
       BuildPoints
  <2>2. Begin(Phases[6]) \/ Except("1")
    BY <1>5 DEF Raise
  <2> QED
    BY <1>0, <2>1, <2>2, PhaseEnds
<1>6. CASE AddStationRaises
  <2>1. Timed(5) /\ "summary" \notin files'
    BY <1>6 DEF RInv, Timings, Outcome, AddStationRaises, Unbuild, outputs,
       TryPoints, BuildPoints
  <2>2. Begin(Phases[6]) \/ Except("1")
    BY <1>6 DEF AddStationRaises, Raise
  <2> QED
    BY <1>0, <2>1, <2>2, PhaseEnds
<1>7. CASE ConfigureNodes
  <2>1. Timed(5) /\ "summary" \notin files'
    BY <1>7 DEF RInv, Timings, Outcome, ConfigureNodes, outputs, TryPoints,
       BuildPoints
  <2>2. Begin(Phases[6]) \/ Except("1")
    BY <1>7 DEF ConfigureNodes, Phases
  <2> QED
    BY <1>0, <2>1, <2>2, PhaseEnds
<1>8. CASE ConfigureRaises
  <2>1. Timed(5) /\ "summary" \notin files'
    BY <1>8 DEF RInv, Timings, Outcome, ConfigureRaises, Unbuild, outputs,
       TryPoints, BuildPoints
  <2>2. Begin(Phases[6]) \/ Except("1")
    BY <1>8 DEF ConfigureRaises, Raise
  <2> QED
    BY <1>0, <2>1, <2>2, PhaseEnds
<1>9. CASE WaitNetwork
  <2>1. Timed(6) /\ "summary" \notin files'
    BY <1>9 DEF RInv, Timings, Outcome, WaitNetwork, outputs, TryPoints,
       NetPoints
  <2>2. Begin(Phases[7]) \/ Except("1")
    BY <1>9 DEF WaitNetwork, Raise, Phases
  <2> QED
    BY <1>0, <2>1, <2>2, PhaseEnds
<1>10. CASE StartCapture
  <2>1. Timed(7) /\ "summary" \notin files'
    BY <1>10 DEF RInv, Timings, Outcome, StartCapture, outputs, TryPoints,
       NetPoints
  <2>2. Begin(Phases[8]) \/ Except("1")
    BY <1>10 DEF StartCapture, Raise, Phases
  <2> QED
    BY <1>0, <2>1, <2>2, PhaseEnds
<1>11. CASE ProtocolEnds
  <2>1. Timed(8) /\ "summary" \notin files'
    BY <1>11 DEF RInv, Timings, Outcome, ProtocolEnds, outputs, TryPoints,
       NetPoints
  <2>2. Begin(Phases[9]) \/ Except("1")
    BY <1>11 DEF ProtocolEnds, Raise, Phases
  <2> QED
    BY <1>0, <2>1, <2>2, PhaseEnds
<1>12. CASE StopCapture
  <2>1. Timed(9) /\ "summary" \notin files'
    BY <1>12 DEF RInv, Timings, Outcome, StopCapture, outputs, TryPoints,
       NetPoints
  <2>2. Begin(Phases[10]) \/ Except("1")
    BY <1>12 DEF StopCapture, Raise, Phases
  <2> QED
    BY <1>0, <2>1, <2>2, PhaseEnds
<1>13. CASE WriteOutputs /\ pc' # "report"
  <2>1. Timings /\ Timed(10) /\ Except("1") /\ "summary" \notin files'
    BY <1>13 DEF RInv, Timings, Outcome, WriteOutputs, Raise, TryPoints, NetPoints
  <2> QED
    BY <2>1, ExceptTimed DEF Raised
<1>18. CASE WriteOutputs /\ pc' = "report"
  <2>1. Timings /\ Timed(10) /\ UNCHANGED <<current, phases>>
    BY <1>18 DEF RInv, Timings, WriteOutputs, timeline, Raise, Except
  <2>2. Timed(10)'
    BY <2>1 DEF Timed
  <2> QED
    BY <1>18, <2>1, <2>2 DEF Timings, BuildPoints, CleanupPoints
<1>19. CASE Report
  <2>1. Timings /\ Timed(10) /\ "summary" \in files'
    BY <1>19 DEF RInv, Timings, Outcome, Report, outputs
  <2>2. CASE Except("1") /\ status = "success"
    <3>1. exit' = "1" /\ status' = "success"
      BY <1>19, <2>2 DEF Report, outputs, Except
    <3> QED
      BY <2>1, <2>2, <3>1, ExceptTimed DEF Raised
  <2>3. CASE Leave(IF status = "success" THEN "0" ELSE "1")
    <3>1. ~Raised'
      BY <1>19, <2>1, <2>3 DEF Report, outputs, Leave, Raised
    <3> QED
      BY <2>1, <2>3, <3>1, LeaveTimed
  <2> QED
    BY <1>19, <2>2, <2>3 DEF Report, Raise
<1>14. CASE \/ AddStation \/ StartNet \/ ExecuteProtocol \/ StopCaptureAgain
            \/ StopNetwork \/ CleanupMininet \/ Killed
            \/ BuildNetwork /\ ~Raise
            \/ Interrupt /\ pc \in CleanupPoints
  <2>1. /\ UNCHANGED timeline
        /\ "interrupt" \notin met' => "interrupt" \notin met
    BY <1>14 DEF AddStation, StartNet, ExecuteProtocol, StopCaptureAgain,
       StopNetwork, CleanupMininet, Killed, Die, BuildNetwork, Interrupt,
       NoFault, Fault
  <2>2. "summary" \in files' <=> "summary" \in files
    BY <1>14, CutShortFiles DEF AddStation, StartNet, ExecuteProtocol,
       StopCaptureAgain, StopNetwork, CleanupMininet, Killed, Die,
       BuildNetwork, Interrupt, outputs
  <2>3. \/ pc' = pc \/ {pc, pc'} \subseteq BuildPoints
        \/ {pc, pc'} \subseteq CleanupPoints \/ pc' = "killed"
        \/ pc = "execute_protocol" /\ pc' = "protocol_runs"
        \/ pc \in CleanupPoints /\ pc' = "ended" /\ "interrupt" \in met'
    BY <1>14 DEF AddStation, StartNet, ExecuteProtocol, StopCaptureAgain,
       StopNetwork, CleanupMininet, Killed, Die, BuildNetwork, Interrupt,
       Fault, BuildPoints, CleanupPoints
  <2>4. "interrupt" \notin met' => UNCHANGED <<status, exit>>
    BY <1>14 DEF AddStation, StartNet, ExecuteProtocol, StopCaptureAgain,
       StopNetwork, CleanupMininet, Killed, Die, BuildNetwork, Raise, Interrupt,
       Fault, outputs
  <2> QED
    BY <1>0, <2>1, <2>2, <2>3, <2>4, SameTimed
<1>15. CASE WriteTiming
  <2>1. /\ pc = "write_timing" /\ pc' = "ended" /\ current = "cleanup" /\ current' = None
        /\ phases \in Seq(Entries) /\ Len(phases) <= 10
        /\ "interrupt" \notin met' => Closed(Len(phases))
        /\ "summary" \in files' <=> "summary" \in files
        /\ Raised' <=> Raised
    BY <1>15 DEF RInv, Timings, WriteTiming, NoFault, Fault, CleanupPoints, Raised
  <2>2. phases' = Append(phases, <<"cleanup", "ok">>) /\ <<"cleanup", "ok">> \in Entries
    BY <1>15, <2>1 DEF WriteTiming, Close, None, Entries
  <2>3. /\ phases' \in Seq(Entries) /\ Len(phases') = Len(phases) + 1
        /\ phases'[Len(phases')] = <<"cleanup", "ok">>
        /\ \A j \in 1..Len(phases) : phases'[j] = phases[j]
    BY <2>1, <2>2
  <2>4. Len(phases') - 1 = Len(phases) /\ Len(phases) \in Nat
    BY <2>1, <2>3
  <2>5. "interrupt" \notin met' => Closed(Len(phases) - 1)'
    <3>0. PICK n : n = Len(phases)
      OBVIOUS
    <3>1. SUFFICES ASSUME "interrupt" \notin met' PROVE Closed(Len(phases) - 1)'
      OBVIOUS
    <3>2. Closed(Len(phases))
      BY <2>1, <3>1
    <3>3. n \in 1..10
      BY <3>0, <3>2 DEF Closed
    <3>4. \A j \in 1..(n - 1) : phases'[j] = <<Phases[j], "ok">>
      <4>1. \A j \in 1..(n - 1) : phases[j] = <<Phases[j], "ok">>
        BY <3>0, <3>2 DEF Closed
      <4>2. \A j \in 1..(n - 1) : j \in 1..Len(phases)
        BY <3>0, <3>3
      <4>3. \A j \in 1..Len(phases) : phases'[j] = phases[j]
        BY <2>3
      <4> QED
        BY <4>1, <4>2, <4>3
    <3>5. phases'[n] = <<Phases[n], IF Raised' THEN "failed" ELSE "ok">>
      <4>1. phases[n] = <<Phases[n], IF Raised THEN "failed" ELSE "ok">>
        BY <3>0, <3>2 DEF Closed
      <4>2. phases'[n] = phases[n]
        <5>1. n \in 1..Len(phases)
          BY <3>0, <3>3
        <5>2. \A j \in 1..Len(phases) : phases'[j] = phases[j]
          BY <2>3
        <5> QED
          BY <5>1, <5>2
      <4> QED
        BY <2>1, <4>1, <4>2
    <3>6. "summary" \in files' => n = 10
      BY <2>1, <3>0, <3>2 DEF Closed
    <3> QED
      BY <2>4, <3>0, <3>3, <3>4, <3>5, <3>6 DEF Closed
  <2> QED
    BY <2>1, <2>3, <2>5 DEF Timings, BuildPoints, CleanupPoints
<1>16. CASE Interrupt /\ pc \notin CleanupPoints
  <2>1. Leave("130") /\ Running /\ "interrupt" \in met'
    BY <1>16 DEF Interrupt, Fault
  <2>2. PICK k \in 1..10 : Timed(k)
    BY <1>16, <2>1, PointsAre DEF RInv, TypeOK, Timings, Running, TryPoints,
       PrePoints, NetPoints
  <2> QED
    BY <1>0, <2>1, <2>2, InterruptTimed
<1>17. CASE Restart
  <2>1. phases' = << >> /\ current' = "load_config" /\ pc' = "load_config" /\ files' = {}
    BY <1>17 DEF Restart
  <2>2. phases' \in Seq(Entries) /\ Timed(1)' /\ Len(phases') <= 11
    BY <2>1 DEF Timed, Phases
  <2> QED
    BY <2>1, <2>2 DEF Timings, BuildPoints, CleanupPoints
<1> QED
  BY <1>1, <1>2, <1>3, <1>4, <1>5, <1>6, <1>7, <1>8, <1>9, <1>10, <1>11,
     <1>12, <1>13, <1>14, <1>15, <1>16, <1>17, <1>18, <1>19 DEF RNext, Main

\* The variables stay in their ranges.
LEMMA TypeKeeps == ASSUME RInv, RNext PROVE TypeOK'
<1>0. Timings'
  BY TimingsKeep
<1> USE DEF RInv, RNext, Main, LoadConfig, ReadNames, PrepareOutput, CollectMetadata,
       PrepareHost, BuildNetwork, AddStation, AddStationRaises, StartNet,
       ConfigureNodes, ConfigureRaises, WaitNetwork, StartCapture,
       ExecuteProtocol, ProtocolEnds, StopCapture, WriteOutputs, Report,
       StopCaptureAgain, StopNetwork, CleanupMininet, WriteTiming, Interrupt,
       Killed, Die, CutShort, Running, Restart, Begin, Start, Except, Leave,
       Raise, Fault, NoFault, timeline, locals, outputs, host, setting,
       DockerRm, Unbuild, None
<1>1. pc' \in Points
  BY PointsAre DEF TryPoints, PrePoints, BuildPoints, NetPoints, CleanupPoints
<1>2. i' \in Nodes
  BY RunAssumption DEF TypeOK, Nodes, LastStation
<1>3. {output, attempted, network, capture}' \subseteq BOOLEAN
  BY Zenon DEF TypeOK
<1>4. protocol' \in {None, "success", "failed"}
  BY DEF TypeOK
<1>5. measurement' \in {None, "observed", "not_observed", "invalid"}
  BY DEF TypeOK
<1>6. exit' \in {None, "0", "1", "2", "130"}
  BY DEF TypeOK
<1>7. current' \in Points \union {None, "cleanup"}
  BY PointsAre DEF TypeOK, TryPoints, PrePoints, BuildPoints, NetPoints
<1>8. Len(phases') <= Len(Phases) + 1
  BY <1>0 DEF Timings, Phases
<1>9. files' \subseteq {"directory", "metadata", "csv", "summary", "timing"}
  BY DEF TypeOK
<1>10. status' \in Statuses \union {None}
  BY WriteOutputsStatus DEF TypeOK
<1>11. containers' \subseteq Nodes /\ strangers' \subseteq Nodes /\ added' \subseteq Nodes
  BY RunAssumption DEF TypeOK, RunAssumption, Nodes
<1>12. mininet' \in BOOLEAN
  BY Zenon DEF TypeOK, Attempted
<1>13. alive' \subseteq {"tcpdump", "process"}
  BY DEF TypeOK
<1>14. run' \in 1..Runs
  BY RunAssumption DEF TypeOK, RunAssumption
<1>15. faults' \in 0..MaxFaults
  BY RunAssumption DEF TypeOK, RunAssumption
<1>16. met' \subseteq Faults
  BY DEF TypeOK
<1>17. names' \in Names
  BY DEF TypeOK
<1> QED
  BY <1>1, <1>2, <1>3, <1>4, <1>5, <1>6, <1>7, <1>8, <1>9, <1>10, <1>11, <1>12,
     <1>13, <1>14, <1>15, <1>16, <1>17
     DEF TypeOK

\* Exit code and summary stay right.
LEMMA OutcomeKeeps == ASSUME RInv, RNext PROVE Outcome'
<1> USE DEF RInv, RNext, Main, LoadConfig, ReadNames, PrepareOutput, CollectMetadata,
       PrepareHost, BuildNetwork, AddStation, AddStationRaises, StartNet,
       ConfigureNodes, ConfigureRaises, WaitNetwork, StartCapture,
       ExecuteProtocol, ProtocolEnds, StopCapture, WriteOutputs, Report,
       StopCaptureAgain, StopNetwork, CleanupMininet, WriteTiming, Interrupt,
       Killed, Die, CutShort, Running, Restart, Begin, Start, Except, Leave,
       Raise, Fault, NoFault, timeline, locals, outputs, host, setting,
       DockerRm, Unbuild, None
<1>1. (pc \in TryPoints => exit = None)'
  BY DEF Outcome, TryPoints, PrePoints, BuildPoints, NetPoints
<1>2. (pc \in TryPoints \ {"report"} => status = None /\ "summary" \notin files)'
  BY DEF Outcome, TryPoints, PrePoints, BuildPoints, NetPoints
<1>3. (pc = "report" => "summary" \in files)'
  BY DEF Outcome
<1>4. ("timing" \in files => pc = "ended")'
  BY DEF Outcome
<1>5. ("metadata" \in files \/ pc = "collect_metadata" =>
        "directory" \in files)'
  BY DEF Outcome
<1>6. (pc \in CleanupPoints \union {"ended"} => exit \in {"0", "1", "2", "130"})'
  BY DEF Outcome, TryPoints, PrePoints, BuildPoints, NetPoints, CleanupPoints
<1>7. (pc \in CleanupPoints \union {"ended"} /\ exit = "0" => status = "success")'
  BY DEF Outcome, TryPoints, PrePoints, BuildPoints, NetPoints, CleanupPoints
<1>8. (pc \in CleanupPoints \union {"ended"} /\ "interrupt" \in met => exit = "130")'
  BY DEF Outcome, Blame, TryPoints, PrePoints, BuildPoints, NetPoints, CleanupPoints
<1>9. (status = "success" =>
        "summary" \in files /\ protocol = "success" /\ measurement = "observed")'
  BY WriteOutputsStatus, CutShortFiles DEF Outcome, TryPoints, PrePoints,
     BuildPoints, NetPoints
<1>10. (pc \in {"stop_capture", "write_outputs"} => protocol # None)'
  BY DEF Outcome
<1>11. (pc = "write_outputs" => measurement # None)'
  BY DEF CleanupPoints
<1> QED
  BY <1>1, <1>2, <1>3, <1>4, <1>5, <1>6, <1>7, <1>8, <1>9, <1>10, <1>11 DEF Outcome

\* The faults a run has met stay known.
LEMMA BlameKeeps == ASSUME RInv, RNext PROVE Blame'
<1> USE DEF RInv, RNext, Main, LoadConfig, ReadNames, PrepareOutput, CollectMetadata,
       PrepareHost, BuildNetwork, AddStation, AddStationRaises, StartNet,
       ConfigureNodes, ConfigureRaises, WaitNetwork, StartCapture,
       ExecuteProtocol, ProtocolEnds, StopCapture, WriteOutputs, Report,
       StopCaptureAgain, StopNetwork, CleanupMininet, WriteTiming, Interrupt,
       Killed, Die, CutShort, Running, Restart, Begin, Start, Except, Leave,
       Raise, Fault, NoFault, timeline, locals, outputs, host, setting,
       DockerRm, Unbuild, None
<1>1. (met # {} => faults >= 1)'
  BY RunAssumption DEF Blame, TypeOK
<1>2. (pc \in TryPoints => met \subseteq {"leak"})'
  BY DEF Blame, TryPoints, PrePoints, BuildPoints, NetPoints
<1>6. (pc \in PrePoints => met = {})'
  BY DEF Blame, PrePoints
<1>3. (pc = "killed" => faults >= 1)'
  BY RunAssumption DEF Blame, TypeOK
<1>4. (pc \in CleanupPoints \union {"ended"} /\ "summary" \notin files =>
        met # {})'
  BY StationIsFree DEF Blame, Outcome, Undisturbed, BuiltSoFar, TypeOK,
     RunAssumption, TryPoints, PrePoints, BuildPoints, NetPoints, CleanupPoints
<1>5. (pc = "ended" /\ output /\ faults <= 1 /\ met = {"raise"}
        /\ "summary" \notin files => "timing" \in files)'
  <2>1. CASE WriteTiming
    BY <2>1, RunAssumption DEF Blame, TypeOK, CleanupPoints
  <2>2. CASE ~WriteTiming
    BY <2>2, RunAssumption DEF Blame, TypeOK, CleanupPoints
  <2> QED
    BY <2>1, <2>2
<1> QED
  BY <1>1, <1>2, <1>3, <1>4, <1>5, <1>6 DEF Blame

\* A run without a fault gets as far as before.
LEMMA UndisturbedKeeps == ASSUME RInv, RNext PROVE Undisturbed'
<1> USE DEF RInv, RNext, Main, LoadConfig, ReadNames, PrepareOutput, CollectMetadata,
       PrepareHost, BuildNetwork, AddStation, AddStationRaises, StartNet,
       ConfigureNodes, ConfigureRaises, WaitNetwork, StartCapture,
       ExecuteProtocol, ProtocolEnds, StopCapture, WriteOutputs, Report,
       StopCaptureAgain, StopNetwork, CleanupMininet, WriteTiming, Interrupt,
       Killed, Die, CutShort, Running, Restart, Begin, Start, Except, Leave,
       Raise, Fault, NoFault, timeline, locals, outputs, host, setting,
       DockerRm, Unbuild, None
<1>1. (met = {} =>
        (pc \in {"load_config", "prepare_output"} => files = {}))'
  BY StationIsFree DEF Undisturbed
<1>2. (met = {} =>
        (pc = "collect_metadata" => files = {"directory"} /\ output = TRUE))'
  BY StationIsFree DEF CleanupPoints
<1>3. (met = {} =>
        (pc \in TryPoints \ {"load_config", "prepare_output", "collect_metadata", "report"} =>
            files = {"directory", "metadata"} /\ output = TRUE))'
  BY StationIsFree DEF Undisturbed, TryPoints, PrePoints, BuildPoints, NetPoints
<1>4. (met = {} =>
        (pc \in CleanupPoints \union {"report"} =>
            files = {"directory", "metadata", "csv", "summary"} /\ output = TRUE))'
  <2>1. CASE WriteOutputs
    BY <2>1 DEF Undisturbed, TryPoints, NetPoints
  <2>2. CASE Report \/ StopCaptureAgain \/ StopNetwork \/ CleanupMininet
    <3>1. met' = {} => met = {}
      BY <2>2
    <3>2. /\ pc \in CleanupPoints \union {"report"} /\ UNCHANGED <<files, output>>
      BY <2>2 DEF CleanupPoints
    <3> QED
      BY <3>1, <3>2 DEF Undisturbed
  <2>3. CASE ~WriteOutputs /\ ~Report /\ ~StopCaptureAgain /\ ~StopNetwork /\ ~CleanupMininet
    <3>1. met' = {} => pc' \notin CleanupPoints \union {"report"}
      BY <2>3, StationIsFree DEF CleanupPoints
    <3> QED
      BY <3>1
  <2> QED
    BY <2>1, <2>2, <2>3
<1>5. (met = {} =>
        (pc = "ended" => files = {"directory", "metadata", "csv", "summary", "timing"}))'
  BY StationIsFree DEF Undisturbed, CleanupPoints
<1>6. (met = {} =>
        (pc \in CleanupPoints \union {"ended"} => exit \in {"0", "1"}))'
  BY StationIsFree DEF Undisturbed, CleanupPoints
<1> QED
  BY <1>1, <1>2, <1>3, <1>4, <1>5, <1>6 DEF Undisturbed

\* What main() has been given stays right.
LEMMA GivenKeeps == ASSUME RInv, RNext PROVE Given'
<1> USE DEF RInv, RNext, Main, LoadConfig, ReadNames, PrepareOutput, CollectMetadata,
       PrepareHost, BuildNetwork, AddStation, AddStationRaises, StartNet,
       ConfigureNodes, ConfigureRaises, WaitNetwork, StartCapture,
       ExecuteProtocol, ProtocolEnds, StopCapture, WriteOutputs, Report,
       StopCaptureAgain, StopNetwork, CleanupMininet, WriteTiming, Interrupt,
       Killed, Die, CutShort, Running, Restart, Begin, Start, Except, Leave,
       Raise, Fault, NoFault, timeline, locals, outputs, host, setting,
       DockerRm, Unbuild, None
<1>1. (pc \in PrePoints => attempted = FALSE)'
  BY DEF Given, PrePoints
<1>2. (pc \in PrePoints \union {"build_network"} => added = {})'
  BY DEF Given, PrePoints
<1>3. (pc \in BuildPoints \ {"build_network"} => attempted = TRUE)'
  BY DEF Given, BuildPoints
<1>4. (pc \in PrePoints \union BuildPoints => network = FALSE)'
  BY DEF Given, PrePoints, BuildPoints
<1>5. (pc \in NetPoints => network = TRUE)'
  BY DEF Given, BuildPoints, NetPoints
<1>11. (network = TRUE => attempted = TRUE)'
  BY DEF Given, BuildPoints
<1>6. (pc \in TryPoints =>
          (capture = TRUE <=> pc \in {"execute_protocol", "protocol_runs", "stop_capture"}))'
  BY DEF Given, TryPoints, PrePoints, BuildPoints, NetPoints
<1>7. (pc \in TryPoints \ {"execute_protocol", "protocol_runs", "stop_capture"} =>
          alive = {})'
  BY DEF Given, TryPoints, PrePoints, BuildPoints, NetPoints
<1>8. (pc \in {"execute_protocol", "stop_capture"} => alive = {"tcpdump"})'
  BY DEF Given, TryPoints, NetPoints
<1>9. (pc = "protocol_runs" => alive = {"tcpdump", "process"})'
  BY DEF Given
<1>10. (pc \in BuildPoints \ {"configure_nodes"} => mininet = FALSE)'
  BY DEF Given, BuildPoints
<1> QED
  BY <1>1, <1>2, <1>3, <1>4, <1>5, <1>6, <1>7, <1>8, <1>9, <1>10, <1>11
     DEF Given

\* What a run without a fault has built stays known.
LEMMA BuiltKeeps == ASSUME RInv, RNext PROVE BuiltSoFar'
<1> USE DEF RInv, RNext, Main, LoadConfig, ReadNames, PrepareOutput, CollectMetadata,
       PrepareHost, BuildNetwork, AddStation, AddStationRaises, StartNet,
       ConfigureNodes, ConfigureRaises, WaitNetwork, StartCapture,
       ExecuteProtocol, ProtocolEnds, StopCapture, WriteOutputs, Report,
       StopCaptureAgain, StopNetwork, CleanupMininet, WriteTiming, Interrupt,
       Killed, Die, CutShort, Running, Restart, Begin, Start, Except, Leave,
       Raise, Fault, NoFault, timeline, locals, outputs, host, setting,
       DockerRm, Unbuild, None
<1>1. (pc \in PrePoints /\ faults = 0 => Fresh)'
  <2>1. CASE Restart
    BY <2>1, RunAssumption DEF Blame, Restored, Gentle, Fresh
  <2>2. CASE LoadConfig
    BY <2>2, RunAssumption DEF TypeOK, BuiltSoFar, Fresh, PrePoints
  <2>3. CASE ~Restart /\ ~LoadConfig
    <3>1. pc' \in PrePoints => pc \in PrePoints /\ UNCHANGED host
      BY <2>3 DEF PrePoints
    <3> QED
      BY <3>1, RunAssumption DEF TypeOK, BuiltSoFar, Fresh
  <2> QED
    BY <2>1, <2>2, <2>3
<1>2. (met = {} /\ pc = "build_network" => containers = {})'
  BY DEF BuiltSoFar
<1>3. (faults = 0 => strangers = {})'
  <2>1. faults' = 0 => faults = 0
    BY RunAssumption DEF TypeOK
  <2>2. CASE LoadConfig
    BY <2>1, <2>2 DEF BuiltSoFar, Fresh, PrePoints
  <2>3. CASE ~LoadConfig
    <3>1. UNCHANGED strangers
      BY <2>3
    <3> QED
      BY <2>1, <3>1 DEF BuiltSoFar
  <2> QED
    BY <2>2, <2>3
<1>4. (met = {} /\ pc \in (BuildPoints \union NetPoints) \ {"build_network"} =>
        containers = added)'
  <2>1. CASE AddStation
    BY <2>1 DEF BuiltSoFar, BuildPoints
  <2>2. CASE BuildNetwork
    BY <2>2 DEF BuiltSoFar, Given
  <2>3. CASE ~AddStation /\ ~BuildNetwork
    <3>1. met' = {} /\ pc' \in (BuildPoints \union NetPoints) \ {"build_network"} =>
            /\ met = {} /\ UNCHANGED <<containers, added>>
            /\ pc \in (BuildPoints \union NetPoints) \ {"build_network"}
      BY <2>3 DEF BuildPoints, NetPoints
    <3> QED
      BY <3>1 DEF BuiltSoFar
  <2> QED
    BY <2>1, <2>2, <2>3
<1> QED
  BY <1>1, <1>2, <1>3, <1>4 DEF BuiltSoFar

\* What a run that ends with exit code 0 leaves stays known.
LEMMA CompletedKeeps == ASSUME RInv, RNext PROVE Completed'
<1> USE DEF RInv, RNext, Main, LoadConfig, ReadNames, PrepareOutput, CollectMetadata,
       PrepareHost, BuildNetwork, AddStation, AddStationRaises, StartNet,
       ConfigureNodes, ConfigureRaises, WaitNetwork, StartCapture,
       ExecuteProtocol, ProtocolEnds, StopCapture, WriteOutputs, Report,
       StopCaptureAgain, StopNetwork, CleanupMininet, WriteTiming, Interrupt,
       Killed, Die, CutShort, Running, Restart, Begin, Start, Except, Leave,
       Raise, Fault, NoFault, timeline, locals, outputs, host, setting,
       DockerRm, Unbuild, None
<1>1. (pc = "add_station" => added = 1..(i - 1))'
  <2>1. CASE AddStation
    BY <2>1, RunAssumption DEF TypeOK, Completed, Nodes, LastStation
  <2>2. CASE BuildNetwork
    <3>1. i' = 1 /\ added' = {}
      BY <2>2 DEF Given
    <3> QED
      BY <3>1
  <2>3. CASE ~AddStation /\ ~BuildNetwork
    <3>1. pc' # "add_station"
      BY <2>3
    <3> QED
      BY <3>1
  <2> QED
    BY <2>1, <2>2, <2>3
<1>2. (pc \in {"start_net", "configure_nodes"} \union NetPoints => added = Nodes)'
  <2>1. CASE AddStation
    BY <2>1, RunAssumption DEF TypeOK, Completed, Nodes, LastStation, NetPoints
  <2>2. CASE ~AddStation
    <3>1. pc' \in {"start_net", "configure_nodes"} \union NetPoints =>
            /\ UNCHANGED added
            /\ pc \in {"start_net", "configure_nodes"} \union NetPoints
      BY <2>2 DEF NetPoints
    <3> QED
      BY <3>1 DEF Completed
  <2> QED
    BY <2>1, <2>2
<1>3. (pc \in CleanupPoints \union {"ended"} /\ exit = "0" =>
         /\ alive = {}
         /\ pc \in {"stop_capture_again", "stop_network"} =>
              network = TRUE /\ attempted = TRUE /\ added = Nodes
         /\ pc = "cleanup_mininet" =>
              attempted = TRUE /\ (mininet = TRUE => "leak" \in met)
         /\ pc \in {"write_timing", "ended"} =>
              (mininet = TRUE => {"leak", "raise"} \subseteq met)
         /\ pc \in {"cleanup_mininet", "write_timing", "ended"} =>
              (containers # {} => "leak" \in met))'
  <2>1. CASE Report
    BY <2>1 DEF Given, Completed, NetPoints, TryPoints
  <2>2. CASE StopCaptureAgain
    BY <2>2 DEF Completed, CleanupPoints
  <2>3. CASE StopNetwork
    <3>1. pc' = "cleanup_mininet" /\ pc = "stop_network"
          /\ UNCHANGED <<exit, alive, network, attempted>>
      BY <2>3
    <3>2. exit = "0" =>
            alive = {} /\ network = TRUE /\ attempted = TRUE /\ added = Nodes
      BY <3>1 DEF Completed, CleanupPoints
    <3>3. network = TRUE /\ added = Nodes =>
            (containers' = {} /\ mininet' = FALSE) \/ "leak" \in met'
      BY <2>3 DEF TypeOK
    <3> QED
      BY <3>1, <3>2, <3>3
  <2>4. CASE CleanupMininet
    <3>1. pc' = "write_timing" /\ pc = "cleanup_mininet"
          /\ UNCHANGED <<exit, alive, containers>> /\ met \subseteq met'
      BY <2>4
    <3>2. exit = "0" =>
            /\ alive = {} /\ attempted = TRUE /\ (mininet = TRUE => "leak" \in met)
            /\ containers # {} => "leak" \in met
      BY <3>1 DEF Completed, CleanupPoints
    <3>3. attempted = TRUE => mininet' = FALSE \/ (mininet' = mininet /\ "raise" \in met')
      <4>1. CASE mininet' = (mininet /\ ~attempted)
        BY <4>1, Zenon DEF TypeOK
      <4>2. CASE mininet' = mininet /\ Fault("raise")
        BY <4>2
      <4> QED
        BY <2>4, <4>1, <4>2 DEF Attempted
    <3> QED
      BY <3>1, <3>2, <3>3
  <2>5. CASE WriteTiming
    BY <2>5 DEF Completed, CleanupPoints
  <2>6. CASE ~Report /\ ~StopCaptureAgain /\ ~StopNetwork /\ ~CleanupMininet /\ ~WriteTiming
    <3>1. pc' \in CleanupPoints \union {"ended"} => exit' # "0"
      BY <2>6 DEF CleanupPoints
    <3> QED
      BY <3>1
  <2> QED
    BY <2>1, <2>2, <2>3, <2>4, <2>5, <2>6
<1> QED
  BY <1>1, <1>2, <1>3 DEF Completed

\* After one exception at most, the `finally' block restores the host.
LEMMA RestoredKeeps == ASSUME RInv, RNext PROVE Restored'
<1> USE DEF RInv, RNext, Main, LoadConfig, ReadNames, PrepareOutput, CollectMetadata,
       PrepareHost, BuildNetwork, AddStation, AddStationRaises, StartNet,
       ConfigureNodes, ConfigureRaises, WaitNetwork, StartCapture,
       ExecuteProtocol, ProtocolEnds, StopCapture, WriteOutputs, Report,
       StopCaptureAgain, StopNetwork, CleanupMininet, WriteTiming, Interrupt,
       Killed, Die, CutShort, Running, Restart, Begin, Start, Except, Leave,
       Raise, Fault, NoFault, timeline, locals, outputs, host, setting,
       DockerRm, Unbuild, None
<1>1. (Gentle =>
        (pc \in {"stop_capture_again", "stop_network"} =>
            /\ network = TRUE => containers = added
            /\ network = FALSE => Fresh))'
  BY StationIsFree, RunAssumption DEF Gentle, Fresh, Given, BuiltSoFar,
     Restored, Blame, TypeOK, TryPoints, PrePoints, BuildPoints, NetPoints,
     CleanupPoints
<1>2. (Gentle =>
        (pc \in {"cleanup_mininet", "write_timing", "ended"} => Fresh))'
  <2>1. Gentle' /\ pc' \in {"cleanup_mininet", "write_timing", "ended"} =>
          Gentle /\ (StopNetwork \/ CleanupMininet \/ WriteTiming)
    <3>1. pc' \in {"cleanup_mininet", "write_timing", "ended"} =>
            StopNetwork \/ CleanupMininet \/ WriteTiming \/ Interrupt
      OBVIOUS
    <3>3. Interrupt => ~Gentle'
      BY DEF Gentle
    <3>2. Gentle' /\ (StopNetwork \/ CleanupMininet \/ WriteTiming) => Gentle
      BY RunAssumption DEF Gentle, TypeOK, Blame
    <3> HIDE DEF StopNetwork, CleanupMininet, WriteTiming, Interrupt
    <3> QED
      BY <3>1, <3>2, <3>3
  <2>2. CASE StopNetwork /\ Gentle /\ Gentle'
    <3>1. (network = TRUE => containers = added) /\ (network = FALSE => Fresh)
      BY <2>2 DEF Restored
    <3>2. network = TRUE => containers' = containers \ added /\ mininet' = FALSE
      BY <2>2 DEF Gentle
    <3>3. network = FALSE => UNCHANGED <<containers, mininet>>
      BY <2>2
    <3>4. network \in BOOLEAN
      BY DEF TypeOK
    <3> QED
      BY <3>1, <3>2, <3>3, <3>4 DEF Fresh
  <2>3. CASE CleanupMininet /\ Gentle
    <3>1. Fresh /\ UNCHANGED containers
      BY <2>3 DEF Restored
    <3>2. mininet' = mininet \/ mininet' = (mininet /\ ~attempted)
      BY <2>3 DEF Attempted
    <3>3. mininet' = FALSE
      <4>1. mininet = FALSE
        BY <3>1 DEF Fresh
      <4> QED
        BY <3>2, <4>1, Zenon
    <3> QED
      BY <3>1, <3>3 DEF Fresh
  <2>4. CASE WriteTiming /\ Gentle
    BY <2>4 DEF Restored, Fresh
  <2> QED
    BY <2>1, <2>2, <2>3, <2>4
<1>3. (Gentle => (pc = "stop_capture_again" =>
        alive \subseteq {"tcpdump"} /\ (alive # {} => capture = TRUE)))'
  <2>1. CASE StartCapture
    BY <2>1 DEF Given, Gentle, TryPoints, NetPoints
  <2>2. CASE ProtocolEnds
    BY <2>2 DEF Given, Gentle, TryPoints, NetPoints
  <2>3. CASE StopCapture
    BY <2>3 DEF Given, TryPoints, NetPoints
  <2>4. CASE ~StartCapture /\ ~ProtocolEnds /\ ~StopCapture
    <3>1. Gentle' /\ pc' = "stop_capture_again" => UNCHANGED alive /\ pc \in TryPoints
                         /\ pc \notin {"execute_protocol", "protocol_runs", "stop_capture"}
      BY <2>4 DEF Gentle, TryPoints, PrePoints, BuildPoints, NetPoints
    <3> QED
      BY <3>1 DEF Given
  <2> QED
    BY <2>1, <2>2, <2>3, <2>4
<1>4. (Gentle =>
        (pc = "stop_capture_again" => (capture = TRUE => met # {})))'
  BY RunAssumption DEF Gentle, Fresh, Given, BuiltSoFar, Restored, Blame,
     Outcome, TypeOK, RunAssumption, TryPoints, PrePoints, BuildPoints,
     NetPoints, CleanupPoints
<1>5. (Gentle =>
        (pc \in {"stop_network", "cleanup_mininet", "write_timing", "ended"} => alive = {}))'
  <2>1. CASE StopCaptureAgain
    <3>1. /\ pc = "stop_capture_again" /\ pc' = "stop_network"
          /\ Restored /\ Blame /\ faults \in Nat
      BY <2>1, RunAssumption DEF RunAssumption, TypeOK
    <3>2. CASE NoFault
      <4>1. Gentle' => Gentle
        BY <3>2 DEF Gentle, NoFault
      <4>2. Gentle => alive \subseteq {"tcpdump"} /\ (alive # {} => capture = TRUE)
        BY <3>1 DEF Restored
      <4>3. capture = TRUE => alive' = alive \ {"tcpdump"}
        <5>1. ~Fault("raise")
          BY <3>1, <3>2 DEF Fault, NoFault
        <5> QED
          BY <2>1, <5>1 DEF StopCaptureAgain
      <4>4. ~(capture = TRUE) => alive' = alive
        BY <2>1 DEF StopCaptureAgain
      <4> QED
        BY <4>1, <4>2, <4>3, <4>4
    <3>3. CASE Fault("raise") /\ capture = TRUE
      <4>1. met' # {} /\ faults' = faults + 1 /\ met \subseteq met'
        BY <3>3 DEF Fault
      <4>2. Gentle' => Gentle /\ faults = 0
        BY <3>1, <4>1 DEF Gentle, Blame
      <4>3. Gentle => met # {}
        BY <3>1, <3>3 DEF Restored
      <4> QED
        BY <3>1, <4>2, <4>3 DEF Blame
    <3> QED
      BY <2>1, <3>2, <3>3 DEF StopCaptureAgain
  <2>2. CASE ~StopCaptureAgain
    <3>1. Gentle' /\ pc' # "load_config" => Gentle
      <4>1. NoFault \/ met' = {} \/ (met \subseteq met' /\ faults' = faults + 1)
        OBVIOUS
      <4>2. NoFault => (Gentle' => Gentle)
        BY DEF Gentle
      <4>3. met' = {} /\ pc' # "load_config" => met = {}
        OBVIOUS
      <4>4. met \subseteq met' /\ faults' = faults + 1 => (Gentle' => met = {})
        BY RunAssumption DEF Gentle, Blame, TypeOK
      <4> QED
        BY <4>1, <4>2, <4>3, <4>4 DEF Gentle
    <3>2. Gentle' =>
            (pc' \in {"stop_network", "cleanup_mininet", "write_timing", "ended"} =>
               /\ UNCHANGED alive
               /\ pc \in {"stop_network", "cleanup_mininet", "write_timing", "ended"})
      BY <2>2 DEF Gentle, CleanupPoints
    <3> QED
      BY <3>1, <3>2 DEF Restored
  <2> QED
    BY <2>1, <2>2
<1> QED
  BY <1>1, <1>2, <1>3, <1>4, <1>5 DEF Restored

\* A fault that leaves something behind is the only one so far, or was.
LEMMA OnlyLeak ==
  ASSUME RInv, RNext, OneLeak'
  PROVE  (OneLeak /\ NoFault) \/ (met = {} /\ faults = 0 /\ Fault("leak"))
<1>1. /\ faults \in Nat /\ (met # {} => faults >= 1)
      /\ met' = {"leak"} /\ faults' <= 1
  BY RunAssumption DEF RInv, TypeOK, Blame, OneLeak
<1>2. NoFault \/ (\E kind : Fault(kind)) \/ met' = {}
  BY DEF RNext, Main, LoadConfig, PrepareOutput, CollectMetadata,
     PrepareHost, BuildNetwork, AddStation, AddStationRaises, StartNet,
     ConfigureNodes, ConfigureRaises, WaitNetwork, StartCapture,
     ExecuteProtocol, ProtocolEnds, StopCapture, WriteOutputs, Report,
     StopCaptureAgain, StopNetwork, CleanupMininet, WriteTiming, Interrupt,
     Killed, Restart, Raise
<1>3. CASE NoFault
  BY <1>1, <1>3 DEF NoFault, OneLeak
<1>4. ASSUME NEW kind, Fault(kind) PROVE met = {} /\ faults = 0 /\ Fault("leak")
  <2>1. met = {} /\ faults = 0
    BY <1>1, <1>4 DEF Fault
  <2>2. kind = "leak"
    BY <1>1, <1>4 DEF Fault
  <2> QED
    BY <1>4, <2>1, <2>2
<1> QED
  BY <1>1, <1>2, <1>3, <1>4

\* After a fault that left something behind, clean-up leaves no more than that.
LEMMA SpilledKeeps == ASSUME RInv, RNext PROVE Spilled'
<1> SUFFICES ASSUME OneLeak' PROVE Spilled'
  BY DEF Spilled
<1>1. (OneLeak /\ NoFault) \/ (met = {} /\ faults = 0 /\ Fault("leak"))
  BY OnlyLeak
<1>2. "raise" \notin met' /\ "interrupt" \notin met' /\ met' # {}
  BY DEF OneLeak
<1>3. CASE StartCapture /\ Except("1")
  <2>1. /\ pc = "start_capture" /\ pc' = "stop_capture_again" /\ Fault("leak")
        /\ alive' = alive \union {"tcpdump"}
        /\ UNCHANGED <<network, attempted, capture, containers, added, mininet>>
    BY <1>2, <1>3 DEF StartCapture, Raise, Begin, Start, Except, Fault
  <2>2. met = {} /\ alive = {} /\ network = TRUE /\ attempted = TRUE
    BY <1>1, <2>1 DEF RInv, Given, TryPoints, NetPoints, NoFault, Fault
  <2>3. containers = added
    BY <2>1, <2>2 DEF RInv, BuiltSoFar, NetPoints
  <2>4. Len(phases') = 7
    <3>1. Timed(7) /\ phases \in Seq(Entries) /\ Close("failed")
      BY <1>3, <2>1 DEF RInv, Timings, Except
    <3> QED
      BY <3>1, PhaseCloses
  <2> QED
    BY <2>1, <2>2, <2>3, <2>4 DEF Spilled
<1>4. CASE ProtocolEnds /\ Except("1")
  <2>1. /\ pc = "protocol_runs" /\ pc' = "stop_capture_again" /\ Fault("leak")
        /\ UNCHANGED <<alive, network, attempted, capture, containers, added, mininet>>
    BY <1>2, <1>4 DEF ProtocolEnds, Raise, Begin, Start, Except, Fault
  <2>2. /\ met = {} /\ alive = {"tcpdump", "process"} /\ capture = TRUE
        /\ network = TRUE /\ attempted = TRUE
    BY <1>1, <2>1 DEF RInv, Given, TryPoints, NetPoints, NoFault, Fault
  <2>3. containers = added
    BY <2>1, <2>2 DEF RInv, BuiltSoFar, NetPoints
  <2>4. Len(phases') = 8
    <3>1. Timed(8) /\ phases \in Seq(Entries) /\ Close("failed")
      BY <1>4, <2>1 DEF RInv, Timings, Except
    <3> QED
      BY <3>1, PhaseCloses
  <2> QED
    BY <2>1, <2>2, <2>3, <2>4 DEF Spilled
<1>5. CASE AddStationRaises \/ ConfigureRaises
  <2>1. /\ pc \in BuildPoints \ {"build_network"} /\ pc' = "stop_capture_again"
        /\ UNCHANGED <<alive, attempted>>
    BY <1>5 DEF AddStationRaises, ConfigureRaises, Except, Raise, Unbuild, locals,
       BuildPoints
  <2>2. alive = {} /\ attempted = TRUE
    BY <2>1 DEF RInv, Given, TryPoints, BuildPoints
  <2> QED
    BY <2>1, <2>2 DEF Spilled
<1>6. CASE Report
  <2>1. /\ pc = "report" /\ pc' = "stop_capture_again"
        /\ UNCHANGED <<alive, attempted>>
    BY <1>6 DEF Report, Leave, Except, Raise, locals, host
  <2>2. alive = {} /\ attempted = TRUE
    BY <2>1 DEF RInv, Given, TryPoints, NetPoints
  <2> QED
    BY <2>1, <2>2 DEF Spilled
<1>7. CASE StopCaptureAgain
  <2>1. /\ pc = "stop_capture_again" /\ pc' = "stop_network"
        /\ UNCHANGED <<phases, network, attempted, capture, containers, added, mininet>>
    BY <1>7 DEF StopCaptureAgain, timeline, locals
  <2>2. OneLeak /\ NoFault
    BY <1>1, <1>2, <1>7 DEF StopCaptureAgain, Fault, NoFault
  <2>3. /\ capture = TRUE => alive' = alive \ {"tcpdump"}
        /\ capture = FALSE => alive' = alive
    BY <1>2, <1>7 DEF StopCaptureAgain, Fault
  <2>4. capture \in BOOLEAN
    BY DEF RInv, TypeOK
  <2>5. Spilled
    BY DEF RInv
  <2> QED
    BY <2>1, <2>2, <2>3, <2>4, <2>5 DEF Spilled, CleanupPoints
<1>8. CASE StopNetwork
  <2>1. /\ pc = "stop_network" /\ pc' = "cleanup_mininet"
        /\ UNCHANGED <<phases, network, attempted, capture, added, alive>>
    BY <1>8 DEF StopNetwork, timeline, locals
  <2>2. CASE OneLeak /\ NoFault
    <3>1. /\ network = TRUE => containers' = containers \ added /\ mininet' = FALSE
          /\ network = FALSE => containers' = containers /\ mininet' = mininet
      BY <1>8, <2>2 DEF StopNetwork, RInv, TypeOK, OneLeak, NoFault, Fault
    <3>2. network \in BOOLEAN /\ Spilled
      BY DEF RInv, TypeOK
    <3> QED
      BY <2>1, <2>2, <3>1, <3>2 DEF Spilled, CleanupPoints
  <2>3. CASE met = {} /\ faults = 0 /\ Fault("leak")
    <3>1. alive = {}
      BY <2>1, <2>3 DEF RInv, Restored, Gentle
    <3>2. network = TRUE /\ mininet' = mininet
      BY <1>8, <2>3 DEF StopNetwork, RInv, TypeOK, NoFault, Fault
    <3>3. attempted = TRUE
      BY <3>2 DEF RInv, Given
    <3> QED
      BY <2>1, <3>1, <3>3 DEF Spilled
  <2> QED
    BY <1>1, <2>2, <2>3
<1>9. CASE CleanupMininet
  <2>1. /\ pc = "cleanup_mininet" /\ pc' = "write_timing"
        /\ UNCHANGED <<phases, network, attempted, capture, containers, added, alive>>
    BY <1>9 DEF CleanupMininet, timeline, locals
  <2>2. OneLeak
    BY <1>1, <1>2, <1>9 DEF CleanupMininet, Fault, NoFault
  <2>3. mininet' = (mininet /\ ~attempted)
    BY <1>2, <1>9 DEF CleanupMininet, Attempted, Fault
  <2>4. Spilled /\ mininet \in BOOLEAN /\ attempted \in BOOLEAN
    BY DEF RInv, TypeOK
  <2>5. mininet = TRUE => attempted = TRUE
    BY <2>1, <2>2, <2>4 DEF Spilled, CleanupPoints
  <2>6. mininet' = FALSE
    BY <2>3, <2>4, <2>5, Zenon
  <2> QED
    BY <2>1, <2>2, <2>4, <2>6 DEF Spilled, CleanupPoints
<1>10. CASE WriteTiming
  <2>1. /\ pc = "write_timing" /\ pc' = "ended"
        /\ UNCHANGED <<network, attempted, capture, containers, added, alive, mininet>>
    BY <1>10 DEF WriteTiming, locals, host
  <2>2. OneLeak /\ NoFault
    BY <1>1, <1>2, <1>10 DEF WriteTiming, Fault, NoFault
  <2>3. current = "cleanup" /\ Close("ok") /\ phases \in Seq(Entries)
    BY <1>10 DEF WriteTiming, RInv, Timings, CleanupPoints
  <2>4. Len(phases') = Len(phases) + 1
    BY <2>3 DEF Close, None
  <2>5. Spilled
    BY DEF RInv
  <2>6. /\ mininet = FALSE /\ (alive # {} => containers = {})
        /\ "tcpdump" \in alive => Len(phases) = 7
        /\ "process" \in alive => Len(phases) = 8
    BY <2>1, <2>2, <2>5 DEF Spilled, CleanupPoints
  <2>7. /\ "tcpdump" \in alive' => Len(phases') = 8
        /\ "process" \in alive' => Len(phases') = 9
    <3>1. alive' = alive
      BY <2>1
    <3>2. Len(phases) \in Nat
      BY <2>3
    <3>3. \A m, n \in Nat : n = m + 1 => (m = 7 => n = 8) /\ (m = 8 => n = 9)
      OBVIOUS
    <3>4. Len(phases') \in Nat
      BY <2>4, <3>2
    <3> QED
      BY <2>4, <2>6, <3>1, <3>2, <3>3, <3>4, Zenon
  <2> QED
    BY <2>1, <2>6, <2>7 DEF Spilled, CleanupPoints
<1>11. CASE /\ ~(StartCapture /\ Except("1")) /\ ~(ProtocolEnds /\ Except("1"))
            /\ ~AddStationRaises /\ ~ConfigureRaises /\ ~Report
            /\ ~StopCaptureAgain /\ ~StopNetwork /\ ~CleanupMininet /\ ~WriteTiming
  <2>1. pc' \notin CleanupPoints \union {"ended"}
    BY <1>2, <1>11 DEF RNext, Main, LoadConfig, PrepareOutput, CollectMetadata,
       PrepareHost, BuildNetwork, AddStation, StartNet, ConfigureNodes,
       WaitNetwork, StartCapture, ExecuteProtocol, ProtocolEnds, StopCapture,
       WriteOutputs, Interrupt, Killed, Die, Restart, Raise, Fault, Begin,
       CleanupPoints
  <2> QED
    BY <2>1 DEF Spilled, CleanupPoints
<1> QED
  BY <1>3, <1>4, <1>5, <1>6, <1>7, <1>8, <1>9, <1>10, <1>11

\* After a KeyboardInterrupt, the `finally' block clears what main() was given.
LEMMA SalvagedKeeps == ASSUME RInv, RNext PROVE Salvaged'
<1>1. CASE Interrupt
  <2>1. /\ "interrupt" \in met' /\ met \subseteq met' /\ faults' = faults + 1
        /\ UNCHANGED <<added, locals>> /\ Running
    BY <1>1 DEF Interrupt, Fault
  <2>2. CASE pc \in CleanupPoints
    <3>1. pc' = "ended" /\ current' = "cleanup"
      BY <1>1, <2>2 DEF Interrupt, RInv, Timings, timeline
    <3> QED
      BY <3>1 DEF Salvaged, CleanupPoints, Over, None
  <2>3. CASE pc \notin CleanupPoints
    <3>1. pc' = "stop_capture_again" /\ pc \in TryPoints
      BY <2>1, <2>3, PointsAre, <1>1 DEF RInv, TypeOK, Interrupt, Leave, Running
    <3>2. Cut' => met = {} /\ faults = 0
      BY <2>1, <3>1, RunAssumption DEF RInv, TypeOK, Blame, Cut
    <3>3. Cut' => (mininet' = TRUE => attempted' = TRUE)
      <4>1. pc \in PrePoints \union {"build_network"} /\ faults = 0 /\ met = {} => mininet' = FALSE
        BY <1>1, <2>1, <2>3 DEF RInv, Given, BuiltSoFar, Fresh, Interrupt,
           CutShort, BuildPoints
      <4>2. pc \notin PrePoints \union {"build_network"} => attempted = TRUE
        BY <3>1 DEF RInv, Given, TryPoints
      <4> QED
        BY <2>1, <3>2, <4>1, <4>2 DEF locals
    <3>4. Cut' => (network' = TRUE => containers' = added')
      <4>1. network = TRUE => pc \in NetPoints
        BY <3>1 DEF RInv, Given, TryPoints
      <4>2. pc \in NetPoints => containers' = containers
        BY <1>1 DEF Interrupt, CutShort, NetPoints
      <4>3. pc \in NetPoints /\ met = {} => containers = added
        BY DEF RInv, BuiltSoFar, NetPoints
      <4> QED
        BY <2>1, <3>2, <4>1, <4>2, <4>3 DEF locals
    <3> QED
      BY <3>1, <3>3, <3>4 DEF Salvaged, Over
  <2> QED
    BY <2>2, <2>3
<1>2. CASE CleanupMininet
  <2>1. /\ pc = "cleanup_mininet" /\ pc' = "write_timing"
        /\ Salvaged /\ UNCHANGED <<current, locals, containers, added, alive>>
    BY <1>2 DEF RInv, CleanupMininet, timeline
  <2>2. CASE NoFault
    <3>1. Cut' => Cut
      BY <2>2 DEF Cut, NoFault
    <3>2. /\ Cut => (mininet = TRUE => attempted = TRUE)
          /\ Cut => (network = TRUE => containers = {})
          /\ Cut => (capture = TRUE => "tcpdump" \notin alive)
      BY <2>1 DEF Salvaged, CleanupPoints
    <3>3. (mininet = TRUE => attempted = TRUE) => mininet' = FALSE
      <4>1. mininet' = (mininet /\ ~attempted)
        BY <1>2, <2>2 DEF RInv, TypeOK, CleanupMininet, Attempted, NoFault,
           Fault
      <4>2. mininet \in BOOLEAN /\ attempted \in BOOLEAN
        BY DEF RInv, TypeOK
      <4> QED
        BY <4>1, <4>2, Zenon
    <3>4. Cut' => mininet' = FALSE
      BY <3>1, <3>2, <3>3
    <3> QED
      BY <2>1, <3>1, <3>2, <3>4 DEF Salvaged, locals
  <2>3. CASE Fault("raise")
    BY <2>3 DEF Fault, Salvaged, Cut
  <2> QED
    BY <1>2, <2>2, <2>3 DEF CleanupMininet
<1>3. CASE ~Interrupt /\ ~CleanupMininet
  <2> USE <1>3 DEF RInv, RNext, Main, LoadConfig, ReadNames, PrepareOutput, CollectMetadata,
          PrepareHost, BuildNetwork, AddStation, AddStationRaises, StartNet,
          ConfigureNodes, ConfigureRaises, WaitNetwork, StartCapture,
          ExecuteProtocol, ProtocolEnds, StopCapture, WriteOutputs, Report,
          StopCaptureAgain, StopNetwork, CleanupMininet, WriteTiming, Interrupt,
          Killed, Die, CutShort, Running, Restart, Begin, Start, Except, Leave,
          Raise, Fault, NoFault, timeline, locals, outputs, host, setting,
          DockerRm, Unbuild, None
  <2>1. Cut' => Cut /\ NoFault
    BY RunAssumption DEF Cut, Blame, TypeOK
  <2>2. CASE StopCaptureAgain \/ StopNetwork \/ WriteTiming
    BY <2>1, <2>2 DEF Cut, Over, TypeOK, Salvaged, CleanupPoints
  <2>3. CASE ~StopCaptureAgain /\ ~StopNetwork /\ ~WriteTiming
    <3>1. Cut' => pc \notin TryPoints
      BY <2>1 DEF Cut, Blame
    <3>2. Cut' => pc' \notin CleanupPoints /\ pc' # "ended"
      BY <2>3, <3>1 DEF TryPoints, PrePoints, BuildPoints, NetPoints, CleanupPoints
    <3> QED
      BY <3>2 DEF Salvaged, Over, CleanupPoints
  <2> QED
    BY <2>2, <2>3
<1> QED
  BY <1>1, <1>2, <1>3

\* No step of run.py breaks the invariant.
LEMMA StepKeeps == ASSUME RInv, RNext PROVE RInv'
  BY TypeKeeps, TimingsKeep, OutcomeKeeps, BlameKeeps, UndisturbedKeeps,
     GivenKeeps, BuiltKeeps, CompletedKeeps, RestoredKeeps, SpilledKeeps,
     SalvagedKeeps
     DEF RInv

\* The steps of run.py keep the invariant, whoever kills it.
LEMMA RunStepKeeps ==
  ASSUME RInv, [RNext]_vars
  PROVE  RInv'
<1>1. CASE RNext
  BY <1>1, StepKeeps
<1>2. CASE UNCHANGED vars
  <2>1. /\ pc' = pc /\ i' = i /\ exit' = exit /\ current' = current
        /\ phases' = phases /\ output' = output /\ attempted' = attempted
        /\ network' = network /\ capture' = capture /\ protocol' = protocol
        /\ measurement' = measurement /\ files' = files /\ status' = status
        /\ containers' = containers /\ added' = added /\ mininet' = mininet
        /\ alive' = alive /\ run' = run /\ faults' = faults /\ met' = met
        /\ names' = names /\ strangers' = strangers
    BY <1>2 DEF vars, timeline, locals, outputs, host, setting
  <2>2. TypeOK'
    BY <2>1 DEF RInv, TypeOK
  <2>3. Timings'
    BY <2>1, SameTimed DEF RInv, timeline
  <2>4. Outcome' /\ Blame'
    BY <2>1 DEF RInv, Outcome, Blame
  <2>5. Undisturbed' /\ Given'
    BY <2>1 DEF RInv, Undisturbed, Given
  <2>6. BuiltSoFar' /\ Completed' /\ Restored'
    BY <2>1 DEF RInv, BuiltSoFar, Completed, Restored, Gentle, Fresh
  <2>7. Spilled' /\ Salvaged'
    BY <2>1 DEF RInv, Spilled, OneLeak, Salvaged, Cut, Over
  <2> QED
    BY <2>2, <2>3, <2>4, <2>5, <2>6, <2>7 DEF RInv
<1> QED
  BY <1>1, <1>2

\* The first state of run.py satisfies the invariant.
LEMMA InitKeeps == ASSUME Init PROVE RInv
<1>1. TypeOK
  <2>1. {output, attempted, network, capture} \subseteq BOOLEAN /\ mininet \in BOOLEAN
    BY Zenon DEF Init
  <2>2. pc \in Points /\ current \in Points
    BY PointsAre DEF Init, TryPoints, PrePoints
  <2> QED
    BY <2>1, <2>2, RunAssumption DEF Init, TypeOK, Nodes, Names
<1>2. Timings
  <2>1. Timed(1) /\ phases \in Seq(Entries) /\ Len(phases) <= 11
    BY DEF Init, Timed, Phases
  <2> QED
    BY <2>1 DEF Init, Timings, BuildPoints, CleanupPoints
<1>3. Outcome /\ Blame
  BY DEF Init, Outcome, Blame, None, CleanupPoints
<1>6. Undisturbed
  BY DEF Init, Undisturbed, CleanupPoints
<1>4. Given /\ BuiltSoFar
  BY DEF Init, Given, BuiltSoFar, Fresh, BuildPoints, NetPoints
<1>7. Completed
  BY DEF Init, Completed, NetPoints, CleanupPoints
<1>5. Restored /\ Spilled /\ Salvaged
  BY DEF Init, Restored, Spilled, OneLeak, Salvaged
<1> QED
  BY <1>1, <1>2, <1>3, <1>4, <1>5, <1>6, <1>7 DEF RInv

\* run.py by itself takes only these steps.
LEMMA NextIs == ASSUME [Next]_vars PROVE [RNext]_vars
  BY DEF Next, RNext, Crash, Killed, Done

\* The invariant of run.py holds, run by itself.
LEMMA RunInvariant == Spec => []RInv
<1>1. Init => RInv
  BY InitKeeps
<1>2. RInv /\ [Next]_vars => RInv'
  BY NextIs, RunStepKeeps
<1> QED
  BY <1>1, <1>2, PTL DEF Spec

\* Where the validator is, and where run.py is meanwhile.
Waiting ==
  /\ vpc \in {"load", "prerequisites", "scenario"} => pc = "load_config"
  /\ vpc = "killing" => "interrupt" \in met
  /\ vpc # "over" => verdict = None

\* The run has the container names of the edition it has read.
Readings ==
  /\ used # NotRead => names = NamesOf(used)
  /\ pc \in TryPoints \ {"load_config"} \/ status # None => used # NotRead

\* The inductive invariant of both programs.
SInv ==
  RInv /\ STypeOK /\ Waiting /\ Readings /\ PassMeansExecuted /\ SoundRunPasses

\* No step of main() forgets a fault the run has met.
LEMMA FaultsAreKept == ASSUME Main PROVE met \subseteq met'
<1>1. NoFault => met \subseteq met'
  BY DEF NoFault
<1>2. \A kind : Fault(kind) => met \subseteq met'
  BY DEF Fault
<1>3. Raise => met \subseteq met'
  BY <1>2 DEF Raise
<1> QED
  BY <1>1, <1>2, <1>3 DEF Main, LoadConfig, PrepareOutput, CollectMetadata,
     PrepareHost, BuildNetwork, AddStation, AddStationRaises, StartNet,
     ConfigureNodes, ConfigureRaises, WaitNetwork, StartCapture,
     ExecuteProtocol, ProtocolEnds, StopCapture, WriteOutputs, Report,
     StopCaptureAgain, StopNetwork, CleanupMininet, WriteTiming

\* Under the validator too, run.py takes only its own steps.
LEMMA SNextIs == ASSUME Waiting, [SNext]_svars PROVE [RNext]_vars
  BY DEF Waiting, SNext, Load, Prerequisites, RunScenario, RunStep, SignalRun,
     CtrlC, KillRun, Judge, Edit, Again, Finished, RNext, Crash, Killed, svars

\* The Timeline of a run that ends with exit code 0, and with a summary.
LEMMA AllPhasesEnd ==
  ASSUME RInv, pc = "ended", exit = "0", "summary" \in files
  PROVE  /\ Len(phases) = 11
         /\ \A k \in 1..Len(Phases) : phases[k] = <<Phases[k], "ok">>
<1>1. "interrupt" \notin met
  BY DEF RInv, Outcome
<1>2. ~Raised
  BY DEF Raised
<1>3. Closed(Len(phases) - 1) /\ phases \in Seq(Entries)
  BY <1>1 DEF RInv, Timings
<1>4. Len(phases) - 1 = 10
  BY <1>3 DEF Closed
<1>5. Len(phases) = 11
  <2>1. Len(phases) \in Nat
    BY <1>3
  <2> QED
    BY <1>4, <2>1
<1>6. Closed(10)
  BY <1>3, <1>4
<1>7. \A k \in 1..10 : phases[k] = <<Phases[k], "ok">>
  <2>1. \A k \in 1..9 : phases[k] = <<Phases[k], "ok">>
    BY <1>6 DEF Closed
  <2>2. phases[10] = <<Phases[10], "ok">>
    BY <1>2, <1>6 DEF Closed
  <2> QED
    BY <2>1, <2>2
<1>8. Len(Phases) = 10
  BY DEF Phases
<1> QED
  BY <1>5, <1>7, <1>8

\* The containers under the names the validator has loaded.
LEMMA ResidualIs ==
  ASSUME RInv, used # NotRead, Readings, NamesOf(used) = NamesOf(expected)
  PROVE  Residual(OnHost) = {} <=> containers = {}
<1>1. /\ names = NamesOf(expected) /\ names \in 1..2
      /\ containers \subseteq Nodes /\ strangers \subseteq Nodes
  BY DEF RInv, TypeOK, Readings, Names
<1>2. Foreign \intersect Named(names, Nodes) = {}
  BY <1>1, ScenarioAssumption DEF ScenarioAssumption, Names
<1>3. Residual(OnHost) = OnHost \intersect Named(names, Nodes)
  BY <1>1 DEF Residual
<1>4. ASSUME NEW x \in containers PROVE <<names, x>> \in Residual(OnHost)
  BY <1>1, <1>3, <1>4 DEF OnHost, Named
<1>5. ASSUME NEW x \in Residual(OnHost) PROVE containers # {}
  <2>1. x \in OnHost /\ x \in Named(names, Nodes)
    BY <1>3, <1>5
  <2>2. x \notin Foreign
    BY <1>2, <2>1
  <2>3. x[1] = names
    BY <2>1 DEF Named
  <2>4. x \in Named(3 - names, strangers) => x[1] = 3 - names
    BY DEF Named
  <2>5. names # 3 - names
    BY <1>1
  <2>6. x \in Named(names, containers)
    BY <2>1, <2>2, <2>3, <2>4, <2>5 DEF OnHost
  <2> QED
    BY <2>6 DEF Named
<1> QED
  BY <1>4, <1>5

\* A verdict of 0 is given for a run that was executed, and to a sound one.
LEMMA JudgeIsRight ==
  ASSUME RInv, STypeOK, Readings, Judge
  PROVE  PassMeansExecuted' /\ SoundRunPasses'
<1>1. /\ vpc' = "over" /\ pc' = pc /\ exit' = exit /\ phases' = phases
      /\ alive' = alive /\ mininet' = mininet /\ met' = met
      /\ containers' = containers
      /\ expected' = expected /\ used' = used /\ clean' = clean
  BY DEF Judge, End, vars, timeline, host, reading
<1>2. ASSUME verdict' = "0" PROVE PassMeansExecuted'
  <2>1. PICK fails \in BOOLEAN :
          /\ exit = "0" /\ pc = "ended" /\ "summary" \in files /\ deaf' = fails
          /\ SameParticipants /\ ValidSummary
          /\ Residual(IF fails THEN {} ELSE OnHost) = {}
    BY <1>2, ScenarioAssumption DEF ScenarioAssumption, Judge, End, RunSucceeded
  <2>2. \A k \in 1..Len(Phases) : phases[k] = <<Phases[k], "ok">>
    BY <2>1, AllPhasesEnd
  <2>3. /\ alive = {} /\ (containers # {} => "leak" \in met)
        /\ mininet = TRUE => {"leak", "raise"} \subseteq met
    BY <2>1 DEF RInv, Completed
  <2>4. mininet => {"leak", "raise"} \subseteq met
    BY <2>3, Zenon
  <2>5. "participants" \in used <=> "participants" \in expected
    BY <2>1 DEF SameParticipants
  <2>6. used # NotRead
    BY <2>1 DEF Readings, ValidSummary, None
  <2>7. containers # {} => deaf' \/ NamesOf(used) # NamesOf(expected)
    <3>1. CASE fails = FALSE /\ NamesOf(used) = NamesOf(expected)
      BY <2>1, <2>6, <3>1, ResidualIs
    <3>2. CASE fails = TRUE
      <4>1. deaf'
        BY <2>1, <3>2, Zenon
      <4> QED
        BY <4>1
    <3> QED
      BY <2>1, <3>1, <3>2
  <2>8. NamesOf(used)' = NamesOf(used) /\ NamesOf(expected)' = NamesOf(expected)
    BY <1>1 DEF NamesOf
  <2> QED
    BY <1>1, <2>2, <2>3, <2>4, <2>5, <2>7, <2>8, Zenon DEF PassMeansExecuted
<1>3. ASSUME pc = "ended", met = {}, exit = "0", clean,
             used \ {"rest"} = expected \ {"rest"}
      PROVE  verdict' = "0"
  <2>1. /\ files = {"directory", "metadata", "csv", "summary", "timing"}
        /\ status = "success" /\ protocol = "success"
        /\ measurement = "observed" /\ containers = {}
    BY <1>3 DEF RInv, Undisturbed, Outcome, Restored, Gentle, Fresh
  <2>2. \A part : part # "rest" => (part \in used <=> part \in expected)
    BY <1>3
  <2>3. SameParticipants /\ ValidSummary /\ OutputsReadable /\ RunSucceeded
    BY <1>3, <2>1, <2>2
       DEF SameParticipants, ValidSummary, OutputsReadable, RunSucceeded
  <2>4. used # NotRead
    BY <2>1 DEF Readings, None
  <2>5. Residual(OnHost) = {}
    BY <2>1, <2>2, <2>4, ResidualIs DEF NamesOf
  <2>6. \A fails : Residual(IF fails THEN {} ELSE OnHost) = {}
    BY <2>5 DEF Residual
  <2> QED
    BY <1>3, <2>1, <2>3, <2>6 DEF Judge, End
<1>4. SoundRunPasses'
  BY <1>1, <1>3 DEF SoundRunPasses
<1>5. verdict' # "0" => PassMeansExecuted'
  BY DEF PassMeansExecuted
<1> QED
  BY <1>2, <1>4, <1>5

\* No step of either program breaks the invariant.
LEMMA ValidatorKeeps ==
  ASSUME SInv, [SNext]_svars
  PROVE  SInv'
<1>1. RInv'
  BY SNextIs, RunStepKeeps DEF SInv
<1>2. TypeOK'
  BY <1>1 DEF RInv
<1>3. STypeOK'
  <2>1. vpc' \in {"load", "prerequisites", "scenario", "waiting", "killing",
                  "judge", "over"}
    BY DEF SInv, STypeOK, SNext, Load, Prerequisites, RunScenario, RunStep,
       SignalRun, CtrlC, KillRun, Judge, Edit, Again, Finished, svars,
       validator, reading, End, Goto, Observe
  <2>2. verdict' \in {None, "0", "1", "3", "130"}
    BY DEF SInv, STypeOK, SNext, Load, Prerequisites, RunScenario, RunStep,
       SignalRun, CtrlC, KillRun, Judge, Edit, Again, Finished, svars,
       validator, reading, End, Goto, Observe
  <2>3. edition' \in SUBSET Parts
    <3>1. UNCHANGED edition \/ edition' \in SUBSET Edits
      BY DEF SNext, Load, Prerequisites, RunScenario, RunStep,
         SignalRun, CtrlC, KillRun, Judge, Edit, Again, Finished, svars, reading
    <3> QED
      BY <3>1, ScenarioAssumption DEF ScenarioAssumption, SInv, STypeOK
  <2>4. used' \in {used, edition, NotRead} /\ expected' \in {expected, edition, NotRead}
    BY DEF SNext, Load, Prerequisites, RunScenario, RunStep, SignalRun, CtrlC,
       KillRun, Judge, Edit, Again, Finished, svars, validator, reading, End,
       Goto, Observe
  <2>5. clean' \in BOOLEAN
    BY Zenon DEF SInv, STypeOK, SNext, Load, Prerequisites, RunScenario,
       RunStep, SignalRun, CtrlC, KillRun, Judge, Edit, Again, Finished, svars,
       Observe
  <2>6. deaf' \in BOOLEAN
    BY ScenarioAssumption, Zenon DEF SInv, STypeOK, SNext, Load, Prerequisites,
       RunScenario, RunStep, SignalRun, CtrlC, KillRun, Judge, Edit, Again,
       Finished, svars, validator
  <2>7. {expected', used'} \subseteq (SUBSET Parts) \union {NotRead}
    <3> DEFINE E == (SUBSET Parts) \union {NotRead}
    <3>1. expected \in E /\ used \in E /\ edition \in E
      BY DEF SInv, STypeOK
    <3>2. NotRead \in E
      OBVIOUS
    <3> HIDE DEF E
    <3>3. used' \in E /\ expected' \in E
      <4>1. edition \in E
        BY <3>1
      <4> QED
        BY <2>4, <3>1, <3>2
    <3>4. {expected', used'} \subseteq E
      BY <3>3
    <3> QED
      BY <3>4 DEF E
  <2> QED
    BY <1>2, <2>1, <2>2, <2>3, <2>5, <2>6, <2>7 DEF STypeOK
<1>4. Waiting'
  BY FaultsAreKept DEF SInv, Waiting, SNext, Load, Prerequisites, RunScenario,
     RunStep, SignalRun, CtrlC, KillRun, Judge, Edit, Again, Finished, svars,
     validator, reading, End, Goto, Interrupt, Fault, Restart, vars, None
<1>6. Readings'
  <2>1. CASE RunStep /\ LoadConfig /\ pc' = "prepare_output"
    <3>1. used' = edition /\ names' = NamesOf(edition) /\ edition \in SUBSET Parts
      BY <2>1 DEF SInv, STypeOK, RunStep, Observe, LoadConfig
    <3>2. edition # NotRead
      BY <3>1 DEF Parts, NotRead
    <3> QED
      BY <3>1, <3>2 DEF Readings, NamesOf
  <2>2. CASE Again
    BY <2>2 DEF Again, Restart, Readings
  <2>3. CASE ~(RunStep /\ LoadConfig /\ pc' = "prepare_output") /\ ~Again
    <3>1. UNCHANGED <<used, names>>
      BY <2>3 DEF SNext, Load, Prerequisites, RunScenario, RunStep, SignalRun,
         CtrlC, KillRun, Judge, Edit, Finished, svars, vars, reading, Observe,
         setting, Main, LoadConfig, Begin, PrepareOutput, CollectMetadata,
         PrepareHost, BuildNetwork, AddStation, AddStationRaises, StartNet,
         ConfigureNodes, ConfigureRaises, Unbuild, WaitNetwork, StartCapture,
         ExecuteProtocol, ProtocolEnds, StopCapture, WriteOutputs, Report,
         StopCaptureAgain, StopNetwork, CleanupMininet, WriteTiming, Interrupt,
         Crash, Die
    <3>2. CASE Main
      <4>1. pc' \in TryPoints \ {"load_config"} => pc \in TryPoints \ {"load_config"}
        BY <2>3, <3>2 DEF SNext, RunStep, Main, LoadConfig, Begin, Except, Leave, Raise,
           PrepareOutput, CollectMetadata, PrepareHost, BuildNetwork, AddStation,
           AddStationRaises, StartNet, ConfigureNodes, ConfigureRaises, WaitNetwork,
           StartCapture, ExecuteProtocol, ProtocolEnds, StopCapture, WriteOutputs,
           Report, StopCaptureAgain, StopNetwork, CleanupMininet, WriteTiming,
           TryPoints, PrePoints, BuildPoints, NetPoints, Load, Prerequisites,
           RunScenario, SignalRun, CtrlC, KillRun, Judge, Edit, Finished, svars,
           vars, Interrupt, Crash, Die
      <4>2. WriteOutputs \/ UNCHANGED status
        BY <3>2 DEF Main, LoadConfig, locals,
           PrepareOutput, CollectMetadata, PrepareHost, BuildNetwork, AddStation,
           AddStationRaises, StartNet, ConfigureNodes, ConfigureRaises, WaitNetwork,
           StartCapture, ExecuteProtocol, ProtocolEnds, StopCapture, WriteOutputs,
           Report, StopCaptureAgain, StopNetwork, CleanupMininet, WriteTiming,
           Unbuild, outputs
      <4>3. WriteOutputs => pc \in TryPoints \ {"load_config"}
        BY DEF WriteOutputs, TryPoints, NetPoints
      <4> QED
        BY <3>1, <4>1, <4>2, <4>3 DEF SInv, Readings, NamesOf
    <3>3. CASE ~Main
      <4>1. /\ UNCHANGED status
            /\ pc' = pc \/ pc' \notin TryPoints
        BY <2>3, <3>3 DEF SNext, RunStep, SignalRun, Load, Prerequisites,
           RunScenario, CtrlC, KillRun, Judge, Edit, Finished, svars,
           vars, outputs, Interrupt, Crash, Die, Leave, TryPoints, PrePoints,
           BuildPoints, NetPoints
      <4> QED
        BY <3>1, <4>1 DEF SInv, Readings, NamesOf
    <3> QED
      BY <3>2, <3>3
  <2> QED
    BY <2>1, <2>2, <2>3
<1>5. PassMeansExecuted' /\ SoundRunPasses'
  <2>1. CASE Judge
    BY <2>1, JudgeIsRight DEF SInv
  <2>2. CASE Load \/ Prerequisites \/ RunScenario
    <3>1. pc' = "load_config" /\ verdict' # "0"
      BY <2>2 DEF SInv, Waiting, Load, Prerequisites, RunScenario, End, Goto, vars, None
    <3> QED
      BY <3>1 DEF PassMeansExecuted, SoundRunPasses
  <2>5. CASE KillRun
    BY <2>5 DEF PassMeansExecuted, SoundRunPasses, KillRun, End
  <2>6. CASE RunStep \/ SignalRun \/ CtrlC
    <3>1. verdict' = None /\ vpc' # "over"
      BY <2>6 DEF SInv, Waiting, RunStep, SignalRun, CtrlC, Goto, validator
    <3> QED
      BY <3>1 DEF PassMeansExecuted, SoundRunPasses, None
  <2>7. CASE Edit \/ Finished \/ UNCHANGED svars
    BY <2>7 DEF SInv, PassMeansExecuted, SoundRunPasses, Edit, Finished, svars,
       vars, timeline, outputs, host, validator, reading, NamesOf
  <2>8. CASE Again
    BY <2>8 DEF PassMeansExecuted, SoundRunPasses, Again, None
  <2> QED
    BY <2>1, <2>2, <2>5, <2>6, <2>7, <2>8 DEF SNext
<1> QED
  BY <1>1, <1>3, <1>4, <1>5, <1>6 DEF SInv

\* The invariant holds of run.py and its validator.
LEMMA ValidatorInvariant == SSpec => []SInv
<1>1. SInit => SInv
  <2>1. ASSUME SInit PROVE RInv
    BY <2>1, InitKeeps DEF SInit
  <2>2. ASSUME SInit PROVE STypeOK
    <3>1. TypeOK
      BY <2>1, <2>2 DEF RInv
    <3>2. clean \in BOOLEAN /\ deaf \in BOOLEAN
      BY <2>2, Zenon DEF SInit
    <3>3. edition \in SUBSET Parts /\ {expected, used} \subseteq (SUBSET Parts) \union {NotRead}
      <4>1. edition = {} /\ expected = NotRead /\ used = NotRead
        BY <2>2 DEF SInit
      <4> QED
        BY <4>1
    <3> QED
      BY <2>2, <3>1, <3>2, <3>3 DEF SInit, STypeOK
  <2> QED
    BY <2>1, <2>2 DEF SInit, Init, SInv, Waiting, Readings, PassMeansExecuted,
       SoundRunPasses, None
<1>2. SInv /\ [SNext]_svars => SInv'
  BY ValidatorKeeps
<1> QED
  BY <1>1, <1>2, PTL DEF SSpec

(***************************************************************************)
(* Theorems.  Those about run.py hold whether it runs by itself or is      *)
(* started, watched and killed by its validator.                           *)
(***************************************************************************)

\* The variables of both programs stay in their ranges.
THEOREM ValidatorTypes == SSpec => []STypeOK
<1>1. SInv => STypeOK
  BY DEF SInv
<1> QED
  BY <1>1, ValidatorInvariant, PTL

\* A run that meets no fault completes with all of its files, whatever
\* earlier runs have left on the host.
THEOREM UndisturbedRuns ==
  (Spec => []UndisturbedRunCompletes) /\ (SSpec => []UndisturbedRunCompletes)
<1>1. RInv => UndisturbedRunCompletes
  BY RunAssumption DEF RInv, UndisturbedRunCompletes, Undisturbed
<1>2. SInv => RInv
  BY DEF SInv
<1>3. Spec => []UndisturbedRunCompletes
  BY <1>1, RunInvariant, PTL
<1>4. SSpec => []UndisturbedRunCompletes
  BY <1>1, <1>2, ValidatorInvariant, PTL
<1> QED
  BY <1>3, <1>4

\* timing.json lists the phases main() entered, in order, with the one that
\* raised marked so, and a run that raises once leaves one.
THEOREM TimingIsTrue ==
  (Spec => []TimingTellsTheTruth) /\ (SSpec => []TimingTellsTheTruth)
<1>1. ASSUME RInv PROVE TimingTellsTheTruth
  <2>1. ASSUME "timing" \in files, "interrupt" \notin met, NEW n, n = Len(phases) - 1
        PROVE  /\ phases[n + 1] = <<"cleanup", "ok">>
               /\ \A k \in 1..n : phases[k][1] = Phases[k]
               /\ \A k \in 1..(n - 1) : phases[k][2] = "ok"
               /\ "summary" \notin files => phases[n][2] = "failed"
               /\ "summary" \in files =>
                    /\ n = Len(Phases)
                    /\ phases[n][2] = "failed" <=> status = "success" /\ exit # "0"
    <3>1. pc = "ended"
      BY <1>1, <2>1 DEF RInv, Outcome
    <3>2. Closed(n) /\ phases[Len(phases)] = <<"cleanup", "ok">> /\ phases \in Seq(Entries)
      BY <1>1, <2>1, <3>1 DEF RInv, Timings
    <3>3. n \in 1..10 /\ Len(phases) = n + 1
      <4>1. n \in 1..10
        BY <3>2 DEF Closed
      <4>2. Len(phases) \in Nat
        BY <3>2
      <4>3. \A x \in Nat, m \in 1..10 : m = x - 1 => x = m + 1
        OBVIOUS
      <4> QED
        BY <2>1, <4>1, <4>2, <4>3, Zenon
    <3>4. \A k \in 1..(n - 1) : phases[k][1] = Phases[k] /\ phases[k][2] = "ok"
      BY <3>2 DEF Closed
    <3>5. phases[n][1] = Phases[n] /\ phases[n][2] = IF Raised THEN "failed" ELSE "ok"
      BY <3>2 DEF Closed
    <3>6. \A k \in 1..n : phases[k][1] = Phases[k]
      BY <3>3, <3>4, <3>5
    <3>7. "summary" \in files => n = Len(Phases)
      BY <3>2 DEF Closed, Phases
    <3>8. /\ "summary" \notin files => phases[n][2] = "failed"
          /\ "summary" \in files =>
               (phases[n][2] = "failed" <=> status = "success" /\ exit # "0")
      BY <3>5 DEF Raised
    <3> QED
      BY <3>2, <3>3, <3>4, <3>6, <3>7, <3>8
  <2>2. pc = "ended" /\ output /\ faults <= 1 /\ met = {"raise"}
          /\ "summary" \notin files => "timing" \in files
    BY <1>1 DEF RInv, Blame
  <2> QED
    BY <2>1, <2>2 DEF TimingTellsTheTruth
<1>2. SInv => RInv
  BY DEF SInv
<1>3. Spec => []TimingTellsTheTruth
  BY <1>1, RunInvariant, PTL
<1>4. SSpec => []TimingTellsTheTruth
  BY <1>1, <1>2, ValidatorInvariant, PTL
<1> QED
  BY <1>3, <1>4

\* Exit code 0 stands for a summary that says success, for a sound run that
\* saw traffic, and for phases that all ended without an exception.
THEOREM ExitCodeTells ==
  (Spec => []ExitCodeIsHonest) /\ (SSpec => []ExitCodeIsHonest)
<1>1. ASSUME RInv PROVE ExitCodeIsHonest
  <2>1. SUFFICES ASSUME pc = "ended", exit # "130"
                 PROVE  exit = "0" <=>
                          /\ "summary" \in files /\ status = "success"
                          /\ protocol = "success" /\ measurement = "observed"
                          /\ phases[Len(phases) - 1] = <<"write_outputs", "ok">>
    BY DEF ExitCodeIsHonest
  <2>2. /\ exit = "0" => status = "success"
        /\ status = "success" =>
             "summary" \in files /\ protocol = "success" /\ measurement = "observed"
        /\ "interrupt" \notin met
    BY <1>1, <2>1 DEF RInv, Outcome
  <2>3. ASSUME exit = "0" PROVE phases[Len(phases) - 1] = <<"write_outputs", "ok">>
    <3>1. Len(phases) - 1 = 10 /\ 10 \in 1..Len(Phases) /\ Phases[10] = "write_outputs"
      BY <1>1, <2>1, <2>2, <2>3, AllPhasesEnd DEF Phases
    <3> QED
      BY <1>1, <2>1, <2>2, <2>3, <3>1, AllPhasesEnd
  <2>4. ASSUME exit # "0", status = "success"
        PROVE  phases[Len(phases) - 1] # <<"write_outputs", "ok">>
    <3>1. Closed(Len(phases) - 1)
      BY <1>1, <2>1, <2>2 DEF RInv, Timings
    <3>2. Raised
      BY <2>4 DEF Raised
    <3> QED
      BY <3>1, <3>2 DEF Closed
  <2> QED
    BY <2>2, <2>3, <2>4
<1>2. SInv => RInv
  BY DEF SInv
<1>3. Spec => []ExitCodeIsHonest
  BY <1>1, RunInvariant, PTL
<1>4. SSpec => []ExitCodeIsHonest
  BY <1>1, <1>2, ValidatorInvariant, PTL
<1> QED
  BY <1>3, <1>4

\* What a run that meets at most one fault leaves on the host: nothing, if it
\* is an exception that cleans up; if it leaves something, no network, and
\* either containers or the processes of the phase that failed; if it is a
\* KeyboardInterrupt, only what was being created.
THEOREM HostIsLeftClean ==
  (Spec => []LeavesHostClean) /\ (SSpec => []LeavesHostClean)
<1>1. ASSUME RInv PROVE LeavesHostClean
  <2>1. ASSUME pc = "ended", faults <= 1, met \subseteq {"raise"}
        PROVE  containers = {} /\ ~mininet /\ alive = {}
    <3>1. Gentle
      BY <2>1 DEF Gentle
    <3> QED
      BY <1>1, <2>1, <3>1 DEF RInv, Restored, Fresh
  <2>2. ASSUME pc = "ended", faults <= 1, met = {"leak"}
        PROVE  /\ ~mininet
               /\ alive # {} => containers = {}
               /\ "tcpdump" \in alive => Failed("start_capture")
               /\ "process" \in alive => Failed("execute_protocol")
    <3>1. /\ mininet = FALSE /\ (alive # {} => containers = {})
          /\ "tcpdump" \in alive => Len(phases) = 8
          /\ "process" \in alive => Len(phases) = 9
      BY <1>1, <2>2 DEF RInv, Spilled, OneLeak, CleanupPoints
    <3>2. Closed(Len(phases) - 1)
      BY <1>1, <2>2 DEF RInv, Timings
    <3>3. "summary" \notin files => Raised
      BY DEF Raised
    <3>4. Len(phases) = 8 => Failed("start_capture")
      <4>1. ASSUME Len(phases) = 8 PROVE Closed(7) /\ Raised /\ Len(phases) - 1 = 7
        BY <3>2, <3>3, <4>1 DEF Closed
      <4> QED
        BY <4>1 DEF Closed, Failed, Phases
    <3>5. Len(phases) = 9 => Failed("execute_protocol")
      <4>1. ASSUME Len(phases) = 9 PROVE Closed(8) /\ Raised /\ Len(phases) - 1 = 8
        BY <3>2, <3>3, <4>1 DEF Closed
      <4> QED
        BY <4>1 DEF Closed, Failed, Phases
    <3> QED
      BY <3>1, <3>4, <3>5
  <2>3. ASSUME pc = "ended", faults <= 1, met = {"interrupt"}, current = None
        PROVE  /\ ~mininet
               /\ network => containers = {}
               /\ capture => "tcpdump" \notin alive
    <3>1. /\ mininet = FALSE
          /\ network = TRUE => containers = {}
          /\ capture = TRUE => "tcpdump" \notin alive
      BY <1>1, <2>3 DEF RInv, Salvaged, Cut, Over
    <3> QED
      BY <3>1, Zenon
  <2> QED
    BY <2>1, <2>2, <2>3 DEF LeavesHostClean
<1>2. SInv => RInv
  BY DEF SInv
<1>3. Spec => []LeavesHostClean
  BY <1>1, RunInvariant, PTL
<1>4. SSpec => []LeavesHostClean
  BY <1>1, <1>2, ValidatorInvariant, PTL
<1> QED
  BY <1>3, <1>4

\* No step takes the network down while a capture records it, if the run has
\* raised at most once.
THEOREM CaptureEndsBeforeNetwork ==
  (Spec => CaptureEndsFirst) /\ (SSpec => CaptureEndsFirst)
<1> DEFINE A == mininet /\ ~mininet' /\ faults' <= 1 /\ met' \subseteq {"raise"}
                  => "tcpdump" \notin alive
<1>1. ASSUME RInv, [RNext]_vars PROVE [A]_vars
  <2>1. SUFFICES ASSUME mininet = TRUE, mininet' # mininet, faults' <= 1,
                        met' \subseteq {"raise"}, RNext
                 PROVE  "tcpdump" \notin alive
    BY <1>1 DEF RInv, TypeOK, vars, host
  <2>2. CASE pc \in PrePoints \union BuildPoints
    BY <1>1, <2>2 DEF RInv, Given, TryPoints, PrePoints, BuildPoints
  <2>3. CASE Main /\ pc \notin PrePoints \union BuildPoints
    <3>1. pc \in {"stop_network", "cleanup_mininet"} /\ faults' \in {faults, faults + 1}
      BY <2>1, <2>3 DEF Main, LoadConfig, PrepareOutput, CollectMetadata,
         PrepareHost, BuildNetwork, AddStation, AddStationRaises, StartNet,
         ConfigureNodes, ConfigureRaises, WaitNetwork, StartCapture,
         ExecuteProtocol, ProtocolEnds, StopCapture, WriteOutputs, Report,
         StopCaptureAgain, StopNetwork, CleanupMininet, WriteTiming, host,
         PrePoints, BuildPoints, Fault, NoFault
    <3>2. met \subseteq {"raise"} /\ faults <= 1
      BY <1>1, <2>1, <2>3, <3>1, FaultsAreKept, RunAssumption DEF RInv, TypeOK
    <3>3. Gentle
      BY <3>2 DEF Gentle
    <3> QED
      BY <1>1, <3>1, <3>3 DEF RInv, Restored
  <2>4. CASE Interrupt \/ Killed
    BY <2>1, <2>4 DEF Interrupt, Killed, Fault, NoFault
  <2>5. CASE Restart
    BY <2>1, <2>5 DEF Restart
  <2> QED
    BY <2>1, <2>2, <2>3, <2>4, <2>5 DEF RNext
<1>2. ASSUME SInv, [SNext]_svars PROVE [A]_vars
  BY <1>1, <1>2, SNextIs DEF SInv
<1>3. RInv /\ [Next]_vars => [A]_vars
  BY <1>1, NextIs
<1>4. Spec => CaptureEndsFirst
  BY <1>3, RunInvariant, PTL DEF Spec, CaptureEndsFirst
<1>5. SSpec => CaptureEndsFirst
  BY <1>2, ValidatorInvariant, PTL DEF SSpec, CaptureEndsFirst
<1> QED
  BY <1>4, <1>5

\* A verdict of 0 means that every phase of the run ended without an exception,
\* that none of its processes is left, that it was between the participants the
\* validator had loaded, and that it left a container only if net.stop failed
\* and the validator could not see it.
THEOREM PassIsExecuted == SSpec => []PassMeansExecuted
<1>1. SInv => PassMeansExecuted
  BY DEF SInv
<1> QED
  BY <1>1, ValidatorInvariant, PTL

\* A sound run is passed, whatever else docker lists.
THEOREM SoundRunIsPassed == SSpec => []SoundRunPasses
<1>1. SInv => SoundRunPasses
  BY DEF SInv
<1> QED
  BY <1>1, ValidatorInvariant, PTL
=============================================================================
