------------------------------- MODULE Scenario -------------------------------
(***************************************************************************)
(* scripts/validate_scenario.py around scripts/run.py: main() checks the   *)
(* prerequisites, run_scenario starts run.py as a subprocess and, when it  *)
(* has ended, judges its exit code, its directory, its summary and what    *)
(* docker still lists.  The run is module Run, unchanged; the validator is *)
(* called again after it, on the host as it is.                            *)
(*                                                                         *)
(* Both programs read the configuration file for themselves, the validator *)
(* twice, and it may be edited once at any time: an edition of it is the   *)
(* set of its parts that differ from the file as it was at first.  Ctrl-C  *)
(* reaches both programs: subprocess.run gives run.py a quarter of a       *)
(* second, then kills it.                                                  *)
(***************************************************************************)
EXTENDS Run

CONSTANTS Edits,           \* the parts of the file the edit may change
          Foreign,         \* containers of other experiments on the host
          DockerMayFail    \* whether a "docker ps" may exit with an error

\* "participants": what validate_summary compares with the summary (mode,
\* sender, receivers, destination) and the experiment's id, which names the
\* directory; "names": the container names; "rest": everything else.
Parts   == {"participants", "names", "rest"}
NotRead == {"not read"}

\* Containers, as docker lists them: by name and node.
Named(n, s) == {n} \X s

ASSUME ScenarioAssumption ==
  /\ Edits \subseteq Parts /\ DockerMayFail \in BOOLEAN
  /\ \A n \in Names : Foreign \intersect Named(n, Nodes) = {}

VARIABLES
  vpc,        \* the call the validator is in
  verdict,    \* its exit code
  edition,    \* the configuration file
  expected,   \* the edition run_scenario has loaded
  used,       \* the edition run.py has loaded
  clean,      \* whether every receiver's exit_code is 0
  deaf        \* whether a "docker ps" of check_cleanup failed

validator == <<vpc, verdict, expected, deaf>>
reading   == <<edition, used>>
svars     == <<vars, validator, reading, clean>>

STypeOK ==
  /\ TypeOK
  /\ vpc \in {"load", "prerequisites", "scenario", "waiting", "killing",
              "judge", "over"}
  /\ verdict \in {None, "0", "1", "3", "130"}
  /\ edition \in SUBSET Parts
  /\ {expected, used} \subseteq (SUBSET Parts) \union {NotRead}
  /\ clean \in BOOLEAN /\ deaf \in BOOLEAN

SInit ==
  /\ Init
  /\ vpc = "load" /\ verdict = None
  /\ edition = {} /\ expected = NotRead /\ used = NotRead
  /\ clean = FALSE /\ deaf = FALSE
-----------------------------------------------------------------------------
(* The validator up to the subprocess.                                     *)

End(code) == vpc' = "over" /\ verdict' = code

Goto(where) == vpc' = where /\ UNCHANGED verdict

\* Not root: NOT EXECUTED, with the other prerequisites that are missing.
Load ==
  /\ vpc = "load"
  /\ \/ Goto("prerequisites")
     \/ End("1")                        \* ConfigError
     \/ End("3")
  /\ UNCHANGED <<vars, expected, deaf, reading, clean>>

\* check_prerequisites: a command, Docker, a module or an image is missing,
\* or the output directory cannot be written.
Prerequisites ==
  /\ vpc = "prerequisites"
  /\ Goto("scenario") \/ End("3")
  /\ UNCHANGED <<vars, expected, deaf, reading, clean>>

\* run_scenario, up to subprocess.run.
RunScenario ==
  /\ vpc = "scenario"
  /\ \/ Goto("waiting") /\ expected' = edition
     \/ End("1") /\ UNCHANGED expected  \* ConfigError
  /\ UNCHANGED <<vars, deaf, reading, clean>>
-----------------------------------------------------------------------------
(* run.py while the validator waits for it.                                *)

\* The container names of an edition.
NamesOf(file) == IF "names" \in file THEN 2 ELSE 1

\* run.py reads the file; the receivers' exit codes are known when the
\* protocol ends: one that is killed, or dies of its SIGTERM, counts for the
\* runner as a controlled stop.
Observe ==
  /\ IF pc = "load_config" /\ pc' = "prepare_output"
     THEN used' = edition /\ names' = NamesOf(edition) ELSE UNCHANGED used
  /\ IF pc = "protocol_runs" /\ pc' = "stop_capture"
     THEN clean' \in BOOLEAN ELSE UNCHANGED clean

RunStep ==
  /\ vpc \in {"waiting", "killing"}
  /\ Main
  /\ Observe
  /\ UNCHANGED <<validator, edition>>

\* A signal for run.py alone.
SignalRun ==
  /\ vpc = "waiting"
  /\ Interrupt \/ Crash
  /\ UNCHANGED <<validator, reading, clean>>

CtrlC ==
  /\ vpc = "waiting" /\ Interrupt
  /\ Goto("killing")
  /\ UNCHANGED <<expected, deaf, reading, clean>>

\* subprocess.run kills run.py, or finds it has ended, and raises.
KillRun ==
  /\ vpc = "killing"
  /\ IF Running THEN Die /\ NoFault ELSE UNCHANGED vars
  /\ End("130")
  /\ UNCHANGED <<expected, deaf, reading, clean>>
-----------------------------------------------------------------------------
(* The judgement.                                                          *)

AnyExit == TRUE                                     \* mutant

RunSucceeded == exit = "0"

\* The summary's mode, sender, receivers, destination and PCAPs are those of
\* the configuration run_scenario has loaded, and it is in the directory of
\* that experiment.
SameParticipants == "participants" \in used <=> "participants" \in expected

\* validate_summary: what the summary says ...
ValidSummary ==
  status = "success" /\ protocol = "success" /\ measurement = "observed" /\ clean

\* ... and whether the files it lists can be read.
OutputsReadable == {"metadata", "csv", "summary", "timing"} \subseteq files

AllFound(listed) == listed                          \* mutant

\* check_cleanup: containers docker lists by name or by Containernet's label,
\* those of the configuration run_scenario has loaded only.
Residual(listed) == listed \intersect Named(NamesOf(expected), Nodes)

\* What is on the host: the run's containers, those earlier runs left under
\* the names the file had before the edit, or has since, and others.
OnHost == Named(names, containers) \union Named(3 - names, strangers) \union Foreign

\* Each "docker ps" that fails lists nothing.
Judge ==
  /\ vpc = "waiting" /\ ~Running
  /\ IF RunSucceeded /\ "summary" \in files /\ pc = "ended"
     THEN \E fails \in {FALSE, DockerMayFail} :
            /\ deaf' = fails
            /\ End(IF /\ SameParticipants /\ ValidSummary /\ OutputsReadable
                      /\ Residual(IF fails THEN {} ELSE OnHost) = {}
                   THEN "0" ELSE "1")
     ELSE End("1") /\ UNCHANGED deaf
  /\ UNCHANGED <<vars, expected, reading, clean>>
-----------------------------------------------------------------------------
(* The user.                                                               *)

Edit ==
  /\ edition = {} /\ edition' \in SUBSET Edits
  /\ UNCHANGED <<vars, validator, used, clean>>

\* Validate again.  A validation that never started run.py leaves none behind.
Again ==
  /\ vpc = "over" /\ Restart
  /\ vpc' = "load" /\ verdict' = None
  /\ expected' = NotRead /\ used' = NotRead /\ clean' = FALSE /\ deaf' = FALSE
  /\ UNCHANGED edition

Finished == vpc = "over" /\ (Running \/ run = Runs) /\ UNCHANGED svars

SNext == \/ Load \/ Prerequisites \/ RunScenario
         \/ RunStep \/ SignalRun \/ CtrlC \/ KillRun \/ Judge
         \/ Edit \/ Again \/ Finished

SSpec == SInit /\ [][SNext]_svars
-----------------------------------------------------------------------------
(* Properties.                                                             *)

(* README.md: exit code 0 means that the platform executed the scenario    *)
(* and produced its artefacts.  Every phase of run.py ended without an     *)
(* exception, and of its processes none is left running, which the         *)
(* validator does not look at; nor is the network up, unless both attempts *)
(* to take it down failed.  The run was one between the participants the   *)
(* validator had loaded, whatever else was edited meanwhile.  A container  *)
(* of it can be left only if net.stop failed, and then only if docker did  *)
(* not answer or the container names were edited between the two readings. *)
PassMeansExecuted ==
  verdict = "0" =>
    /\ \A k \in 1..Len(Phases) : phases[k] = <<Phases[k], "ok">>
    /\ alive = {}
    /\ mininet => {"leak", "raise"} \subseteq met
    /\ "participants" \in used <=> "participants" \in expected
    /\ containers # {} => /\ "leak" \in met
                          /\ deaf \/ NamesOf(used) # NamesOf(expected)

(* A sound run passes: one that met no fault and succeeded, with receivers *)
(* that exit with 0 and a file whose participants and container names were *)
(* not edited between the readings, is not failed for what other           *)
(* experiments, or earlier runs under any names, have left on the host.    *)
SoundRunPasses ==
  /\ vpc = "over" /\ verdict \in {"0", "1"} /\ pc = "ended"
  /\ met = {} /\ exit = "0" /\ clean
  /\ used \ {"rest"} = expected \ {"rest"}
  => verdict = "0"

(* README.md: PASSED means that the platform cleaned up and left no        *)
(* container.  A "docker ps" that fails counts as one that lists nothing.  *)
PassMeansClean == verdict = "0" => containers = {}
=============================================================================
