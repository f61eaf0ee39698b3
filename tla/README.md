# A verification project for Demo-1-Testbed

The testbed runs one networking experiment at a time. `scripts/run.py` reads a
configuration, builds an emulated Wi-Fi mesh of Docker containers, waits until
the sender reaches every receiver, captures the traffic at each participant,
runs the researcher's receiver and sender executables, judges the outcome,
writes the results and cleans the host up. Its difficulty is not in the data it
handles but in the processes it does not control: a receiver, a `tcpdump`, the
mesh or the operator's Ctrl-C may act between any two of its statements, and a
wrong verdict or a leftover container spoils the *next* experiment too.

This directory models that in TLA+, checks it with TLC on small instances and
proves what matters most with TLAPS for every size.

    tlc -config Scenario.cfg Scenario.tla  # a run; the module of each is below
    tlapm RunnerProofs.tla                 # a proof

## 1. The system

Arrows are calls; everything runs in one Python thread, except the processes.

    run.py main() --> config.load_config
                  --> rundir.prepare_run_directory --> metadata.write_metadata
                  --> network.cleanup_stale_environment
                  --> network.build_network --> network.wait_for_network
                  --> metrics.start_capture ==> one tcpdump per participant
                  --> runner.execute_protocol ==> receivers, then the sender
                  --> CaptureSet.stop --> metrics.write_outputs
       finally:   --> CaptureSet.stop, NetworkContext.stop, cleanup_mininet,
                      timing.write_timing
    validate_scenario.py ==> run.py, and reads what it wrote

| Component | State | Operations | What is hard | What makes it correct |
|---|---|---|---|---|
| Runner (`testbed/runner.py`) | `receiver_records`, `sender_record`, `failures`, each record's `exit_code` and `ended_at` | `execute_protocol`, `stop_receivers`, `ProcessRecord.finish` | processes exit between a poll and what follows it; ignore SIGTERM; leave descendants that hold their pipes; print bytes that are not text; delays that are no finite number; Ctrl-C | every receiver lost is reported, once; a controlled stop is no failure; receivers outlive the sender; nothing is left running; it ends |
| Capture (`testbed/metrics.py`) | `_result`, `_process`, `_pcap_file` of each `Capture`; `_result` of the set | `start_capture`, `CaptureSet.start`, `stop` on both | a tcpdump dies at any moment; `stop` is called up to twice, and may raise in the middle of the set | all are stopped; the verdict tells a death from the exit `stop` caused; results are stable |
| Network readiness (`network.py`) | `pending`, the deadline, the nodes' neighbour caches | `wait_for_network`, `_ping` | receivers come and go, pings are lost, a round takes long, a flush may fail | ready means everybody answered and every cache was flushed; the wait is bounded |
| Network construction, host cleanup (`network.py`) | containers, the network object, the emulated network | `build_network`, `NetworkContext.stop`, `cleanup_mininet`, `cleanup_stale_environment` | failure half-way, crash, interrupt | what one fault can leave is bounded; whatever stays does not stop the next run |
| Orchestrator (`run.py`) | `output`, `network_attempted`, `network`, `capture`, `protocol_result`, `capture_result`, exit code | `main` | an exception anywhere, also inside `finally` | each cleanup step is tried, in order; exit code and summary agree |
| Timeline (`testbed/timing.py`) | `_current`, `phases` | `start`, `fail`, `finish` | called on every path of `main` | `timing.json` lists the phases entered, and marks the one that failed |
| Run directory (`testbed/rundir.py`) | the directories of an experiment | `prepare_run_directory` | two runs in one second, a failure after `mkdir` | no two runs share one |
| Scenario validation (`validate_scenario.py`) | two listings of the directory, the configuration it has read | `main`, `run_scenario`, `validate_summary`, `check_cleanup` | other runs create directories in between; the configuration is edited between two readings; Ctrl-C reaches it and `run.py`; docker does not answer | it judges the run it started, against what it asked for; a sound run passes |
| Configuration (`testbed/config.py`) | the nodes, names and addresses normalised so far | `load_config`, the validators, `select_destination` | numeric edges (`.inf`, `.nan`, huge integers, booleans), blanks, defaults that collide with explicit values, links in `bin/` | what is accepted has distinct nodes and a destination that fits; nothing written in it is ignored |
| Metadata (`testbed/metadata.py`) | none | `write_metadata` | every probe may fail | no failure of a probe ends the run |
| Reference binaries (`bin/receiver`, `bin/sender`) | the receiver's `running` flag | receive loop, SIGTERM handler, one datagram | SIGTERM before the handler is installed or while `recvfrom` waits; a datagram in flight at the shutdown | a clean stop exits with 0; what was sent in time is read |

The line of each hazard and the properties that cover it are in
`PROJECT.json`, "hazards".

## 2. The modules

| Module | Models | Depends on |
|---|---|---|
| `Runner` | `execute_protocol` with the processes it supervises | |
| `Supervision` | what `execute_protocol` promises `run.py`, with no polls, signals or timeouts | |
| `RunnerRefinement` | the mapping by which `Runner` implements `Supervision` | `Runner`, instance of `Supervision` |
| `RunnerProofs` | theorems about `Runner` | `Runner` |
| `RefinementProofs` | the proof that `Runner` implements `Supervision` | `RunnerRefinement`, `RunnerProofs` |
| `Executables` | `bin/receiver`, `bin/sender` and the network between them, under the runner's delays | |
| `Timing` | the two clocks, the Timeline, the sender's record and the capture's time stamps over `Executables` | `Executables` |
| `TimingProofs` | theorems about `Timing` and the `Executables` it composes | `Timing` |
| `Capture` | the `Capture` objects and their set, as `run.py` uses them | |
| `CaptureProofs` | theorems about `Capture` | `Capture` |
| `Values` | the values of a YAML document and the checks of one of them | |
| `Config` | `normalize_config` over a document | `Values` |
| `ConfigProofs` | theorems about `Config` | `Config` |
| `Mesh` | `wait_for_network` over a mesh that changes | `Values` |
| `MeshProofs` | theorems about `Mesh` | `Mesh` |
| `Run` | `main` of `run.py` over several runs on one host, with the Timeline, `build_network` and the cleanup | the outcomes the other modules establish |
| `Scenario` | `validate_scenario.py` around `Run` | `Run` |
| `ScenarioProofs` | theorems about `Run` and `Scenario` | `Scenario` |
| `RunDir` | concurrent searches for a directory, and the validations that look for the result | instance of `Allocation` |
| `Allocation` | what that search promises: at one instant, the first free name of the stamp | |
| `RunDirProofs` | theorems about `RunDir`, and that it implements `Allocation` | `RunDir` |

`Run` takes the outcomes of its callees from the modules that model them:
`ProtocolEnds` clears the protocol's processes because `Runner` guarantees
`NothingLeft`, and `StartCapture` leaves no tcpdump after one exception because
`Capture` guarantees `AllStopped`. Where those modules show that a callee can
leave something (an exception in `stop_receivers`, two exceptions in a capture)
`Run` has a "leak" alternative, and so it has where a call of network.py fails with a
container created (`addStation`) or swallows the failure of `net.stop`. `Mesh` takes from `Values` which timeouts the
configuration lets through, so the edge that `_positive_float` leaves open is
the one that decides whether a wait ends.

### How state and actions correspond to the code

*Runner.* `pc` is the statement about to be executed and `idx` the position of
its loop. `start_receiver`, `check`, `start_sender`, `send`, `terminate_sender`,
`send_term`, `kill_sender`, `send_kill`, `drain` are the `try` block of
`execute_protocol`; `poll`, `terminate`, `finish`, `kill`, `reap` are `stop_receivers`.
A poll and the `terminate()` that follows are two steps because a process may exit in
between, and so are a timeout that expires and the `terminate()` or `kill()` after it.
The variables `os`, `code`, `term`, `kill`, `held` are the operating system's view of
each process, and `exitCode`, `ended`, `failures` what the Python objects remember;
the runner's actions read the former only through `poll`, `communicate`,
`terminate` and `kill`. `Popen.terminate` does nothing to a process that has
exited. `communicate` needs the process to have exited *and* its pipes to be
closed, so a descendant that inherited them (`held`) delays it; and it decodes
the output, so a process in `Binary` makes it raise. `endless` are the delays of the
experiment that are no finite number: `time.sleep` and `communicate` raise for
them, the latter with the process still running. `lost` is a history
variable: the receivers that exited before the shutdown got to poll them; `late` says
that the sender was running when its time was over. The
strings in `failures` are pairs of what happened and to whom.

*Executables, Timing.* `now` counts ticks of the monotonic clock. What the
executables do on their own (start, bind, send, end) takes any time; what is
waited for is `Urgent` and happens in the tick it is due. The runner is reduced to its
delays: `pc` and `due` are the present one. `mine` is the receiver that is followed, at
any place among the N, `turn` the one `finish()` waits for: all get SIGTERM at once, then
each has `shutdown_timeout_seconds` of its own before it is killed, one after the other.
Of the other receivers only how long that takes matters, which is anything up to the
whole delay. A sender that has not ended in its time gets SIGTERM (`term`), and after
another delay is killed. `rx` is the receiver's progress (`boot` before the handlers are
installed, `handlers` before the socket is bound), `running` its global and `wake` the end
of the half second `recvfrom` waits. `Timing` adds the wall clock (`offset`,
changed at most once), `Timeline`, and the instants a packet and a process get;
it composes every action of `Executables` with the record taken there.

*Capture.* `caller` is which of the four calls of `CaptureSet.stop` is being
made: `"dead"` (a tcpdump was dead at the startup check), `"except"`
(`CaptureSet.start`'s except clause), `"stop_capture"` (the phase) and
`"cleanup"` (`run.py`'s `finally`). A poll and the signal after it are one step
here, since the signal is only sent to a live process and the interval adds no
state the verdict depends on. `early` is the history of tcpdumps that died
before the last poll that could notice.

*Values, Config.* A value is its type, the number it stands for, its text
without surrounding blanks (a string with blanks differs from one without) and its
items. Each validator is an operator that yields `"ok"` or the exception it
raises; `First` is the order in which the code makes the checks of a section,
and `Next` takes the sections in the order of `normalize_config`, the nodes one
by one. A text's attributes (is it a path of `bin/`, where does a link lead,
which address is it) are tables of the texts that occur.

*Mesh.* Time is an integer clock. Each ping takes 0 to `PingWait` units,
answered or not; reachability changes between any two steps, and an answer may
be lost although the neighbour entry it caused stays. A flush may fail, which the code
does not look at: `unflushed` is the history of the nodes where it did. The timeout is any value
`Values` accepts for it; with one that is not finite the clock is not counted.

*Run.* `pc` is the call `main` is in; the phases are the names `main` gives its
Timeline. Every call may raise; `Interrupt` takes the path on which no
`except Exception` runs; `Crash` takes none at all, and `Restart` begins the
next run on the host as it is. Both may leave the call they hit half done
(`CutShort`). `containers`, `mininet` and `alive` are the host; `strangers` are the
containers earlier runs left under names the configuration no longer has (`names`),
which a run does not look for.
`output`, `attempted`, `network`, `capture` are the locals of `main` the
`finally` block tests. The summary is written (`WriteOutputs`) before the line that
reports it is printed (`Report`), which may raise.

*Scenario.* `vpc` is the call the validator is in. While it waits, `Run`'s steps
are the subprocess's; a signal hits `run.py` alone or, as Ctrl-C does, both, and
then `subprocess.run` kills what is left of `run.py`. The configuration file is read by
`main`, by `run_scenario` and by `run.py`; its `edition` is the set of its parts that
have been edited: the participants (mode, sender, receivers, destination, id), which
`validate_summary` compares with the summary, the container names, which
`check_cleanup` looks for, and the rest (durations, port, positions, binaries, images),
which nobody compares.

*RunDir.* A directory name is its time stamp and the number of its suffix; a
clock may give several runs the same stamp. `mkdir(exist_ok=False)` is one
atomic step, which is what POSIX gives; everything else interleaves. `pc` is
where one validation is: before its first listing, before `run.py` reads the clock,
in the loop that tries names, before the second listing, or at its verdict. From its
start to its end `run.py` may return another code (`RunFails`), with a directory or
without. `Allocation` has neither the loop nor the listings: one step takes the first
free suffix of a stamp, and a validation whose run returns 0 passes exactly if no
other run has taken a directory since it began.

## 3. The runs

| Run | Module | Instance | States | What it shows |
|---|---|---|---|---|
| `Runner` | `RunnerRefinement` | 3 receivers, descendants of the sender and of receiver 1, start-up and drain delay finite or not | 327 160 | each receiver lost is reported exactly once and no other is; success is clean; nothing is left; receivers are signalled only after the sender; every behaviour is one of `Supervision` |
| `RunnerFaults` | `Runner` | 2 receivers, undecodable output of the sender and receiver 2, descendants, any delay finite or not, one Ctrl-C | 159 846 | an exception of the sender, or of a wait, skips no receiver's shutdown; `execute_protocol` ends whatever the processes do with SIGTERM, unless it waits for pipes after a kill |
| `Capture` | `Capture` | 3 captures, 1 exception | 13 343 | all are stopped and closed; the measurement names those that died early and no other, and a valid one covers the protocol; `stop` ends |
| `Mesh` | `Mesh` | 2 receivers, every accepted timeout among 0, 12, the infinities, NaN and a huge integer, ping 5, pause 1 | 3 900 | ready is answered, and clean but for failed flushes; a failure names the silent; the overrun is at most a round and a pause; the wait ends if the timeout is finite or the pings come to be answered |
| `Config` | `Config` | every document that differs from a small one in at most 2 values | 87 635 | accepted nodes do not collide; an accepted protocol section has a port, a sender, receivers and a destination that fit; the file checked is the file the container sees; no unknown key passes; a document that writes the same in another way, or goes to the edge of a field, is accepted |
| `Timing` | `Timing` | 1 of 2 receivers, 1 sender, 1 datagram, 1 adjustment of the clock | 4 393 247 | a receiver that listens stops with 0; what arrives within the drain delay is read; the waits end within duration, drain and a shutdown delay for the sender and each receiver; durations are right whatever the wall clock does, and add up; unless it is adjusted, a packet is stamped within the phase or only after the drain delay |
| `Scenario` | `Scenario` | 2 nodes, 2 validations, 2 faults of any kind, a foreign container, an edit of any parts of the file, docker that may not answer | 550 172 | a run without faults of its own completes whatever earlier ones left; timing.json, summary and exit code agree; what one fault leaves on the host is nothing, or of one kind; the capture ends before the network; PASSED means that every phase ended well, with nothing running; and a sound run gets it |
| `RunDir` | `RunDir` | 3 validations, 2 stamps, any earlier directories, runs that fail | 727 776 | no directory is shared, a validation judges its own run, every search ends, and ends as if it had been one step |

Four more runs each contradict one statement of the repository's documents, with
the shortest behaviour that does it:

| Run | Statement | What the code does |
|---|---|---|
| `RunnerRace` | RELATORIO_TECNICO.md:158: a spontaneous exit is a failure | one between `poll()` and `terminate()` in `stop_receivers` is not reported, and the run may be a success |
| `RunnerOutput` | BIN_INTERFACE.md:51: messages are not interpreted | `text=True` decodes them strictly, and `execute_protocol` raises for output that is not text |
| `MeshForever` | DECISOES.md:68: no answer within the timeout fails the run | `.nan` and `.inf` are accepted for the timeout and no elapsed time reaches either |
| `PassMeansClean` | README.md:144: PASSED means no container is left | a `docker ps` that fails lists nothing, which is taken for a clean host |

Other disagreements met while modelling, which the models contain but no run is
spent on:

- `.inf` and `.nan` are accepted for every delay (config.py:68). For the start-up and the
  drain delay the sleep raises and the receivers are stopped; for `duration_seconds` the
  wait for the sender raises while it runs, and nobody stops it; for
  `shutdown_timeout_seconds` the receivers that have not exited by themselves are
  signalled and not collected. `RunnerFaults` has these, and the properties name them;
- `docker ps` is asked for the container names of one reading of the file, `run.py` runs
  with those of another (`PassMeansExecuted` says so);
- an answer in the round in which the deadline passes still counts (network.py:167
  against DECISOES.md:68), since success is tested first;
- Ctrl-C is no `Exception`: the phase it hits is closed as `ok` (DECISOES.md:319
  says the phase that failed is marked);
- `prepare_run_directory` can fail after `mkdir`, and then there is a directory
  without timing.json (DECISOES.md:337);
- a network whose construction was interrupted is unknown to `main`; `mn -c`
  removes none of its containers (RELATORIO_TECNICO.md:136).

### Bounds

Two receivers distinguish "the one in hand" from "another one", three add one
between; the loops treat all alike, and the theorems of section 4 cover any
number. Mesh's numbers let two rounds end before the deadline and a third cross
it, and keep a whole silent round (2 * 5) shorter than the timeout.

In `Timing` a tick is half a second: `Poll` is 1, the sender's least wait 1
(0.1 s, rounded up), and `Shutdowns` lies on
both sides of the edge (1: killed while it waits; 2: not). `Latency` 2 reaches
`Drain` 2, so a datagram can come too late, and `Durations` {1, 3} has the start-up delay
use the duration up, or not. Two receivers are enough to have one waited for before
`mine` and one after. An adjustment of 40 ticks is longer
than a whole run, so that a duration taken from the wall clock cannot be
right by chance. `Config` changes two values at a time because every check
compares at most two: a node with another, an address with a subnet, a mode
with a list, a path with what it leads to.

In `Scenario` two validations with two faults allow one damaged run before a
sound one, or two faults in one run (a failure during the cleanup of another). In
`RunDir` three validations with two stamps give a collision, a second collision
behind it and a run with another stamp; the directories there at the start are
any of the first two names of each stamp. `MaxFaults` in `Capture` is 1 because
with two exceptions a tcpdump does survive `AllStopped`: one in the phase, one in
the cleanup, after which nobody calls `stop` again.

Conditions in the properties are part of the claim. `LeavesHostClean` has a part per
kind of fault. One exception leaves nothing if the call it comes from cleaned up its own,
which most do. Not all do: a `UnicodeDecodeError` in `stop_receivers` (runner.py:167)
leaves receivers running, an `addStation` that fails with its container created leaves
the container (network.py:86), and `net.stop` may fail. For these the property says what
one of them may leave. Two faults or a crash may leave anything, and
`UndisturbedRunCompletes` says that this does not stop the next run. `CaptureEndsFirst`
is about exceptions of the first sort.
`SuccessIsClean` and `EveryLossReportedOnce` are about normal returns. `SenderFirst` and
`Supervises` leave out the cases in which the wait for the sender itself is cut short, by
Ctrl-C or by a duration or shutdown delay that is no finite number: `stop_receivers`
then runs with the sender up.
`ReceiversCollected` is about the receivers before the first whose own output
raises in `stop_receivers`: that exception ends its loop. `SoundRunPasses` is
about receivers that exit with 0 and a file whose participants and names nobody edits;
`PassMeansExecuted` says of the containers only what docker's answer lets the validator
know, and of an edited file only that the participants are the same: a run with another
duration, port, image, executable or position than the validator loaded passes.
`DestinationIsRight` says nothing of the delays, for which `.inf` and `.nan` are accepted.
`ProtocolEndsInTime` counts the runner's waits, with finite delays; spawning and the
statements between the waits take no time in the model, and a killed process and its
pipes are gone at once.

### Fairness

`WF(Step)` wherever liveness is checked: the Python thread is scheduled and its timeouts
expire; nothing else competes for it. A process is obliged to exit only by
SIGKILL (`WF(Exit(p, "sigkill"))`, enabled only once it was delivered), so
`Terminates` holds against processes that ignore SIGTERM. Nothing obliges a
descendant to close the pipes it holds: `finish(timeout=None)` after the kill
waits for them, so `Terminates` of `Runner` promises an end, or a stay in just that
wait for a process that has exited (`WaitsForPipes`): no other wait is held up for ever
by a descendant. In `Mesh` nothing is assumed of the mesh: with
a finite timeout the wait ends anyway, with `.inf` it does if from some moment
on no ping goes unanswered. `Scenario`, `Config` and `Timing` are checked for
safety only; `Timing` bounds its deadlines by not letting time pass them.
In `RunDir` fairness is per process, and a search ends because the others create
finitely many names; nothing obliges a run to fail (`RunFails` is not fair).

## 4. The proofs

Every invariant and action property of the passing runs, and both refinements, are
proved for all values of the constants:

| Module | Values | Theorem | Property |
|---|---|---|---|
| `RunnerProofs` | any number of receivers, any processes with undecodable output or lingering descendants, any delays that are no finite number, interrupted or not | `TypeCorrect` | `TypeOK` |
| | | `LossesReported` | `EveryLossReportedOnce` |
| | | `ControlledStop` | `ControlledStopIsNoFailure` (theorem only) |
| | | `NothingLeftBehind` | `NothingLeft` |
| | | `SuccessfulIsClean` | `SuccessIsClean` |
| | | `SenderComesFirst` | `SenderFirst` |
| | | `ShutdownIsComplete` | `ReceiversCollected` |
| | | `StepsAreBounded` | `RemainingIsBounded`, `EachStepCounts` (theorem only) |
| `RefinementProofs` | the same | `Implementation` | `Supervises`, unless the wait for the sender is cut short |
| `CaptureProofs` | any number of captures and exceptions | `TypeCorrect` | `TypeOK` |
| | | `MeasurementAccurate` | `MeasurementIsAccurate` |
| | | `NoneLeftRunning` | `AllStopped`, if there is at most one exception |
| | | `StepsAreBounded` | `RemainingIsBounded`, `EachStepCounts` (theorem only) |
| `MeshProofs` | any number of receivers, any ping and pause, any finite timeouts beside the others | `TypeCorrect` | `TypeOK` |
| | | `RightAnswer` | `AnswerIsRight` |
| | | `WaitIsBounded` | `BoundedWait` |
| `ScenarioProofs` | any number of nodes, runs, faults and validations, any faults and foreign containers | `ValidatorTypes` | `STypeOK` |
| | | `UndisturbedRuns` | `UndisturbedRunCompletes` |
| | | `TimingIsTrue` | `TimingTellsTheTruth` |
| | | `ExitCodeTells` | `ExitCodeIsHonest` |
| | | `HostIsLeftClean` | `LeavesHostClean` |
| | | `CaptureEndsBeforeNetwork` | `CaptureEndsFirst` |
| | | `PassIsExecuted` | `PassMeansExecuted` |
| | | `SoundRunIsPassed` | `SoundRunPasses` |
| `ConfigProofs` | any document with up to three nodes | `NormalizeTypes` | `TypeOK` |
| | | `NodesAreApart` | `NodesDoNotCollide` |
| | | `AcceptedDestination` | `DestinationIsRight` |
| | | `ContainerRunsTheChecked` | `ContainerRunsWhatWasChecked` |
| | | `NoKeyIsIgnored` | `NothingIgnored` |
| | | `HarmlessPasses` | `HarmlessIsAccepted` |
| `TimingProofs` | any number of receivers, any delays, latency, set-up time and adjustment | `StopsCleanly` | `ListeningReceiverStopsCleanly` |
| | | `NothingArrivesTooLate` | `DrainIsEnough` |
| | | `EndsInTime` | `ProtocolEndsInTime` |
| | | `TimelineTypes` | `TTypeOK` |
| | | `DurationsAreWhole` | `DurationsAddUp` |
| | | `PacketsAreAligned` | `PacketsAlign` |
| `RunDirProofs` | any set of validations, any finite nonempty set of stamps | `DirectoryTypes` | `TypeOK` (theorem only) |
| | | `DirectoriesAreExclusive` | `NeverShared` |
| | | `NoForeignDirectory` | `ValidatesItsOwn` |
| | | `SuffixesInOrder` | `NoGap` (theorem only) |
| | | `SearchIsAtomic` | `AllocatesAtomically` |
| | | `SearchesAreShort` | `SearchIsShort` (theorem only) |

They assume only the assumptions the modules state of their constants
(`RunnerAssumption`, `CaptureAssumption`, ...), which TLC evaluates in the runs. Each
inductive invariant was checked by TLC on a small instance before it was proved.

*The argument for Runner.* `EveryLossReportedOnce` is about the end of a run and
is not inductive: which report a receiver gets is decided in two loops far
apart, and what connects them is the `exit_code` the startup check stores. `IInv`
therefore says at each point what is known:

- `Progress`: where each loop stands relative to the number of records;
- `Started`: the processes spawned are those with a record;
- `Losses`: `lost` is exactly the receivers that exited before their poll;
- `Reports`: a startup report goes with a stored exit code, an unexpected exit
  is only reported past the poll and never in addition, and past its poll a
  lost receiver has one of the two;
- `Signals`: only a receiver past its poll, and not lost, is ever signalled,
  which with `Reports` gives `ControlledStopIsNoFailure`;
- `SenderSafe`, `ReceiversSafe`: who is collected by when, and what an empty
  list of failures says of the sender.

Each part has an `...Inductive` lemma. `Effects` first reduces a step to a list
of effects, so that `EnterFinally`, reached from seven actions, is analysed
once; `ReportsKept`, `ReportsInTry` and `ReportsOnEntry` carry `Reports` over
the steps that concern other things, and the proof then looks at the checks,
polls and exits. `SenderComesFirst` and `ShutdownIsComplete` need no more: a signal
to a receiver is sent from `stop_receivers`, which an uninterrupted run enters
only once the sender is over (`SenderSafe`), and a loop that has passed a
receiver has collected it (`ReceiversSafe`).

*The argument for the refinement.* `RunnerRefinement` maps the operating system's
processes to idle, up and down, the sender's end to `"ok"` or `"bad"`, and a
receiver's shutdown poll to its dismissal. `Effects` gives what a step changes, and
there is a lemma per kind of step: starts, exits, polls and the last record's end are
abstract actions, everything else (checks, signals, waits) leaves the mapped
variables alone. The step that returns is the hard one: that the abstract verdict
may be `"success"` there is `SuccessIsClean`. The
theorem is about behaviours in which the wait for the sender is not cut short (`CutShort`),
since Ctrl-C, or a wait that raises, leads to `stop_receivers` while the sender may still
be up, which `Supervision` excludes; the run has neither for the same reason.

*The argument for Capture.* The verdict on a tcpdump depends on one poll, and the
loop is entered up to twice. `Judged` says that in the `stop_capture` phase a
capture whose poll is still to come is unsignalled and without a result, so that
"exited" means "died early", and that those behind the loop have the right
verdict. `Calls` says which call may follow which, and after how many
exceptions; `Closing` that a result is given only to a capture that is stopped
and closed. So a second call skips what the first has settled, and an end
after at most one exception has a result for each capture (`Ended`). Three of the
actions give a result, and share the lemma `ConclusionKeeps`.

*The argument for Mesh.* `BoundedWait` is not inductive: a ping may add to a wait
that already is at its bound. `Spent` counts: when a round begins less than
deadline and pause have passed, and every ping of it adds at most `PingWait`.
`Waiting` and `Places` give `AnswerIsRight`: the flush goes from node 0 to node N, and
behind it an entry is left only where it failed. That an accepted finite timeout is
positive, which the first round needs, is proved of `_positive_float` as
`Values` has it (`FiniteTimeout`).

*The argument for Run and Scenario.* What holds at the end of `main` was decided in
the `try` block and survives, or not, an exception anywhere in the `finally` block.
`RInv` therefore has a part per concern, each saying at every point what is known:
`Timings` which phases the Timeline has closed, and as what; `Outcome` how the
exit code, the summary and the two verdicts go together; `Blame` which faults
have been met where; `Undisturbed` which files a run without faults has;
`Given` which of its locals `main` has set; `BuiltSoFar`, `Restored`, `Salvaged` and
`Spilled` what is on the host on the way in, after one exception that left nothing, one
Ctrl-C, and one call that leaves something itself; `Completed` what a run that
ends with exit code 0 has been through. Each part
is proved over `RNext`, which contains the steps of `run.py` by itself and those under
its validator, so that each theorem about `run.py` holds for both
specifications (`Spec` and `SSpec`). The validator's invariant adds where `run.py` is
while it waits (`Waiting`) and which edition of the files each of the two has read
(`Readings`): an edit may come between the two readings, and the verdict sees only the
fields the validator compares. `UndisturbedRunCompletes` needs nothing of what earlier
runs have left: an undisturbed run passes `prepare_host`, whose `docker rm` removes the
leftover containers `build_network` would fail over.

*The argument for Config.* `AnySpec` is `normalize_config` on any document whose lists
are lists, whose port has a number, and which has at most three nodes; `Spec` takes
those near one base document, and `SpecIsAnySpec` shows that these have the shape. `CInv` says for
each section what its checks, once passed, have left true: `FirstIs` takes the
sequence of checks apart, so each `...Keeps` lemma is about one section and cites
the checks it needs. `Apart` carries that each node was compared with all those
before it, `Known` that each section's keys were looked at, `Runnable` and `Named` what
makes a protocol section executable, `Placed` where an executable leads.
`HarmlessPasses` goes the other way, from a document to the verdict, and so needs
every check of every section to pass: `Harmless...` lemmas list what a section of a
harmless document may hold, `...Passes` lemmas show that no check objects, and
`NodePasses` also needs that the nodes taken so far are the document's own
(`HarmlessInv`), for otherwise one could collide with the next. TLC changes at most
two fields at a time; the theorem has any number, and any document of the shape above
that `IsHarmless`.

*The argument for Timing.* `Listener` bounds the time a receiver that was told to
stop can still wait in `recvfrom` by the moment of the signal plus `Poll`, which
lies before the runner's deadline exactly if `shutdown` exceeds `Poll`. `Sent` keeps
the drain delay's end at least `Drain` after the sending, and `Delivered` says that
a datagram on a receiver's socket is read in the tick it arrived, so one still
unread at the stop has arrived too late. `Bounds` follows `due` through the
runner's waits: each receiver's begins no later than the one before was due, so that
`turn` shutdown delays have passed at most. On top of this, `TIInv` follows the records: `Recorded` places the
sender's start and end relative to the runner's position and to the drain delay,
`Measured` says how far the timeline is and that the durations so far, all from
the monotonic clock, reach to its present phase, and `Unadjusted` that the two
clocks agree in every instant taken until the wall clock is adjusted. None of these
but the last mentions the wall clock, which is why `DurationsAddUp` holds whatever it
does and `PacketsAlign` only until it is changed.

*The argument for RunDir.* A run's directory is one it added itself (`Owns`), so
nobody had it and no listing made before contains it (`Listed`). If there is
exactly one new directory, it must be the run's own. `Tried` says that the names
a search has passed are taken, which gives `NoGap`. The refinement of `Allocation` needs all
three: `mkdir` takes the first free suffix because of `Tried`, and one within the
bound `Take` puts on it because of the pigeonhole principle (`FreeSuffixIsSmall`: with n
directories there, n + 1 suffixes cannot all be taken); the second listing agrees with
`crowded`, which is mapped to the open validations that would see a directory not
their own, because a run adds its own after its validation's first listing and
nothing is ever removed. Reading the clock and a failed try are stutters.

*Model-checked only.* Liveness (`Terminates` of `Runner`, `Capture` and `Mesh`,
`EveryRunGetsOne`), which is out of the prover's reach. What is proved of it is the part
that is about safety. `Remaining` counts the steps the runner, and `run.py` with its
captures, have at most left; each of their steps lowers it and nothing raises it
(`StepsAreBounded`: 7 N + 7 steps for N receivers, 12 M + 1 for M captures), so that
only a wait for a process can keep either from its end. `BoundedWait` does the same for
a mesh with a finite timeout, and `SearchesAreShort` for the search for a name. That each
wait ends, which takes the fairness of section 3, is TLC's.
`ConfigProofs` has at most three nodes because a document of `Config` has a section for
each; the loop over them treats all alike.

*What the proofs changed.* Two arms of the `CASE` in `Config`'s `Alternatives` could
both apply, which TLC never shows as it takes the first; they are disjoint now.
Addresses and paths are functions, and the durations in `DurationsAddUp` a sum of
three terms instead of a fold, which the provers cannot expand. `HarmlessIsAccepted`
covers more fields, each by its own section, and any number of changes. `RunDir` had
no run that fails; with `RunFails`, which the refinement of `Allocation` asked for,
`EveryRunGetsOne` says that a search ends with a directory unless its run fails. No
other property says less than before.

## 5. What is not modelled

- Reading the configuration file and the YAML parser; a file that cannot be
  decoded, or an integer that overflows `float()`, ends `run.py` with an
  exception other than `ConfigError` (the second one `Values` has). Not compared
  by the code, and so not by `Config`: a node's prefix length with the subnet's,
  and the experiment's subnet with the network of the containers.
- The numbers of `write_outputs` (delays, rates, the columns of the CSV) and the
  content of `metadata.json`: reporting with no control flow that others depend
  on; only that writing them may fail. A clock set back during a capture gives
  negative intervals, and a packet may carry a time before its sender's
  `started_at`, which is read after the process is spawned.
- That the configuration copied to a run's directory (rundir.py:55) is not the
  one that was loaded, and that the hashes of the executables
  (metadata.py:91) are not those of the run, if either is changed meanwhile:
  nothing in the code looks at them again. `Scenario` has the edited file where
  something does.
- Radio, propagation, BATMAN parameters and addressing passed to
  Mininet-WiFi: outside the code's own logic.
- The single prerequisites of the validator are one outcome, and so are the
  reasons for which a summary does not match.
- `poc_mobility.py` (a temporary diagnostic), the Docker image build, the
  vendored Containernet (modelled where `network.py` uses it).
- Wall-clock durations outside `Mesh`, `Executables` and `Timing`: in `Runner` and
  `Capture` a timeout may expire whenever its event has not happened.

## 6. The plan

Done, in this order: `Runner` and its abstract specification; `Capture`; `Mesh`;
`Run`; `RunDir`; the proofs of `Runner` and `RunDir`; `Values` and `Config`;
`Scenario` around `Run`; `Executables` and `Timing`; the proofs of `Mesh`,
`Capture` and `Timing`; the refinement of `Supervision`; the proofs of `Scenario` with
`Run` and of `Config`; the acceptance of every harmless document; `Allocation` and its
refinement by `RunDir`.

Left, most valuable first:

1. An instance of `Supervision` in `Run` in place of the outcomes it lists.
2. The rows `write_outputs` computes from the packets, against a definition over
   the set of packets.
