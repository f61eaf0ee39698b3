---------------------------- MODULE RunnerProofs ----------------------------
(***************************************************************************)
(* Proofs about Runner, for any number of receivers, any processes with    *)
(* undecodable output or lingering descendants, interrupted or not.        *)
(***************************************************************************)
EXTENDS Runner, TLAPS

\* Where the loops are, and how many records there are by then.
Progress ==
  /\ pc = "start_receiver" => idx = nrec + 1
  /\ pc \in TryPoints \ {"start_receiver"} => nrec = N
  /\ pc \in {"check"} \union FinallyPoints => idx <= nrec

\* The receivers that run, or have run, are those with a record.
Started ==
  /\ \A p \in Receivers : Spawned(p) <=> p <= nrec
  /\ Spawned(Sender) => nrec = N /\ pc \notin {"start_receiver", "check", "start_sender"}

\* `lost' holds the receivers that exited before their shutdown poll.
Losses ==
  /\ \A p \in Procs : os[p] = "exited" => code[p] # None
  /\ \A p \in Receivers : p \in lost => os[p] = "exited"
  /\ \A p \in Receivers : BeforeShutdownPoll(p) /\ os[p] = "exited" => p \in lost

\* What the failures say of the receivers, and what exit_code remembers.
Reports ==
  \A p \in Receivers :
    /\ <<"startup", p>> \in failures => p \in lost /\ exitCode[p] # None
    /\ <<"unexpected", p>> \in failures =>
         p \in lost /\ ~BeforeShutdownPoll(p) /\ <<"startup", p>> \notin failures
    /\ p \in lost /\ ~BeforeShutdownPoll(p) /\ pc # "raised" =>
         <<"startup", p>> \in failures \/ <<"unexpected", p>> \in failures
    /\ exitCode[p] # None /\ pc \in TryPoints \union {"poll", "terminate"} =>
         <<"startup", p>> \in failures

\* Only a receiver that outlived its shutdown poll is ever signalled.
Signals ==
  \A p \in Receivers :
    p \in lost \/ BeforeShutdownPoll(p) => term[p] = FALSE /\ kill[p] = FALSE
-----------------------------------------------------------------------------
\* Where `finally' is entered: at stop_receivers' first poll, or past it.
Entered ==
  /\ raising \in BOOLEAN
  /\ idx = 1
  /\ pc \in {"poll", "returned", "raised"}
  /\ pc = "poll" <=> nrec # 0
  /\ pc = "returned" => nrec = 0 /\ ~raising

\* EnterFinally leaves the runner at one of the places Entered lists.
LEMMA Entering ==
  ASSUME NEW exc \in BOOLEAN, EnterFinally(nrec, exc), UNCHANGED nrec
  PROVE  Entered'
<1>1. raising' = exc /\ idx' = 1 /\ pc' = IF nrec = 0 THEN Leave(exc) ELSE "poll"
  BY Zenon DEF EnterFinally, Goto
<1>2. raising' \in BOOLEAN
  BY <1>1, Zenon
<1>3. pc' \in {"poll", "returned", "raised"} /\ (pc' = "poll" <=> nrec # 0)
  BY <1>1, Zenon DEF Leave
<1>4. pc' = "returned" => nrec = 0 /\ ~raising'
  BY <1>1, Zenon DEF Leave
<1> QED
  BY <1>1, <1>2, <1>3, <1>4 DEF Entered

\* The effects of the steps that enter `finally' or signal a process.
SpawnFailed ==
  /\ pc \in {"start_receiver", "start_sender"} /\ Entered'
  /\ \E p \in Procs : Fail("spawn", p)
  /\ UNCHANGED <<records, outside, system>>

Checked ==
  /\ pc = "check"
  /\ \/ pc' = "check" /\ idx' = idx + 1 /\ idx < nrec /\ UNCHANGED raising
     \/ pc' = "start_sender" /\ idx' = 1 /\ UNCHANGED raising /\ failures' = {}
     \/ Entered' /\ failures' # {}
  /\ \/ os[idx] = "exited" /\ Flag(idx) /\ Fail("startup", idx)
     \/ os[idx] # "exited" /\ UNCHANGED <<exitCode, failures>>
  /\ UNCHANGED <<nrec, ended, outside, system>>

TryRaised ==
  /\ pc \in {"check", "send", "send_term", "send_kill", "drain"} /\ Entered'
  /\ Over(Sender) \/ pc \in {"check", "drain"} \/ CutShort
  /\ raising' = TRUE
  /\ UNCHANGED <<records, failures, outside, system>>

Drained ==
  /\ pc = "drain" /\ Entered'
  /\ ~raising'
  /\ UNCHANGED <<records, failures, outside, system>>

Interrupted ==
  /\ \/ pc \in TryPoints /\ Entered'
     \/ pc \in FinallyPoints /\ pc' = "raised" /\ idx' = 1
  /\ MayInterrupt /\ interrupted' = TRUE /\ raising' = TRUE
  /\ UNCHANGED <<records, failures, endless, system>>

FinallyRaised ==
  /\ pc \in {"finish", "reap"}
  /\ idx \in Binary \/ "shutdown" \in endless
  /\ raising' = TRUE /\ pc' = "raised" /\ idx' = 1
  /\ UNCHANGED <<records, failures, outside, system>>

Signalled(p) ==
  /\ term' \in [Procs -> BOOLEAN] /\ kill' \in [Procs -> BOOLEAN]
  /\ \A q \in Procs : q # p \/ os[p] # "running" =>
                        term'[q] = term[q] /\ kill'[q] = kill[q]
  /\ UNCHANGED <<raising, records, failures, outside, os, code, held, lost, late>>

SenderSignalled ==
  /\ \/ pc = "terminate_sender" /\ pc' = "send_term"
     \/ pc = "kill_sender" /\ pc' = "send_kill"
  /\ idx' = 1
  /\ Signalled(Sender)

SenderLate ==
  /\ \/ pc = "send" /\ pc' = "terminate_sender" /\ (os[Sender] = "exited" => late' = FALSE)
     \/ pc = "send_term" /\ pc' = "kill_sender" /\ late' = late
  /\ idx' = 1 /\ late' \in BOOLEAN
  /\ UNCHANGED <<raising, records, failures, outside, os, code, term, kill, held, lost>>

ReceiverSignalled ==
  /\ \/ pc = "terminate" /\ NextRecord("poll", "finish")
     \/ pc = "kill" /\ Goto("reap", idx)
  /\ Signalled(idx)

Effect ==
  \/ StartReceiver \/ StartSender \/ SpawnFailed \/ Checked
  \/ SenderFinishes \/ TryRaised \/ SenderLate \/ SenderSignalled \/ Drained
  \/ PollReceiver \/ ReceiverSignalled \/ FinishReceiver \/ FinallyRaised
  \/ ReceiverTimesOut \/ Interrupted
  \/ \E p \in Procs, c \in Codes : Exit(p, c)
  \/ \E p \in Procs : Release(p)
  \/ UNCHANGED vars

\* terminate() and kill() reach the process they are called on, and only while
\* it runs.
LEMMA Signalling ==
  ASSUME TypeOK, NEW p \in Procs, Terminate(p) \/ Kill(p),
         UNCHANGED <<raising, records, failures, outside>>
  PROVE  Signalled(p)
<1>1. term \in [Procs -> BOOLEAN] /\ kill \in [Procs -> BOOLEAN]
  BY DEF TypeOK
<1>2. \/ term' = [term EXCEPT ![p] = @ \/ os[p] = "running"] /\ kill' = kill
      \/ kill' = [kill EXCEPT ![p] = @ \/ os[p] = "running"] /\ term' = term
  BY Zenon DEF Terminate, Kill
<1>3. UNCHANGED <<raising, records, failures, outside, os, code, held, lost, late>>
  BY DEF Terminate, Kill
<1>4. term' \in [Procs -> BOOLEAN] /\ kill' \in [Procs -> BOOLEAN]
  BY <1>1, <1>2, Zenon
<1>5. ASSUME NEW q \in Procs, q # p \/ os[p] # "running"
      PROVE  term'[q] = term[q] /\ kill'[q] = kill[q]
  BY <1>1, <1>2, <1>5, Zenon
<1> QED
  BY <1>3, <1>4, <1>5 DEF Signalled

\* Every step has one of the effects; the cases of the proofs below are these.
LEMMA Effects == TypeOK /\ [Next]_vars => Effect
<1> SUFFICES ASSUME TypeOK, [Next]_vars PROVE Effect
  OBVIOUS
<1>1. CASE ReceiverSpawnFails \/ SenderSpawnFails
  <2>1. /\ pc \in {"start_receiver", "start_sender"} /\ EnterFinally(nrec, FALSE)
        /\ Fail("spawn", idx) \/ Fail("spawn", Sender)
        /\ UNCHANGED <<records, outside, system>>
    BY <1>1, Zenon DEF ReceiverSpawnFails, SenderSpawnFails
  <2>2. idx \in Procs /\ Sender \in Procs /\ UNCHANGED nrec
    BY <2>1 DEF TypeOK, Procs, records
  <2> QED
    BY <2>1, <2>2, Entering, Zenon DEF SpawnFailed, Effect
<1>2. CASE CheckReceiver
  <2>1. /\ pc = "check"
        /\ \/ os[idx] = "exited" /\ Flag(idx) /\ Fail("startup", idx)
           \/ os[idx] # "exited" /\ UNCHANGED <<exitCode, failures>>
        /\ UNCHANGED <<nrec, ended, outside, system>>
    BY <1>2, Zenon DEF CheckReceiver
  <2>2. \/ pc' = "check" /\ idx' = idx + 1 /\ idx < nrec /\ UNCHANGED raising
        \/ pc' = "start_sender" /\ idx' = 1 /\ UNCHANGED raising /\ failures' = {}
        \/ EnterFinally(nrec, FALSE) /\ failures' # {}
    BY <1>2, Zenon DEF CheckReceiver, Goto
  <2> QED
    BY <2>1, <2>2, Entering, Zenon DEF Checked, Effect
<1>3. CASE SenderOutputRaises \/ (WaitRaises /\ pc # "finish")
  <2>1. EnterFinally(nrec, TRUE) /\ UNCHANGED nrec /\ raising' = TRUE
    BY <1>3, Zenon DEF SenderOutputRaises, WaitRaises, EnterFinally, records
  <2>2. /\ pc \in {"check", "send", "send_term", "send_kill", "drain"}
        /\ UNCHANGED <<records, failures, outside, system>>
    BY <1>3, Zenon DEF SenderOutputRaises, WaitRaises
  <2>3. Over(Sender) \/ pc \in {"check", "drain"} \/ CutShort
    BY <1>3 DEF SenderOutputRaises, WaitRaises, Waits, CutShort
  <2> QED
    BY <2>1, <2>2, <2>3, Entering, Zenon DEF TryRaised, Effect
<1>4. CASE Drain
  <2>1. EnterFinally(nrec, FALSE) /\ UNCHANGED nrec /\ ~raising'
    BY <1>4, Zenon DEF Drain, EnterFinally, records
  <2> QED
    BY <1>4, <2>1, Entering, Zenon DEF Drain, Drained, Effect
<1>5. CASE Interrupt
  <2>1. /\ UNCHANGED <<records, failures, endless, system>>
        /\ MayInterrupt /\ interrupted' = TRUE
        /\ \/ pc \in TryPoints /\ EnterFinally(nrec, TRUE)
           \/ pc \in FinallyPoints /\ raising' = TRUE /\ pc' = "raised" /\ idx' = 1
    BY <1>5, Zenon DEF Interrupt, Goto
  <2>2. UNCHANGED nrec /\ raising' = TRUE
    BY <2>1, Zenon DEF records, EnterFinally
  <2> QED
    BY <2>1, <2>2, Entering, Zenon DEF Interrupted, Effect
<1>6. CASE TerminateSender \/ KillSender
  <2>1. /\ \/ pc = "terminate_sender" /\ Terminate(Sender) /\ pc' = "send_term" /\ idx' = 1
           \/ pc = "kill_sender" /\ Kill(Sender) /\ pc' = "send_kill" /\ idx' = 1
        /\ UNCHANGED <<raising, records, failures, outside>>
    BY <1>6, Zenon DEF TerminateSender, KillSender, Goto
  <2>2. Signalled(Sender)
    BY <2>1, Signalling DEF Procs
  <2>3. /\ \/ pc = "terminate_sender" /\ pc' = "send_term"
           \/ pc = "kill_sender" /\ pc' = "send_kill"
        /\ idx' = 1
    BY <2>1, Zenon
  <2>4. SenderSignalled
    BY <2>2, <2>3, Zenon DEF SenderSignalled
  <2> QED
    BY <2>4, Zenon DEF Effect
<1>7. CASE TerminateReceiver \/ KillReceiver
  <2>1. /\ \/ pc = "terminate" /\ NextRecord("poll", "finish")
           \/ pc = "kill" /\ Goto("reap", idx)
        /\ Terminate(idx) \/ Kill(idx)
        /\ UNCHANGED <<raising, records, failures, outside>>
    BY <1>7, Zenon DEF TerminateReceiver, KillReceiver
  <2>2. Signalled(idx)
    BY <2>1, Signalling DEF TypeOK, Procs
  <2> QED
    BY <2>1, <2>2 DEF ReceiverSignalled, Effect
<1>8. CASE ReceiverOutputRaises \/ (WaitRaises /\ pc = "finish")
  <2>1. /\ pc \in {"finish", "reap"} /\ raising' = TRUE /\ pc' = "raised" /\ idx' = 1
        /\ UNCHANGED <<records, failures, outside, system>>
    BY <1>8, Zenon DEF ReceiverOutputRaises, WaitRaises, Goto
  <2>2. idx \in Binary \/ "shutdown" \in endless
    BY <1>8 DEF ReceiverOutputRaises, WaitRaises, Waits
  <2> QED
    BY <2>1, <2>2, Zenon DEF FinallyRaised, Effect
<1>9. CASE SenderTimesOut
  <2>1. late' \in BOOLEAN
    BY <1>9, Zenon DEF SenderTimesOut, TypeOK
  <2>2. late' = FALSE \/ os[Sender] # "exited" \/ pc # "send"
    BY <1>9, Zenon DEF SenderTimesOut
  <2>3. /\ \/ pc = "send" /\ pc' = "terminate_sender"
           \/ pc = "send_term" /\ pc' = "kill_sender" /\ late' = late
        /\ idx' = 1
        /\ UNCHANGED <<raising, records, failures, outside, os, code, term, kill, held, lost>>
    BY <1>9, Zenon DEF SenderTimesOut, Goto
  <2> QED
    BY <2>1, <2>2, <2>3, Zenon DEF SenderLate, Effect
<1> QED
  BY <1>1, <1>2, <1>3, <1>4, <1>5, <1>6, <1>7, <1>8, <1>9, Zenon
     DEF Next, Step, Try, Finally, Done, Effect

\* Each part of the invariant holds before the first receiver is started.
LEMMA InitInductive == Init => TypeOK /\ Progress /\ Started /\ Losses /\ Reports /\ Signals
<1> SUFFICES ASSUME Init PROVE TypeOK /\ Progress /\ Started /\ Losses /\ Reports /\ Signals
  OBVIOUS
<1>1. /\ raising \in BOOLEAN /\ interrupted \in BOOLEAN /\ late \in BOOLEAN
      /\ endless \subseteq Endless
      /\ ended \in [Procs -> BOOLEAN]
      /\ term \in [Procs -> BOOLEAN] /\ kill \in [Procs -> BOOLEAN]
  BY Zenon DEF Init
<1>2. /\ pc = "start_receiver" /\ idx = 1 /\ nrec = 0 /\ failures = {}
      /\ exitCode = [p \in Procs |-> None] /\ code = [p \in Procs |-> None]
      /\ os = [p \in Procs |-> "absent"]
      /\ held = {} /\ lost = {}
  BY DEF Init
<1>3. TypeOK
  BY <1>1, <1>2, RunnerAssumption
     DEF RunnerAssumption, TypeOK, TryPoints, Receivers, Procs
<1>4. \A p \in Procs : term[p] = FALSE /\ kill[p] = FALSE
  BY Zenon DEF Init
<1>5. Progress /\ Started /\ Losses /\ Reports
  BY <1>2, RunnerAssumption
     DEF RunnerAssumption, Progress, Started, Losses, Reports, Spawned,
         BeforeShutdownPoll, TryPoints, FinallyPoints, Receivers, Procs, Sender
<1>6. Signals
  BY <1>4 DEF Signals, Procs
<1> QED
  BY <1>3, <1>5, <1>6

\* Every step keeps the types and the loops within the records.
LEMMA TypeInductive == TypeOK /\ Progress /\ [Next]_vars => TypeOK' /\ Progress'
<1> SUFFICES ASSUME TypeOK, Progress, Effect PROVE TypeOK' /\ Progress'
  BY Effects
<1> USE RunnerAssumption
    DEF RunnerAssumption, TypeOK, Progress, TryPoints, FinallyPoints, FinalPoints,
        Kinds, Receivers, Procs, Sender, Goto, Leave, NextRecord, Entered, Fail,
        Collect, Spawn, records, control, outside, system
<1>1. CASE StartReceiver
  BY <1>1 DEF StartReceiver
<1>2. CASE StartSender
  BY <1>2 DEF StartSender
<1>3. CASE SpawnFailed
  BY <1>3 DEF SpawnFailed
<1>4. CASE Checked
  BY <1>4 DEF Checked, Flag
<1>5. CASE SenderFinishes
  BY <1>5 DEF SenderFinishes, JudgeSender
<1>6. CASE TryRaised
  BY <1>6 DEF TryRaised
<1>7. CASE SenderSignalled
  BY <1>7 DEF SenderSignalled, Signalled
<1>8. CASE Drained
  BY <1>8 DEF Drained
<1>9. CASE PollReceiver
  BY <1>9 DEF PollReceiver
<1>10. CASE ReceiverSignalled
  BY <1>10 DEF ReceiverSignalled, Signalled
<1>11. CASE FinishReceiver
  BY <1>11 DEF FinishReceiver
<1>12. CASE FinallyRaised
  BY <1>12 DEF FinallyRaised
<1>13. CASE Interrupted
  BY <1>13 DEF Interrupted
<1>14. ASSUME NEW p \in Procs, NEW c \in Codes, Exit(p, c)
       PROVE  TypeOK' /\ Progress'
  BY <1>14 DEF Exit
<1>15. ASSUME NEW p \in Procs, Release(p) PROVE TypeOK' /\ Progress'
  BY <1>15 DEF Release
<1>16. CASE UNCHANGED vars
  BY <1>16 DEF vars
<1>17. CASE SenderLate
  BY <1>17 DEF SenderLate
<1>18. CASE ReceiverTimesOut
  BY <1>18 DEF ReceiverTimesOut
<1> QED
  BY <1>1, <1>2, <1>3, <1>4, <1>5, <1>6, <1>7, <1>8, <1>9, <1>10, <1>11,
     <1>12, <1>13, <1>14, <1>15, <1>16, <1>17, <1>18 DEF Effect

\* Every step keeps the records those of the processes started so far.
LEMMA StartedInductive ==
  TypeOK /\ Progress /\ Started /\ [Next]_vars => Started'
<1> SUFFICES ASSUME TypeOK, Progress, Started, Effect PROVE Started'
  BY Effects
<1> USE RunnerAssumption DEF RunnerAssumption, Started, Spawned, TypeOK, Progress,
         TryPoints, FinallyPoints,
       FinalPoints, Receivers, Procs, Sender, Goto, Leave, NextRecord, Entered,
       Fail, Collect, Spawn, records, control, outside, system
<1>1. CASE StartReceiver
  BY <1>1 DEF StartReceiver
<1>2. CASE StartSender
  BY <1>2 DEF StartSender
<1>3. CASE SpawnFailed
  BY <1>3 DEF SpawnFailed
<1>4. CASE Checked
  BY <1>4 DEF Checked, Flag
<1>5. CASE SenderFinishes
  BY <1>5 DEF SenderFinishes, JudgeSender
<1>6. CASE TryRaised
  BY <1>6 DEF TryRaised
<1>7. CASE SenderSignalled \/ SenderLate
  BY <1>7 DEF SenderSignalled, SenderLate, Signalled
<1>8. CASE Drained
  BY <1>8 DEF Drained
<1>9. CASE PollReceiver
  BY <1>9 DEF PollReceiver
<1>10. CASE ReceiverSignalled \/ ReceiverTimesOut
  BY <1>10 DEF ReceiverSignalled, ReceiverTimesOut, Signalled
<1>11. CASE FinishReceiver
  BY <1>11 DEF FinishReceiver
<1>12. CASE FinallyRaised
  BY <1>12 DEF FinallyRaised
<1>13. CASE Interrupted
  BY <1>13 DEF Interrupted
<1>14. ASSUME NEW p \in Procs, NEW c \in Codes, Exit(p, c) PROVE Started'
  BY <1>14 DEF Exit
<1>15. ASSUME NEW p \in Procs, Release(p) PROVE Started'
  BY <1>15 DEF Release
<1>16. CASE UNCHANGED vars
  BY <1>16 DEF vars
<1> QED
  BY <1>1, <1>2, <1>3, <1>4, <1>5, <1>6, <1>7, <1>8, <1>9, <1>10, <1>11,
     <1>12, <1>13, <1>14, <1>15, <1>16 DEF Effect

\* Every step keeps `lost' the receivers that exited before their poll.
LEMMA LossesInductive ==
  TypeOK /\ Progress /\ Started /\ Losses /\ [Next]_vars => Losses'
<1> SUFFICES ASSUME TypeOK, Progress, Started, Losses, Effect PROVE Losses'
  BY Effects
<1> USE RunnerAssumption DEF RunnerAssumption, Losses, Started, Spawned,
       BeforeShutdownPoll, Codes, None, TypeOK, Progress,
         TryPoints, FinallyPoints,
       FinalPoints, Receivers, Procs, Sender, Goto, Leave, NextRecord, Entered,
       Fail, Collect, Spawn, records, control, outside, system
<1>1. CASE StartReceiver
  BY <1>1 DEF StartReceiver
<1>2. CASE StartSender
  BY <1>2 DEF StartSender
<1>3. CASE SpawnFailed
  BY <1>3 DEF SpawnFailed
<1>4. CASE Checked
  BY <1>4 DEF Checked, Flag
<1>5. CASE SenderFinishes
  BY <1>5 DEF SenderFinishes, JudgeSender
<1>6. CASE TryRaised
  BY <1>6 DEF TryRaised
<1>7. CASE SenderSignalled \/ SenderLate
  BY <1>7 DEF SenderSignalled, SenderLate, Signalled
<1>8. CASE Drained
  BY <1>8 DEF Drained
<1>9. CASE PollReceiver
  BY <1>9 DEF PollReceiver
<1>10. CASE ReceiverSignalled \/ ReceiverTimesOut
  BY <1>10 DEF ReceiverSignalled, ReceiverTimesOut, Signalled
<1>11. CASE FinishReceiver
  BY <1>11 DEF FinishReceiver
<1>12. CASE FinallyRaised
  BY <1>12 DEF FinallyRaised
<1>13. CASE Interrupted
  BY <1>13 DEF Interrupted
<1>14. ASSUME NEW p \in Procs, NEW c \in Codes, Exit(p, c) PROVE Losses'
  BY <1>14 DEF Exit
<1>15. ASSUME NEW p \in Procs, Release(p) PROVE Losses'
  BY <1>15 DEF Release
<1>16. CASE UNCHANGED vars
  BY <1>16 DEF vars
<1> QED
  BY <1>1, <1>2, <1>3, <1>4, <1>5, <1>6, <1>7, <1>8, <1>9, <1>10, <1>11,
     <1>12, <1>13, <1>14, <1>15, <1>16 DEF Effect

\* A step that changes nothing of what Reports says of the receivers.
Quiet ==
  \A p \in Receivers :
    /\ p \in lost' <=> p \in lost
    /\ exitCode'[p] = exitCode[p]
    /\ <<"startup", p>> \in failures' <=> <<"startup", p>> \in failures
    /\ <<"unexpected", p>> \in failures' <=> <<"unexpected", p>> \in failures

\* Neither a failure of another kind nor one of the sender touches Reports.
LEMMA OtherFailures ==
  ASSUME NEW k \in Kinds \ {"startup", "unexpected"}, NEW q \in Procs,
         Fail(k, q), lost' = lost,
         \A p \in Receivers : exitCode'[p] = exitCode[p]
  PROVE  Quiet
<1>1. failures' = failures \union {<<k, q>>}
  BY DEF Fail
<1>2. ASSUME NEW j \in {"startup", "unexpected"}, NEW p \in Receivers
      PROVE  <<j, p>> \in failures' <=> <<j, p>> \in failures
  <2>1. <<k, q>> # <<j, p>>
    OBVIOUS
  <2> QED
    BY <1>1, <2>1, Zenon
<1> QED
  BY <1>2, Zenon DEF Quiet

\* Reports survives a quiet step that polls no lost receiver.
LEMMA ReportsKept ==
  ASSUME Reports, Quiet,
         pc = "raised" => pc' = "raised",
         pc' \in TryPoints \union {"poll", "terminate"} =>
           pc \in TryPoints \union {"poll", "terminate"},
         \A p \in Receivers :
            p \in lost => (BeforeShutdownPoll(p)' <=> BeforeShutdownPoll(p))
  PROVE  Reports'
  BY Zenon DEF Reports, Quiet

\* In particular it survives a quiet step within the `try' block.
LEMMA ReportsInTry ==
  ASSUME Reports, Quiet, pc \in TryPoints, pc' \in TryPoints
  PROVE  Reports'
<1>1. \A p \in Receivers : BeforeShutdownPoll(p) /\ BeforeShutdownPoll(p)'
  BY Zenon DEF BeforeShutdownPoll
<1>2. pc # "raised"
  BY DEF TryPoints
<1> QED
  BY <1>1, <1>2, ReportsKept, Zenon

\* Reports survives a quiet step into `finally': every receiver that was
\* started has still to be polled.
LEMMA ReportsOnEntry ==
  ASSUME Started, Losses, Reports, Quiet,
         pc \in TryPoints, Entered', UNCHANGED <<nrec, os>>
  PROVE  Reports'
<1>1. /\ pc' \in {"poll", "returned", "raised"} /\ idx' = 1
      /\ pc' = "returned" => nrec = 0
  BY Zenon DEF Entered
<1> SUFFICES ASSUME NEW p \in Receivers
             PROVE  /\ <<"startup", p>> \in failures' => p \in lost' /\ exitCode'[p] # None
                    /\ <<"unexpected", p>> \notin failures'
                    /\ p \in lost' /\ pc' \in {"poll", "returned"} => BeforeShutdownPoll(p)'
                    /\ exitCode'[p] # None => <<"startup", p>> \in failures'
  BY <1>1, Zenon DEF Reports
<1>2. BeforeShutdownPoll(p)
  BY Zenon DEF BeforeShutdownPoll
<1>3. pc' = "poll" => BeforeShutdownPoll(p)'
  BY <1>1 DEF BeforeShutdownPoll, Receivers
<1>4. pc' = "returned" => p \notin lost
  BY <1>1 DEF Started, Losses, Spawned, Receivers, Procs
<1> QED
  BY <1>1, <1>2, <1>3, <1>4, Zenon DEF Reports, Quiet

\* Reports is kept by every step.
LEMMA ReportsInductive ==
  TypeOK /\ Progress /\ Started /\ Losses /\ Reports /\ [Next]_vars => Reports'
<1> SUFFICES ASSUME TypeOK, Progress, Started, Losses, Reports, Effect PROVE Reports'
  BY Effects
<1>1. CASE StartReceiver \/ StartSender
  <2>1. /\ pc \in TryPoints
        /\ pc' \in {"start_receiver", "check", "send"}
    BY <1>1, Zenon DEF StartReceiver, StartSender, Goto, TryPoints
  <2>2. Quiet
    BY <1>1, Zenon DEF StartReceiver, StartSender, Spawn, Quiet, records
  <2> QED
    BY <2>1, <2>2, ReportsInTry DEF TryPoints
<1>2. CASE SpawnFailed
  <2>1. PICK p \in Procs : Fail("spawn", p)
    BY <1>2, Zenon DEF SpawnFailed
  <2>2. /\ pc \in TryPoints /\ Entered'
        /\ UNCHANGED <<nrec, exitCode, lost, os>>
    BY <1>2, Zenon DEF SpawnFailed, TryPoints, records, system
  <2>3. Quiet
    BY <2>1, <2>2, OtherFailures DEF Kinds
  <2> QED
    BY <2>2, <2>3, ReportsOnEntry
<1>3. CASE SenderFinishes
  <2>1. /\ pc \in TryPoints /\ pc' = "drain"
        /\ lost' = lost /\ exitCode' = [exitCode EXCEPT ![Sender] = code[Sender]]
        /\ failures' = failures \/ \E k \in {"timeout", "exit"} : Fail(k, Sender)
    BY <1>3, Zenon DEF SenderFinishes, JudgeSender, Collect, Goto, TryPoints, system
  <2>2. \A p \in Receivers : exitCode'[p] = exitCode[p]
    BY <2>1 DEF TypeOK, Receivers, Procs, Sender
  <2>3. ASSUME failures' = failures PROVE Quiet
    BY <2>1, <2>2, <2>3, Zenon DEF Quiet
  <2>4. ASSUME \E k \in {"timeout", "exit"} : Fail(k, Sender) PROVE Quiet
    <3>1. PICK k \in {"timeout", "exit"} : Fail(k, Sender)
      BY <2>4
    <3>2. k \in Kinds \ {"startup", "unexpected"} /\ Sender \in Procs
      BY DEF Kinds, Procs
    <3> QED
      BY <2>1, <2>2, <3>1, <3>2, OtherFailures
  <2> QED
    BY <2>1, <2>3, <2>4, ReportsInTry DEF TryPoints
<1>4. CASE SenderSignalled \/ SenderLate
  <2>1. /\ Quiet /\ pc \in TryPoints
        /\ pc' \in {"terminate_sender", "send_term", "kill_sender", "send_kill"}
    BY <1>4, Zenon DEF SenderSignalled, SenderLate, Signalled, Goto, TryPoints,
                       Quiet, records
  <2> QED
    BY <2>1, ReportsInTry DEF TryPoints
<1>5. CASE TryRaised \/ Drained \/ (Interrupted /\ pc \in TryPoints)
  <2>1. Entered'
    BY <1>5, Zenon DEF TryRaised, Drained, Interrupted, FinallyPoints, TryPoints
  <2>2. /\ pc \in TryPoints /\ Quiet
        /\ UNCHANGED <<nrec, os>>
    BY <1>5, Zenon DEF TryRaised, Drained, Interrupted, TryPoints, Quiet,
                       records, system
  <2> QED
    BY <2>1, <2>2, ReportsOnEntry
<1>6. CASE Interrupted /\ pc \in FinallyPoints
  <2>1. pc' = "raised" /\ Quiet
    BY <1>6, Zenon DEF Interrupted, Entered, FinallyPoints, TryPoints, Quiet,
                       records, system
  <2> QED
    BY <2>1, Zenon DEF Reports, Quiet, BeforeShutdownPoll, TryPoints
<1>7. CASE Checked
  <2>1. /\ pc = "check" /\ idx \in Receivers /\ idx <= nrec
        /\ lost' = lost /\ os' = os /\ nrec' = nrec
    BY <1>7 DEF Checked, TypeOK, Progress, system
  <2>2. CASE os[idx] # "exited"
    <3>1. exitCode' = exitCode /\ failures' = failures
      BY <1>7, <2>2, Zenon DEF Checked
    <3>2. Quiet
      BY <2>1, <3>1, Zenon DEF Quiet
    <3> QED
      BY <1>7, <2>1, <3>2, ReportsInTry, ReportsOnEntry, Zenon DEF Checked, TryPoints
  <2>3. CASE os[idx] = "exited"
    <3>1. /\ exitCode' = [exitCode EXCEPT ![idx] = code[idx]]
          /\ failures' = failures \union {<<"startup", idx>>}
      BY <1>7, <2>3, Zenon DEF Checked, Flag, Fail
    <3>2. code[idx] # None /\ idx \in lost
      BY <2>1, <2>3 DEF Losses, BeforeShutdownPoll, TryPoints, Receivers, Procs
    <3>3. /\ pc' \in {"check", "start_sender", "poll", "returned", "raised"}
          /\ pc' = "poll" => idx' = 1
          /\ pc' = "returned" => nrec = 0
      BY <1>7, <2>1, Zenon DEF Checked, Entered
    <3>4. ASSUME NEW p \in Receivers
          PROVE  /\ <<"startup", p>> \in failures' <=>
                      p = idx \/ <<"startup", p>> \in failures
                 /\ <<"unexpected", p>> \notin failures'
                 /\ exitCode'[p] = IF p = idx THEN code[idx] ELSE exitCode[p]
                 /\ pc' = "raised" \/ p \notin lost \/ BeforeShutdownPoll(p)'
      <4>1. BeforeShutdownPoll(p)
        BY <2>1, Zenon DEF BeforeShutdownPoll, TryPoints
      <4>2. <<"unexpected", p>> \notin failures
        BY <4>1, Zenon DEF Reports
      <4>3. exitCode'[p] = IF p = idx THEN code[idx] ELSE exitCode[p]
        BY <3>1 DEF TypeOK, Receivers, Procs
      <4>4. pc' \in {"check", "start_sender", "poll"} => BeforeShutdownPoll(p)'
        BY <3>3 DEF BeforeShutdownPoll, TryPoints, Receivers
      <4>5. pc' = "returned" => p \notin lost
        BY <2>1, <3>3 DEF Receivers
      <4>6. <<"startup", p>> \in failures' <=>
              p = idx \/ <<"startup", p>> \in failures
        BY <3>1
      <4>7. <<"unexpected", p>> \notin failures'
        BY <3>1, <4>2
      <4> QED
        BY <3>3, <4>3, <4>4, <4>5, <4>6, <4>7
    <3> QED
      BY <2>1, <3>1, <3>2, <3>4, Zenon DEF Reports, TryPoints
  <2> QED
    BY <2>2, <2>3
<1>8. CASE PollReceiver
  <2>1. /\ pc = "poll" /\ idx \in Receivers /\ idx <= nrec /\ nrec \in 0..N
        /\ lost' = lost /\ exitCode' = exitCode
    BY <1>8, Zenon DEF PollReceiver, TypeOK, Progress, FinallyPoints, records, system
  <2>2. \A p \in Receivers : p \in lost => p <= nrec /\ os[p] = "exited"
    BY DEF Losses, Started, Spawned, Receivers, Procs
  <2>3. BeforeShutdownPoll(idx) /\ <<"unexpected", idx>> \notin failures
    <3>1. BeforeShutdownPoll(idx)
      BY <2>1 DEF BeforeShutdownPoll, Receivers
    <3> QED
      BY <2>1, <3>1, Zenon DEF Reports
  <2>4. CASE exitCode[idx] = None /\ os[idx] # "exited"
    <3>1. pc' = "terminate" /\ idx' = idx /\ Quiet
      BY <1>8, <2>1, <2>4, Zenon DEF PollReceiver, Goto, Quiet
    <3>2. \A p \in Receivers :
            p \in lost => (BeforeShutdownPoll(p)' <=> BeforeShutdownPoll(p))
      BY <2>1, <2>2, <2>4, <3>1 DEF BeforeShutdownPoll, TryPoints, Receivers
    <3> QED
      BY <2>1, <3>1, <3>2, ReportsKept, Zenon
  <2>5. CASE exitCode[idx] # None \/ os[idx] = "exited"
    <3>1. NextRecord("poll", "finish")
      BY <1>8, <2>5, Zenon DEF PollReceiver
    <3>2. /\ pc' \in {"poll", "finish"}
          /\ \A p \in Receivers : p = idx => ~BeforeShutdownPoll(p)'
      BY <2>1, <3>1 DEF NextRecord, Goto, BeforeShutdownPoll, TryPoints, Receivers
    <3>3. \A p \in Receivers :
            p # idx /\ p \in lost => (BeforeShutdownPoll(p)' <=> BeforeShutdownPoll(p))
      BY <2>1, <2>2, <3>1 DEF NextRecord, Goto, BeforeShutdownPoll, TryPoints, Receivers
    <3>4. CASE exitCode[idx] # None
      <4>1. failures' = failures /\ <<"startup", idx>> \in failures
        BY <1>8, <2>1, <3>4, Zenon DEF PollReceiver, Reports
      <4> QED
        BY <2>1, <2>3, <3>2, <3>3, <4>1, Zenon DEF Reports
    <3>5. CASE exitCode[idx] = None
      <4>1. /\ failures' = failures \union {<<"unexpected", idx>>}
            /\ <<"startup", idx>> \notin failures
        BY <1>8, <2>1, <2>5, <3>5, Zenon DEF PollReceiver, Fail, Reports
      <4>2. idx \in lost
        BY <2>1, <2>3, <2>5, <3>5, Zenon DEF Losses
      <4>3. ASSUME NEW p \in Receivers
            PROVE  /\ <<"startup", p>> \in failures' <=> <<"startup", p>> \in failures
                   /\ <<"unexpected", p>> \in failures' <=>
                        p = idx \/ <<"unexpected", p>> \in failures
        BY <4>1
      <4> QED
        BY <2>1, <3>2, <3>3, <4>1, <4>2, <4>3, Zenon DEF Reports
    <3> QED
      BY <3>4, <3>5
  <2> QED
    BY <2>4, <2>5
<1>9. CASE ReceiverSignalled \/ ReceiverTimesOut
  <2>1. /\ idx \in Receivers /\ idx <= nrec /\ nrec \in 0..N
        /\ lost' = lost /\ exitCode' = exitCode /\ failures' = failures
        /\ \/ pc = "terminate" /\ NextRecord("poll", "finish")
           \/ pc = "finish" /\ pc' = "kill"
           \/ pc = "kill" /\ pc' = "reap"
    BY <1>9, Zenon DEF ReceiverSignalled, ReceiverTimesOut, Signalled, TypeOK, Progress,
                       FinallyPoints, records, system, Goto
  <2>2. \A p \in Receivers : p \in lost => p <= nrec
    BY DEF Losses, Started, Spawned, Receivers, Procs
  <2>3. \A p \in Receivers :
            p \in lost => (BeforeShutdownPoll(p)' <=> BeforeShutdownPoll(p))
    BY <2>1, <2>2 DEF BeforeShutdownPoll, NextRecord, Goto, TryPoints, Receivers
  <2>4. pc \in {"terminate", "finish", "kill"} /\ pc' \in {"poll", "finish", "kill", "reap"}
        /\ (pc' = "poll" => pc = "terminate")
    BY <2>1, Zenon DEF NextRecord, Goto
  <2>5. Quiet
    BY <2>1, Zenon DEF Quiet
  <2> QED
    BY <2>3, <2>4, <2>5, ReportsKept DEF TryPoints
<1>10. CASE FinishReceiver
  <2>1. /\ pc \in {"finish", "reap"} /\ pc' \in {"finish", "returned", "raised"}
        /\ idx \in Receivers /\ os[idx] = "exited"
        /\ lost' = lost /\ failures' = failures
        /\ exitCode' = [exitCode EXCEPT ![idx] = code[idx]]
    BY <1>10, Zenon DEF FinishReceiver, Over, Collect, NextRecord, Goto, Leave,
                        TypeOK, system
  <2>2. code[idx] # None
    BY <2>1, Zenon DEF Losses, Procs
  <2>3. \A p \in Receivers : exitCode[p] # None => exitCode'[p] # None
    BY <2>1, <2>2 DEF TypeOK, Receivers, Procs
  <2>4. \A p \in Receivers : ~BeforeShutdownPoll(p) /\ ~BeforeShutdownPoll(p)'
    BY <2>1 DEF BeforeShutdownPoll, TryPoints
  <2>5. pc # "raised" /\ pc' \notin TryPoints \union {"poll", "terminate"}
    BY <2>1 DEF TryPoints
  <2> QED
    BY <2>1, <2>3, <2>4, <2>5, Zenon DEF Reports
<1>11. CASE FinallyRaised
  <2>1. pc' = "raised" /\ Quiet
    BY <1>11, Zenon DEF FinallyRaised, Quiet, records, system
  <2> QED
    BY <2>1, Zenon DEF Reports, Quiet, BeforeShutdownPoll, TryPoints
<1>12. ASSUME NEW q \in Procs, NEW c \in Codes, Exit(q, c) PROVE Reports'
  <2>1. /\ pc' = pc /\ idx' = idx /\ exitCode' = exitCode /\ failures' = failures
        /\ \/ lost' = lost
           \/ lost' = lost \union {q} /\ BeforeShutdownPoll(q)
    BY <1>12, Zenon DEF Exit, control, records
  <2>2. \A p \in Receivers : BeforeShutdownPoll(p)' <=> BeforeShutdownPoll(p)
    BY <2>1, Zenon DEF BeforeShutdownPoll
  <2>3. \A p \in Receivers : p \in lost => p \in lost'
    BY <2>1, Zenon
  <2>4. \A p \in Receivers : p \in lost' /\ ~BeforeShutdownPoll(p) => p \in lost
    BY <2>1, Zenon
  <2> QED
    BY <2>1, <2>2, <2>3, <2>4, Zenon DEF Reports
<1>13. CASE UNCHANGED vars \/ \E p \in Procs : Release(p)
  <2>1. pc' = pc /\ idx' = idx /\ Quiet
    BY <1>13, Zenon DEF vars, control, records, system, Release, Quiet
  <2>2. \A p \in Receivers : BeforeShutdownPoll(p)' <=> BeforeShutdownPoll(p)
    BY <2>1, Zenon DEF BeforeShutdownPoll
  <2> QED
    BY <2>1, <2>2, ReportsKept, Zenon
<1> QED
  BY <1>1, <1>2, <1>3, <1>4, <1>5, <1>6, <1>7, <1>8, <1>9, <1>10, <1>11,
     <1>12, <1>13, Zenon DEF Effect, Interrupted

\* Once a receiver is past its shutdown poll and not lost, it stays so.
LEMMA SafeForGood ==
  ASSUME TypeOK, Progress, Effect
  PROVE  \A p \in Receivers : p \in lost' \/ BeforeShutdownPoll(p)' =>
                               p \in lost \/ BeforeShutdownPoll(p)
<1> DEFINE Safe == \A p \in Receivers : p \in lost' \/ BeforeShutdownPoll(p)' =>
                                         p \in lost \/ BeforeShutdownPoll(p)
<1> USE RunnerAssumption
    DEF RunnerAssumption, BeforeShutdownPoll, TypeOK, Progress, TryPoints,
        FinallyPoints, FinalPoints, Receivers, Procs, Sender, Goto, Leave,
        NextRecord, Entered, Spawn, records, control, outside, system
<1>1. CASE StartReceiver
  BY <1>1 DEF StartReceiver
<1>2. CASE StartSender
  BY <1>2 DEF StartSender
<1>3. CASE SpawnFailed
  BY <1>3 DEF SpawnFailed
<1>4. CASE Checked
  BY <1>4 DEF Checked, Flag
<1>5. CASE SenderFinishes
  BY <1>5 DEF SenderFinishes
<1>6. CASE TryRaised
  BY <1>6 DEF TryRaised
<1>7. CASE SenderSignalled \/ SenderLate
  BY <1>7 DEF SenderSignalled, SenderLate, Signalled
<1>8. CASE Drained
  BY <1>8 DEF Drained
<1>9. CASE PollReceiver
  BY <1>9 DEF PollReceiver
<1>10. CASE ReceiverSignalled \/ ReceiverTimesOut
  BY <1>10 DEF ReceiverSignalled, ReceiverTimesOut, Signalled
<1>11. CASE FinishReceiver
  BY <1>11 DEF FinishReceiver
<1>12. CASE FinallyRaised
  BY <1>12 DEF FinallyRaised
<1>13. CASE Interrupted
  BY <1>13 DEF Interrupted
<1>14. ASSUME NEW p \in Procs, NEW c \in Codes, Exit(p, c) PROVE Safe
  BY <1>14 DEF Exit
<1>15. ASSUME NEW p \in Procs, Release(p) PROVE Safe
  BY <1>15 DEF Release
<1>16. CASE UNCHANGED vars
  BY <1>16 DEF vars
<1> QED
  BY <1>1, <1>2, <1>3, <1>4, <1>5, <1>6, <1>7, <1>8, <1>9, <1>10, <1>11,
     <1>12, <1>13, <1>14, <1>15, <1>16 DEF Effect

\* Signals are delivered by the steps that send them and by no other.
LEMMA OnlySignalsSignal ==
  Effect => SenderSignalled \/ ReceiverSignalled \/ UNCHANGED <<term, kill>>
  BY Zenon
  DEF Effect, StartReceiver, StartSender, SpawnFailed, Checked, SenderFinishes,
      TryRaised, Drained, PollReceiver, FinishReceiver, FinallyRaised,
      SenderLate, ReceiverTimesOut,
      Interrupted, Exit, Release, Spawn, system, vars

\* Every step leaves the receivers before their shutdown poll, and those lost
\* by then, without a signal.
LEMMA SignalsInductive ==
  TypeOK /\ Progress /\ Losses /\ Signals /\ [Next]_vars => Signals'
<1> SUFFICES ASSUME TypeOK, Progress, Losses, Signals, Effect,
                    NEW p \in Receivers, p \in lost' \/ BeforeShutdownPoll(p)'
             PROVE  term'[p] = FALSE /\ kill'[p] = FALSE
  BY Effects DEF Signals
<1>1. term[p] = FALSE /\ kill[p] = FALSE
  BY SafeForGood DEF Signals
<1>2. CASE UNCHANGED <<term, kill>>
  BY <1>1, <1>2
<1>3. CASE SenderSignalled
  <2>1. p # Sender /\ p \in Procs
    BY DEF Receivers, Procs, Sender
  <2> QED
    BY <1>1, <1>3, <2>1, Zenon DEF SenderSignalled, Signalled
<1>4. CASE ReceiverSignalled
  <2>1. p # idx \/ os[idx] # "running"
    BY <1>4 DEF ReceiverSignalled, Signalled, NextRecord, Goto, Losses, TypeOK,
                BeforeShutdownPoll, TryPoints, Receivers
  <2>2. p \in Procs
    BY DEF Procs
  <2> QED
    BY <1>1, <1>4, <2>1, <2>2, Zenon DEF ReceiverSignalled, Signalled
<1> QED
  BY <1>2, <1>3, <1>4, OnlySignalsSignal
-----------------------------------------------------------------------------
(* What is left when execute_protocol returns.                             *)

Sending == {"send", "terminate_sender", "send_term", "kill_sender", "send_kill"}
Ahead   == {"start_receiver", "check", "start_sender", "send"}
After   == {"drain", "returned"} \union FinallyPoints

\* Process p has exited and communicate() has collected it.
Collected(p) == os[p] = "exited" /\ ended[p] = TRUE

\* The sender's time is not over, or was not when it exited.
InTime == late = FALSE /\ term[Sender] = FALSE /\ kill[Sender] = FALSE

\* The sender is collected once the runner is past it, and clean if nothing
\* is reported.
SenderSafe ==
  /\ pc \in TryPoints => raising = FALSE
  /\ pc \in Ahead => InTime
  /\ Spawned(Sender) /\ pc \notin Sending /\ raising = FALSE => Collected(Sender)
  /\ pc \in After /\ raising = FALSE /\ failures = {} =>
       nrec = N /\ Collected(Sender) /\ exitCode[Sender] = "zero" /\ InTime

\* The receivers the second pass of stop_receivers has left are collected.
ReceiversSafe ==
  /\ pc \in {"finish", "kill", "reap"} => \A p \in Receivers : p < idx => Collected(p)
  /\ pc = "returned" => raising = FALSE /\ \A p \in Receivers : p <= nrec => Collected(p)

\* A collected process stays collected: it is not spawned a second time.
LEMMA CollectedForGood ==
  ASSUME TypeOK, Progress, Started, Effect, NEW p \in Procs, Collected(p)
  PROVE  Collected(p)'
<1>1. /\ os[p] = "exited" /\ ended[p] = TRUE
      /\ os \in [Procs -> {"absent", "running", "exited"}]
      /\ ended \in [Procs -> BOOLEAN]
  BY DEF Collected, TypeOK
<1>2. CASE StartReceiver \/ StartSender
  <2>1. /\ ended' = ended
        /\ \/ os' = [os EXCEPT ![idx] = "running"] /\ pc = "start_receiver"
           \/ os' = [os EXCEPT ![Sender] = "running"] /\ pc = "start_sender"
    BY <1>2, Zenon DEF StartReceiver, StartSender, Spawn, records
  <2>2. /\ pc = "start_receiver" => p # idx
        /\ pc = "start_sender" => p # Sender
    BY <1>1, RunnerAssumption
       DEF RunnerAssumption, Started, Spawned, Progress, TypeOK, Receivers, Procs, Sender
  <2>3. os'[p] = os[p]
    BY <1>1, <2>1, <2>2
  <2> QED
    BY <1>1, <2>1, <2>3, Zenon DEF Collected
<1>3. CASE \/ SenderFinishes \/ FinishReceiver
  <2>1. /\ os' = os
        /\ \E q \in Procs : ended' = [ended EXCEPT ![q] = TRUE]
    BY <1>3, Zenon DEF SenderFinishes, FinishReceiver, Collect, system, TypeOK, Procs
  <2> QED
    BY <1>1, <2>1, Zenon DEF Collected
<1>4. CASE \E q \in Procs, c \in Codes : Exit(q, c)
  <2>1. ended' = ended /\ \E q \in Procs : os' = [os EXCEPT ![q] = "exited"]
    BY <1>4, Zenon DEF Exit, records
  <2>2. os'[p] = "exited"
    BY <1>1, <2>1, Zenon
  <2> QED
    BY <1>1, <2>1, <2>2, Zenon DEF Collected
<1>5. CASE os' = os /\ ended' = ended
  BY <1>1, <1>5, Zenon DEF Collected
<1> QED
  BY <1>2, <1>3, <1>4, <1>5, Zenon
     DEF Effect, SpawnFailed, Checked, TryRaised, SenderSignalled, Drained,
         PollReceiver, ReceiverSignalled, FinallyRaised, Interrupted,
         SenderLate, ReceiverTimesOut,
         Signalled, Release, records, system, vars

\* Every step keeps the receivers' second pass collecting.
LEMMA ReceiversSafeInductive ==
  TypeOK /\ Progress /\ Started /\ ReceiversSafe /\ [Next]_vars => ReceiversSafe'
<1> SUFFICES ASSUME TypeOK, Progress, Started, ReceiversSafe, Effect
             PROVE  ReceiversSafe'
  BY Effects
<1>1. \A p \in Receivers : Collected(p) => Collected(p)'
  BY CollectedForGood DEF Procs
<1>2. ASSUME pc' = "finish", idx' = 1 PROVE ReceiversSafe'
  BY <1>2 DEF ReceiversSafe, Receivers
<1>3. ASSUME pc' \notin {"finish", "kill", "reap", "returned"} PROVE ReceiversSafe'
  BY <1>3 DEF ReceiversSafe
<1>4. CASE FinishReceiver
  <2>1. /\ pc \in {"finish", "reap"} /\ idx \in Receivers /\ idx <= nrec
        /\ nrec \in 0..N /\ nrec' = nrec
        /\ os' = os /\ os[idx] = "exited" /\ raising' = raising
        /\ NextRecord("finish", Leave(raising))
    BY <1>4, Zenon DEF FinishReceiver, Over, Collect, TypeOK, Progress,
                       FinallyPoints, system
  <2>2. \A p \in Receivers : p = idx => Collected(p)'
    <3>1. ended' = [ended EXCEPT ![idx] = TRUE] /\ ended \in [Procs -> BOOLEAN]
      BY <1>4, Zenon DEF FinishReceiver, Collect, TypeOK
    <3> QED
      BY <2>1, <3>1, Zenon DEF Collected, Procs
  <2>3. \A p \in Receivers : p < idx => Collected(p)'
    BY <1>1, <2>1, Zenon DEF ReceiversSafe
  <2>4. \A p \in Receivers : p <= idx => Collected(p)'
    BY <2>1, <2>2, <2>3 DEF Receivers
  <2>5. CASE idx < nrec
    <3>1. pc' = "finish" /\ idx' = idx + 1
      BY <2>1, <2>5, Zenon DEF NextRecord, Goto
    <3>2. \A p \in Receivers : p < idx' => p <= idx
      BY <2>1, <3>1 DEF Receivers
    <3> QED
      BY <2>4, <3>1, <3>2, Zenon DEF ReceiversSafe
  <2>6. CASE ~(idx < nrec)
    <3>1. /\ pc' \in {"returned", "raised"}
          /\ pc' = "returned" => raising' = FALSE
      <4>1. raising' \in BOOLEAN
        BY <2>1, Zenon DEF TypeOK
      <4> QED
        BY <2>1, <2>6, <4>1, Zenon DEF NextRecord, Goto, Leave
    <3>2. \A p \in Receivers : p <= nrec' => p <= idx
      BY <2>1, <2>6 DEF Receivers
    <3> QED
      BY <2>4, <3>1, <3>2, Zenon DEF ReceiversSafe
  <2> QED
    BY <2>5, <2>6
<1>5. CASE ReceiverSignalled \/ ReceiverTimesOut
  <2>1. CASE pc = "terminate" /\ NextRecord("poll", "finish")
    BY <1>2, <1>3, <2>1, Zenon DEF NextRecord, Goto
  <2>2. CASE pc \in {"finish", "kill"} /\ pc' \in {"kill", "reap"} /\ idx' = idx
    BY <1>1, <2>2, Zenon DEF ReceiversSafe
  <2> QED
    BY <1>5, <2>1, <2>2, Zenon DEF ReceiverSignalled, ReceiverTimesOut, Goto
<1>6. CASE PollReceiver
  BY <1>2, <1>3, <1>6, Zenon DEF PollReceiver, NextRecord, Goto
<1>7. CASE Entered' /\ UNCHANGED nrec
  <2>1. /\ pc' \in {"poll", "returned", "raised"} /\ raising' \in BOOLEAN
        /\ pc' = "returned" => nrec' = 0 /\ ~raising'
    BY <1>7, Zenon DEF Entered
  <2>2. pc' = "returned" => \A p \in Receivers : ~(p <= nrec')
    BY <2>1 DEF Receivers
  <2> QED
    BY <2>1, <2>2, Zenon DEF ReceiversSafe
<1>8. CASE pc' = pc /\ idx' = idx /\ raising' = raising /\ nrec' = nrec
  BY <1>1, <1>8, Zenon DEF ReceiversSafe
<1> QED
  BY <1>3, <1>4, <1>5, <1>6, <1>7, <1>8, Zenon
     DEF Effect, StartReceiver, StartSender, SpawnFailed, Checked, SenderFinishes,
         TryRaised, SenderSignalled, SenderLate, Drained, FinallyRaised, Interrupted,
         Exit, Release, records, control, Goto, vars

\* What a step must keep of the sender for SenderSafe to survive it.
SenderKept ==
  /\ pc' \in TryPoints => pc \in TryPoints /\ raising' = raising
  /\ pc' \in Ahead =>
       /\ pc \in Ahead /\ late' = late
       /\ term'[Sender] = term[Sender] /\ kill'[Sender] = kill[Sender]
  /\ pc' \notin Sending /\ raising' = FALSE /\ os'[Sender] # "absent" =>
       pc \notin Sending /\ raising = FALSE /\ os[Sender] # "absent"
  /\ pc' \in After /\ raising' = FALSE /\ failures' = {} =>
       /\ pc \in After /\ raising = FALSE /\ failures = {}
       /\ nrec' = nrec /\ exitCode'[Sender] = exitCode[Sender] /\ late' = late
       /\ term'[Sender] = term[Sender] /\ kill'[Sender] = kill[Sender]

\* SenderSafe survives a step with SenderKept.
LEMMA SenderSafeKept ==
  ASSUME TypeOK, Progress, Started, SenderSafe, Effect, SenderKept
  PROVE  SenderSafe'
<1>1. Collected(Sender) => Collected(Sender)'
  BY CollectedForGood DEF Procs
<1>2. Sender' = Sender
  BY DEF Sender
<1>3. (pc \in Ahead => InTime)'
  BY Zenon DEF SenderSafe, SenderKept, InTime, Sender
<1>4. (Spawned(Sender) /\ pc \notin Sending /\ raising = FALSE => Collected(Sender))'
  BY <1>1, Zenon DEF SenderSafe, SenderKept, Spawned, Sender
<1>5. (pc \in After /\ raising = FALSE /\ failures = {} =>
       nrec = N /\ Collected(Sender) /\ exitCode[Sender] = "zero" /\ InTime)'
  BY <1>1, Zenon DEF SenderSafe, SenderKept, InTime, Sender
<1>6. pc' \in TryPoints => raising' = FALSE
  BY Zenon DEF SenderSafe, SenderKept
<1> QED
  BY <1>3, <1>4, <1>5, <1>6, Zenon DEF SenderSafe

\* Every step keeps the sender's part of what is left.
LEMMA SenderSafeInductive ==
  TypeOK /\ Progress /\ Started /\ Losses /\ SenderSafe /\ [Next]_vars => SenderSafe'
<1> SUFFICES ASSUME TypeOK, Progress, Started, Losses, SenderSafe, Effect
             PROVE  SenderSafe'
  BY Effects
<1> USE DEF Ahead, After, Sending, TryPoints, FinallyPoints
<1>1. CASE StartReceiver
  <2>1. /\ pc = "start_receiver" /\ pc' \in {"start_receiver", "check"}
        /\ term' = term /\ kill' = kill /\ late' = late
        /\ os' = [os EXCEPT ![idx] = "running"] /\ raising' = raising
    BY <1>1, Zenon DEF StartReceiver, Spawn, Goto
  <2>2. os'[Sender] = os[Sender]
    BY <2>1 DEF TypeOK, Receivers, Procs, Sender
  <2>3. SenderKept
    BY <2>1, <2>2, Zenon DEF SenderKept
  <2> QED
    BY <2>3, SenderSafeKept
<1>2. CASE StartSender
  <2>1. /\ pc = "start_sender" /\ pc' = "send"
        /\ term' = term /\ kill' = kill /\ late' = late /\ raising' = raising
    BY <1>2, Zenon DEF StartSender, Spawn, Goto
  <2>2. SenderKept
    BY <2>1, Zenon DEF SenderKept
  <2> QED
    BY <2>2, SenderSafeKept
<1>3. CASE SpawnFailed
  <2>1. /\ pc \in {"start_receiver", "start_sender"}
        /\ pc' \in {"poll", "returned", "raised"}
        /\ os' = os /\ failures' # {}
    BY <1>3 DEF SpawnFailed, Entered, Fail, system
  <2>2. os[Sender] = "absent"
    BY <2>1, Zenon DEF Started, Spawned
  <2>3. SenderKept
    BY <2>1, <2>2, Zenon DEF SenderKept
  <2> QED
    BY <2>3, SenderSafeKept
<1>4. CASE Checked
  <2>1. /\ pc = "check" /\ os' = os
        /\ term' = term /\ kill' = kill /\ late' = late
        /\ \/ pc' \in {"check", "start_sender"} /\ raising' = raising
           \/ pc' \in {"poll", "returned", "raised"} /\ failures' # {}
    BY <1>4, Zenon DEF Checked, Entered, system
  <2>2. os[Sender] = "absent"
    BY <2>1, Zenon DEF Started, Spawned
  <2>3. SenderKept
    BY <2>1, <2>2, Zenon DEF SenderKept
  <2> QED
    BY <2>3, SenderSafeKept
<1>5. CASE SenderFinishes
  <2>1. /\ pc \in Sending /\ pc' = "drain" /\ os[Sender] = "exited"
        /\ nrec' = nrec /\ os' = os
        /\ term' = term /\ kill' = kill /\ late' = late
        /\ exitCode' = [exitCode EXCEPT ![Sender] = code[Sender]]
        /\ ended' = [ended EXCEPT ![Sender] = TRUE]
        /\ raising' = raising /\ raising = FALSE
    BY <1>5, Zenon DEF SenderFinishes, Over, Collect, Goto, system, SenderSafe
  <2>2. nrec = N
    BY <2>1, Zenon DEF Progress, TryPoints
  <2>3. Collected(Sender)'
    BY <2>1, Zenon DEF Collected, TypeOK, Procs, Sender
  <2>4. ASSUME failures' = {} PROVE pc = "send" /\ code[Sender] = "zero"
    <3>1. ~Fail("timeout", Sender) /\ ~Fail("exit", Sender)
      BY <2>4 DEF Fail
    <3> QED
      BY <1>5, <3>1, Zenon DEF SenderFinishes, JudgeSender
  <2>5. exitCode'[Sender] = code[Sender]
    BY <2>1, Zenon DEF TypeOK, Procs
  <2>6. pc = "send" => InTime'
    BY <2>1, Zenon DEF SenderSafe, InTime, Sender
  <2>7. (pc \in After /\ raising = FALSE /\ failures = {} =>
         nrec = N /\ Collected(Sender) /\ exitCode[Sender] = "zero" /\ InTime)'
    BY <2>1, <2>2, <2>3, <2>4, <2>5, <2>6, Zenon DEF Sender
  <2> QED
    BY <2>1, <2>3, <2>7, Zenon DEF SenderSafe
<1>6. CASE TryRaised \/ Interrupted
  <2>1. raising' = TRUE /\ pc' \in {"poll", "returned", "raised"}
    BY <1>6, Zenon DEF TryRaised, Interrupted, Entered
  <2>2. SenderKept
    BY <2>1, Zenon DEF SenderKept
  <2> QED
    BY <2>2, SenderSafeKept
<1>7. CASE SenderSignalled \/ SenderLate
  <2>1. /\ pc \in TryPoints
        /\ pc' \in {"terminate_sender", "send_term", "kill_sender", "send_kill"}
        /\ raising' = raising
    BY <1>7, Zenon DEF SenderSignalled, SenderLate, Signalled, Goto
  <2>2. SenderKept
    BY <2>1, Zenon DEF SenderKept
  <2> QED
    BY <2>2, SenderSafeKept
<1>8. CASE Drained
  <2>1. /\ pc = "drain" /\ pc' \in {"poll", "returned", "raised"}
        /\ failures' = failures /\ UNCHANGED <<records, system>>
    BY <1>8, Zenon DEF Drained, Entered
  <2>2. raising = FALSE
    BY <2>1, Zenon DEF SenderSafe
  <2>3. SenderKept
    BY <2>1, <2>2, Zenon DEF SenderKept, records, system
  <2> QED
    BY <2>3, SenderSafeKept
<1>9. CASE \/ PollReceiver \/ ReceiverSignalled \/ FinishReceiver
          \/ FinallyRaised \/ ReceiverTimesOut
  <2>1. /\ pc \in FinallyPoints
        /\ pc' \in FinallyPoints \union {"returned", "raised"}
        /\ os' = os /\ late' = late /\ nrec' = nrec
    BY <1>9 DEF PollReceiver, ReceiverSignalled, FinishReceiver, FinallyRaised, ReceiverTimesOut,
                NextRecord, Goto, Leave, Signalled, Collect, records, system
  <2>4. failures' = {} => failures = {}
    BY <1>9 DEF PollReceiver, ReceiverSignalled, FinishReceiver, FinallyRaised,
                ReceiverTimesOut, Signalled, Fail
  <2>5. raising' = FALSE => raising = FALSE
    BY <1>9, Zenon DEF PollReceiver, ReceiverSignalled, FinishReceiver, FinallyRaised,
                ReceiverTimesOut, Signalled
  <2>2. idx # Sender /\ Sender \in Procs
    BY DEF TypeOK, Receivers, Procs, Sender
  <2>3. /\ exitCode'[Sender] = exitCode[Sender]
        /\ term'[Sender] = term[Sender] /\ kill'[Sender] = kill[Sender]
    BY <1>9, <2>2, Zenon
       DEF PollReceiver, ReceiverSignalled, FinishReceiver, FinallyRaised, ReceiverTimesOut,
           Signalled, Collect, TypeOK, records, system
  <2>6. SenderKept
    BY <2>1, <2>3, <2>4, <2>5, Zenon DEF SenderKept
  <2> QED
    BY <2>6, SenderSafeKept
<1>10. CASE \E p \in Procs, c \in Codes : Exit(p, c)
  <2>1. /\ UNCHANGED <<control, records, failures, term, kill, late>>
        /\ \E p \in Procs : os[p] = "running" /\ os' = [os EXCEPT ![p] = "exited"]
    BY <1>10, Zenon DEF Exit
  <2>2. os'[Sender] # "absent" => os[Sender] # "absent"
    BY <2>1 DEF TypeOK, Procs
  <2>3. SenderKept
    BY <2>1, <2>2, Zenon DEF SenderKept, control, records
  <2> QED
    BY <2>3, SenderSafeKept
<1>11. CASE UNCHANGED vars \/ \E p \in Procs : Release(p)
  <2>1. SenderKept
    BY <1>11, Zenon DEF SenderKept, Release, vars, control, records, system
  <2> QED
    BY <2>1, SenderSafeKept
<1> QED
  BY <1>1, <1>2, <1>3, <1>4, <1>5, <1>6, <1>7, <1>8, <1>9, <1>10, <1>11, Zenon
     DEF Effect
-----------------------------------------------------------------------------
(* The order of the shutdown, and what an exception leaves of it.          *)

\* Unless its wait was cut short, the runner that is not waiting for the sender
\* has not started it yet or knows that it has exited.
SenderOver == ~CutShort /\ pc \notin Sending => os[Sender] # "running"

\* The sender's record, once it is complete, says how the sender exited.
SenderRecord ==
  ended[Sender] = TRUE => os[Sender] = "exited" /\ exitCode[Sender] = code[Sender]

\* An exception, the interrupt apart, leaves stop_receivers at its end or at
\* the first receiver whose output raises: those before it are collected.
Aborted ==
  pc = "raised" /\ ~interrupted /\ "shutdown" \notin endless =>
    \A p \in Receivers :
      p <= nrec /\ (1..p) \intersect Binary = {} => Collected(p)

\* Every step keeps SenderOver: each way out of the wait for the sender, but
\* the interrupt, is taken when it has exited.
LEMMA SenderOverInductive ==
  TypeOK /\ Progress /\ Started /\ SenderOver /\ [Next]_vars => SenderOver'
<1> SUFFICES ASSUME TypeOK, Progress, Started, SenderOver, Effect, ~CutShort',
                    pc' \notin Sending
             PROVE  os'[Sender] # "running"
  BY Effects DEF SenderOver, Sender
<1>1. ~CutShort /\ (pc \notin Sending => os[Sender] # "running")
  <2>1. UNCHANGED outside \/ Interrupted
    BY Zenon DEF Effect, StartReceiver, StartSender, SpawnFailed, Checked, SenderFinishes,
       TryRaised, SenderLate, SenderSignalled, Drained, PollReceiver,
       ReceiverSignalled, FinishReceiver, FinallyRaised, ReceiverTimesOut, Signalled,
       Exit, Release, vars
  <2>2. CASE UNCHANGED outside
    BY <2>2, Zenon DEF outside, CutShort, SenderOver
  <2>3. CASE Interrupted
    BY <2>3, Zenon DEF Interrupted, CutShort
  <2> QED
    BY <2>1, <2>2, <2>3
<1> USE DEF Sending
<1>2. CASE StartReceiver
  BY <1>1, <1>2, RunnerAssumption
     DEF RunnerAssumption, StartReceiver, Spawn, TypeOK, Procs, Receivers, Sender
<1>3. CASE StartSender \/ SenderSignalled \/ SenderLate
  BY <1>3, Zenon DEF StartSender, SenderSignalled, SenderLate, Goto
<1>4. CASE SenderFinishes \/ TryRaised
  BY <1>1, <1>4 DEF SenderFinishes, TryRaised, Over, system
<1>5. CASE Interrupted
  BY <1>5, Zenon DEF Interrupted, CutShort
<1>6. ASSUME NEW p \in Procs, NEW c \in Codes, Exit(p, c) PROVE os'[Sender] # "running"
  BY <1>1, <1>6 DEF Exit, control, TypeOK, Procs
<1>7. CASE \/ SpawnFailed \/ Checked \/ Drained \/ PollReceiver \/ FinishReceiver
          \/ FinallyRaised \/ ReceiverSignalled \/ ReceiverTimesOut
  <2>1. os' = os
    BY <1>7, Zenon DEF SpawnFailed, Checked, Drained, PollReceiver, FinishReceiver,
       FinallyRaised, ReceiverSignalled, ReceiverTimesOut, Signalled, system
  <2>2. pc \notin Sending
    BY <1>7 DEF SpawnFailed, Checked, Drained, PollReceiver, FinishReceiver,
       FinallyRaised, ReceiverSignalled, ReceiverTimesOut
  <2> QED
    BY <1>1, <2>1, <2>2
<1>8. CASE UNCHANGED vars \/ \E p \in Procs : Release(p)
  <2>1. os' = os /\ pc' = pc
    BY <1>8, Zenon DEF Release, vars, control, system
  <2> QED
    BY <1>1, <2>1
<1> QED
  BY <1>2, <1>3, <1>4, <1>5, <1>6, <1>7, <1>8, Zenon DEF Effect

\* Every step keeps SenderRecord: the sender is collected after it exited, and
\* it neither starts nor exits a second time.
LEMMA SenderRecordInductive ==
  TypeOK /\ Progress /\ Started /\ SenderRecord /\ [Next]_vars => SenderRecord'
<1> SUFFICES ASSUME TypeOK, Progress, Started, SenderRecord, Effect
             PROVE  SenderRecord'
  BY Effects
<1>1. CASE /\ os' = os /\ code' = code
           /\ ended' = ended /\ exitCode'[Sender] = exitCode[Sender]
  BY <1>1, Zenon DEF SenderRecord
<1>2. CASE StartReceiver \/ StartSender
  <2>1. /\ code' = code /\ ended' = ended /\ exitCode' = exitCode
        /\ \/ os' = [os EXCEPT ![idx] = "running"] /\ idx # Sender
           \/ os' = [os EXCEPT ![Sender] = "running"] /\ pc = "start_sender"
    BY <1>2 DEF StartReceiver, StartSender, Spawn, records, TypeOK, Receivers, Sender
  <2>2. pc = "start_sender" => os[Sender] = "absent"
    BY DEF Started, Spawned
  <2>3. ended[Sender] = TRUE => os'[Sender] = os[Sender]
    BY <2>1, <2>2 DEF SenderRecord, TypeOK, Procs
  <2> QED
    BY <2>1, <2>3, Zenon DEF SenderRecord
<1>3. CASE SenderFinishes
  <2>1. /\ os[Sender] = "exited" /\ os' = os /\ code' = code
        /\ exitCode' = [exitCode EXCEPT ![Sender] = code[Sender]]
    BY <1>3, Zenon DEF SenderFinishes, Over, Collect, system
  <2> QED
    BY <2>1 DEF SenderRecord, TypeOK, Procs
<1>4. CASE FinishReceiver
  <2>1. /\ os' = os /\ code' = code /\ idx # Sender /\ idx \in Procs
        /\ exitCode' = [exitCode EXCEPT ![idx] = code[idx]]
        /\ ended' = [ended EXCEPT ![idx] = TRUE]
    BY <1>4 DEF FinishReceiver, Collect, system, TypeOK, Receivers, Procs, Sender
  <2>2. exitCode'[Sender] = exitCode[Sender] /\ ended'[Sender] = ended[Sender]
    BY <2>1, Zenon DEF TypeOK, Procs
  <2> QED
    BY <2>1, <2>2, Zenon DEF SenderRecord
<1>5. CASE Checked
  <2>1. /\ os' = os /\ code' = code /\ ended' = ended /\ idx # Sender
        /\ exitCode' = exitCode \/ exitCode' = [exitCode EXCEPT ![idx] = code[idx]]
    BY <1>5 DEF Checked, Flag, system, TypeOK, Receivers, Sender
  <2> QED
    BY <1>1, <2>1 DEF TypeOK, Procs
<1>6. ASSUME NEW p \in Procs, NEW c \in Codes, Exit(p, c) PROVE SenderRecord'
  <2>1. /\ os[p] = "running" /\ os' = [os EXCEPT ![p] = "exited"]
        /\ code' = [code EXCEPT ![p] = c] /\ ended' = ended /\ exitCode' = exitCode
    BY <1>6, Zenon DEF Exit, records
  <2> QED
    BY <2>1 DEF SenderRecord, TypeOK
<1> QED
  BY <1>1, <1>2, <1>3, <1>4, <1>5, <1>6, Zenon
     DEF Effect, SpawnFailed, TryRaised, SenderSignalled, Drained, PollReceiver,
         ReceiverSignalled, FinallyRaised, Interrupted, Signalled, Release,
         SenderLate, ReceiverTimesOut,
         records, system, vars

\* Every step keeps Aborted.
LEMMA AbortedInductive ==
  /\ TypeOK /\ Progress /\ Started /\ ReceiversSafe /\ Aborted /\ [Next]_vars
  => Aborted'
<1> SUFFICES ASSUME TypeOK, Progress, Started, ReceiversSafe, Aborted, Effect,
                    pc' = "raised", ~interrupted', "shutdown" \notin endless'
             PROVE  Aborted'
  BY Effects DEF Aborted
<1>1. \A p \in Receivers : Collected(p) => Collected(p)'
  BY CollectedForGood DEF Procs
<1>2. CASE FinishReceiver
  <2>1. /\ pc \in {"finish", "reap"} /\ nrec' = nrec
        /\ os' = os /\ os[idx] = "exited" /\ NextRecord("finish", Leave(raising))
        /\ ended' = [ended EXCEPT ![idx] = TRUE] /\ ended \in [Procs -> BOOLEAN]
    BY <1>2, Zenon DEF FinishReceiver, Over, Collect, TypeOK, system
  <2>2. ~(idx < nrec)
    BY <2>1 DEF NextRecord, Goto
  <2>3. \A p \in Receivers : p <= nrec => p < idx \/ p = idx
    BY <2>2 DEF TypeOK, Receivers
  <2>4. \A p \in Receivers : p < idx => Collected(p)'
    BY <1>1, <2>1, Zenon DEF ReceiversSafe
  <2>5. \A p \in Receivers : p = idx => Collected(p)'
    BY <2>1, Zenon DEF Collected, Procs
  <2> QED
    BY <2>1, <2>3, <2>4, <2>5, Zenon DEF Aborted
<1>3. CASE FinallyRaised
  <2>1. pc \in {"finish", "reap"} /\ nrec' = nrec /\ idx \in Binary
    BY <1>3, Zenon DEF FinallyRaised, outside, records
  <2>2. \A p \in Receivers : (1..p) \intersect Binary = {} => p < idx
    BY <2>1 DEF TypeOK, Receivers
  <2>3. \A p \in Receivers : p < idx => Collected(p)'
    BY <1>1, <2>1, Zenon DEF ReceiversSafe
  <2> QED
    BY <2>2, <2>3, Zenon DEF Aborted
<1>4. CASE Entered' /\ nrec' = nrec
  <2>1. nrec' = 0
    BY <1>4 DEF Entered
  <2> QED
    BY <2>1 DEF Aborted, Receivers
<1>5. CASE pc' = pc /\ nrec' = nrec /\ UNCHANGED outside
  BY <1>1, <1>5, Zenon DEF Aborted, outside
<1> QED
  BY <1>2, <1>3, <1>4, <1>5, Zenon
     DEF Effect, StartReceiver, StartSender, SpawnFailed, Checked, SenderFinishes,
         TryRaised, SenderSignalled, Drained, PollReceiver, ReceiverSignalled,
         SenderLate, ReceiverTimesOut,
         Interrupted, Exit, Release, NextRecord, records, control, Goto, vars
-----------------------------------------------------------------------------
(* The inductive invariant and the theorems.                               *)

IInv ==
  /\ TypeOK /\ Progress /\ Started /\ Losses /\ Reports /\ Signals
  /\ SenderSafe /\ ReceiversSafe /\ SenderOver /\ SenderRecord /\ Aborted

\* It holds before the first receiver is started.
LEMMA InitIInv == Init => IInv
<1> SUFFICES ASSUME Init
             PROVE  SenderSafe /\ ReceiversSafe /\ SenderOver /\ SenderRecord /\ Aborted
  BY InitInductive DEF IInv
<1>1. /\ pc = "start_receiver" /\ raising = FALSE
      /\ ended = [p \in Procs |-> FALSE]
      /\ os = [p \in Procs |-> "absent"]
      /\ term = [p \in Procs |-> FALSE] /\ kill = [p \in Procs |-> FALSE]
      /\ late = FALSE
  BY Zenon DEF Init
<1>2. os[Sender] = "absent" /\ ended[Sender] = FALSE /\ InTime
  BY <1>1, Zenon DEF InTime, Procs
<1> QED
  BY <1>1, <1>2, Zenon
     DEF SenderSafe, ReceiversSafe, SenderOver, SenderRecord, Aborted, Spawned,
         After, FinallyPoints

\* Every step keeps it.
LEMMA NextIInv == IInv /\ [Next]_vars => IInv'
  BY TypeInductive, StartedInductive, LossesInductive, ReportsInductive,
     SignalsInductive, SenderSafeInductive, ReceiversSafeInductive,
     SenderOverInductive, SenderRecordInductive, AbortedInductive DEF IInv

\* The inductive invariant of the runner, from which every theorem below
\* follows without looking at a step again.
THEOREM Invariance == Spec => []IInv
  BY InitIInv, NextIInv, PTL DEF Spec

\* The runner's variables keep their types, with any number of receivers.
THEOREM TypeCorrect == Spec => []TypeOK
<1>1. IInv => TypeOK
  BY DEF IInv
<1> QED
  BY <1>1, Invariance, PTL

\* However the exits of the receivers interleave with the startup check and
\* the shutdown poll, each receiver lost before its poll is reported exactly
\* once and no other is, whatever the processes print or leave running.
THEOREM LossesReported == Spec => []EveryLossReportedOnce
<1>1. ASSUME IInv, pc = "returned", NEW p \in Receivers
      PROVE  \/ p \in lost /\ \E k \in {"startup", "unexpected"} : Reported(p) = {k}
             \/ p \notin lost /\ Reported(p) = {}
  <2>1. ~BeforeShutdownPoll(p)
    BY <1>1 DEF BeforeShutdownPoll, TryPoints
  <2>2. /\ <<"startup", p>> \in failures => p \in lost
        /\ <<"unexpected", p>> \in failures =>
             p \in lost /\ <<"startup", p>> \notin failures
        /\ p \in lost => <<"startup", p>> \in failures \/ <<"unexpected", p>> \in failures
    BY <1>1, <2>1 DEF IInv, Reports
  <2> QED
    BY <2>2 DEF Reported
<1>2. IInv => EveryLossReportedOnce
  BY <1>1 DEF EveryLossReportedOnce
<1> QED
  BY <1>2, Invariance, PTL

\* At no point of a run is a receiver both signalled by the runner and
\* reported as a failure: a controlled shutdown is never mistaken for a loss.
THEOREM ControlledStop == Spec => []ControlledStopIsNoFailure
<1>1. ASSUME IInv, NEW p \in Receivers, term[p] \/ kill[p]
      PROVE  Reported(p) = {}
  <2>1. p \notin lost
    BY <1>1, Zenon DEF IInv, Signals
  <2>2. <<"startup", p>> \notin failures /\ <<"unexpected", p>> \notin failures
    BY <1>1, <2>1, Zenon DEF IInv, Reports
  <2> QED
    BY <2>2 DEF Reported
<1>2. IInv => ControlledStopIsNoFailure
  BY <1>1, Zenon DEF ControlledStopIsNoFailure
<1> QED
  BY <1>2, Invariance, PTL

\* A normal return leaves no process of the experiment running or uncollected.
THEOREM NothingLeftBehind == Spec => []NothingLeft
<1>1. ASSUME IInv, pc = "returned", NEW p \in Procs, Spawned(p)
      PROVE  os[p] = "exited" /\ ended[p]
  <2>1. raising = FALSE
    BY <1>1, Zenon DEF IInv, ReceiversSafe
  <2>2. CASE p = Sender
    BY <1>1, <2>1, <2>2, Zenon DEF IInv, SenderSafe, Sending, Collected
  <2>3. CASE p \in Receivers
    BY <1>1, <2>3, Zenon DEF IInv, ReceiversSafe, Started, Collected
  <2> QED
    BY <2>2, <2>3 DEF Procs
<1>2. IInv => NothingLeft
  BY <1>1, Zenon DEF NothingLeft
<1> QED
  BY <1>2, Invariance, PTL

\* The inductive invariant says what a status of "success" means.
LEMMA IInvIsClean == IInv => SuccessIsClean
<1>1. ASSUME IInv, pc = "returned", Status = "success"
      PROVE  /\ nrec = N /\ lost = {}
             /\ ended[Sender] /\ exitCode[Sender] = "zero"
             /\ ~late /\ ~term[Sender] /\ ~kill[Sender]
  <2>1. failures = {}
    BY <1>1 DEF Status
  <2>2. raising = FALSE
    BY <1>1, Zenon DEF IInv, ReceiversSafe
  <2>3. /\ nrec = N /\ exitCode[Sender] = "zero"
        /\ ended[Sender] = TRUE
        /\ late = FALSE /\ term[Sender] = FALSE /\ kill[Sender] = FALSE
    BY <1>1, <2>1, <2>2, Zenon DEF IInv, SenderSafe, After, Collected, InTime
  <2>4. ASSUME NEW p \in Receivers PROVE p \notin lost
    BY <1>1, <2>1 DEF IInv, Reports, BeforeShutdownPoll, TryPoints
  <2>5. lost = {}
    BY <1>1, <2>4 DEF IInv, TypeOK
  <2> QED
    BY <2>3, <2>5, Zenon
<1> QED
  BY <1>1, Zenon DEF SuccessIsClean

\* A run whose status is "success" started every receiver, lost none before
\* the shutdown, and had its sender exit with code 0 before its time was over.
THEOREM SuccessfulIsClean == Spec => []SuccessIsClean
  BY IInvIsClean, Invariance, PTL

\* Unless the wait for the sender is cut short, no receiver is signalled before it
\* has exited: what the sender sends until then finds the receivers listening,
\* whichever way stop_receivers is reached.
THEOREM SenderComesFirst == Spec => SenderFirst
<1> DEFINE Reaches(p) == (term'[p] /\ ~term[p]) \/ (kill'[p] /\ ~kill[p])
           NoneEarly  == \A p \in Receivers : Reaches(p) => os[Sender] # "running" \/ CutShort
<1>1. ASSUME IInv, [Next]_vars, ~CutShort, NEW p \in Receivers, Reaches(p)
      PROVE  os[Sender] # "running"
  <2>1. Effect /\ SenderOver
    BY <1>1, Effects DEF IInv
  <2>2. p # Sender /\ p \in Procs
    BY DEF Receivers, Procs, Sender
  <2>3. ~SenderSignalled
    BY <1>1, <2>2, Zenon DEF SenderSignalled, Signalled
  <2>4. ReceiverSignalled
    BY <1>1, <2>1, <2>3, OnlySignalsSignal, Zenon
  <2>5. pc \in {"terminate", "kill"}
    BY <2>4, Zenon DEF ReceiverSignalled
  <2> QED
    BY <1>1, <2>1, <2>5 DEF SenderOver, Sending
<1>2. IInv /\ [Next]_vars => [NoneEarly]_vars
  BY <1>1, Zenon
<1> QED
  BY <1>2, Invariance, PTL DEF Spec, SenderFirst

\* An exception in the `try' block, that of a wait included, or of an output in
\* stop_receivers leaves no receiver running before the first whose output raises.
THEOREM ShutdownIsComplete == Spec => []ReceiversCollected
<1>1. ASSUME IInv, pc \in FinalPoints, ~interrupted, "shutdown" \notin endless, NEW p \in Receivers,
             Spawned(p), (1..p) \intersect Binary = {}
      PROVE  os[p] = "exited" /\ ended[p]
  <2>1. p <= nrec
    BY <1>1, Zenon DEF IInv, Started
  <2>2. Collected(p)
    BY <1>1, <2>1, Zenon DEF IInv, Aborted, ReceiversSafe, FinalPoints
  <2> QED
    BY <2>2, Zenon DEF Collected
<1>2. IInv => ReceiversCollected
  BY <1>1, Zenon DEF ReceiversCollected
<1> QED
  BY <1>2, Invariance, PTL
-----------------------------------------------------------------------------
(* The runner's steps are counted.                                         *)

\* How many steps the runner has at most left: what the loops at and behind its
\* present statement can still take.
Remaining ==
  CASE pc \in FinalPoints      -> 0
    [] pc = "reap"             -> 3 * (N - idx) + 1
    [] pc = "kill"             -> 3 * (N - idx) + 2
    [] pc = "finish"           -> 3 * (N - idx) + 3
    [] pc = "terminate"        -> 3 * N + 2 * (N - idx) + 1
    [] pc = "poll"             -> 3 * N + 2 * (N - idx) + 2
    [] pc = "drain"            -> 5 * N + 1
    [] pc = "send_kill"        -> 5 * N + 2
    [] pc = "kill_sender"      -> 5 * N + 3
    [] pc = "send_term"        -> 5 * N + 4
    [] pc = "terminate_sender" -> 5 * N + 5
    [] pc = "send"             -> 5 * N + 6
    [] pc = "start_sender"     -> 5 * N + 7
    [] pc = "check"            -> 5 * N + 8 + (N - idx)
    [] pc = "start_receiver"   -> 6 * N + 8 + (N - idx)

\* At no point are more than 7 N + 7 steps left.
RemainingIsBounded == Remaining \in 0..(7 * N + 7)

\* Each step of the runner, and the interrupt, uses up one at least; what the
\* processes do gives none back.
EachStepCounts ==
  [][ /\ Step \/ Interrupt => Remaining' < Remaining
      /\ \A p \in Procs : (\E c \in Codes : Exit(p, c)) \/ Release(p)
                            => Remaining' = Remaining ]_vars

\* The position of a loop.
LEMMA LoopIsInRange == ASSUME TypeOK PROVE N \in Nat \ {0} /\ idx \in 1..N
  BY RunnerAssumption, Zenon DEF RunnerAssumption, TypeOK, Receivers

\* The count is within its bound wherever the loops are within theirs.
LEMMA RemainingIs == TypeOK => RemainingIsBounded
<1> SUFFICES ASSUME TypeOK PROVE RemainingIsBounded
  OBVIOUS
<1>1. N \in Nat \ {0} /\ idx \in 1..N
  BY LoopIsInRange
<1>2. Remaining \in Int
  BY <1>1 DEF TypeOK, Remaining, TryPoints, FinallyPoints, FinalPoints
<1>3. 0 <= Remaining
  BY <1>1 DEF TypeOK, Remaining, TryPoints, FinallyPoints, FinalPoints
<1>4. Remaining <= 7 * N + 7
  BY <1>1 DEF TypeOK, Remaining, TryPoints, FinallyPoints, FinalPoints
<1> QED
  BY <1>1, <1>2, <1>3, <1>4 DEF RemainingIsBounded

\* Entering the `finally' block leaves the whole `try' block behind.
LEMMA EnteringLowers ==
  ASSUME TypeOK, pc \in TryPoints, NEW exc \in BOOLEAN, EnterFinally(nrec, exc),
         UNCHANGED nrec
  PROVE  Remaining' < Remaining
<1>1. N \in Nat \ {0} /\ idx \in 1..N
  BY LoopIsInRange
<1>2. Remaining \in Int /\ 5 * N + 1 <= Remaining
  BY <1>1 DEF Remaining, TryPoints, FinalPoints
<1>3. idx' = 1 /\ pc' \in {"poll", "returned", "raised"}
  BY Entering, Zenon DEF Entered
<1>4. Remaining' \in Int /\ Remaining' <= 5 * N
  BY <1>1, <1>3 DEF Remaining, FinalPoints
<1> QED
  BY <1>1, <1>2, <1>4

\* Each step of the `try' block uses up one.
LEMMA TryLowers == ASSUME TypeOK, Progress, Try PROVE Remaining' < Remaining
<1> USE DEF Goto, FinalPoints
<1>0. N \in Nat \ {0} /\ idx \in 1..N
  BY LoopIsInRange
<1>1. CASE ReceiverSpawnFails \/ SenderSpawnFails \/ SenderOutputRaises \/ Drain
  <2>1. pc \in TryPoints /\ nrec' = nrec
    BY <1>1, Zenon DEF ReceiverSpawnFails, SenderSpawnFails, SenderOutputRaises, Drain,
                records, TryPoints
  <2>2. EnterFinally(nrec, FALSE) \/ EnterFinally(nrec, TRUE)
    BY <1>1, Zenon DEF ReceiverSpawnFails, SenderSpawnFails, SenderOutputRaises, Drain
  <2> QED
    BY <2>1, <2>2, EnteringLowers
<1>2. CASE StartReceiver
  <2>1. /\ pc = "start_receiver"
        /\ \/ idx < N /\ pc' = "start_receiver" /\ idx' = idx + 1
           \/ pc' = "check" /\ idx' = 1
    BY <1>2, Zenon DEF StartReceiver
  <2> QED
    BY <1>0, <2>1 DEF Remaining
<1>3. CASE CheckReceiver
  <2>1. /\ pc = "check" /\ nrec' = nrec
        /\ \/ pc' = "check" /\ idx' = idx + 1
           \/ pc' = "start_sender" /\ idx' = 1
           \/ EnterFinally(nrec, FALSE)
    BY <1>3, Zenon DEF CheckReceiver
  <2>2. CASE EnterFinally(nrec, FALSE)
    BY <2>1, <2>2, EnteringLowers DEF TryPoints
  <2>3. CASE pc' = "check" /\ idx' = idx + 1
    BY <1>0, <2>1, <2>3 DEF Remaining
  <2>4. CASE pc' = "start_sender"
    BY <1>0, <2>1, <2>4 DEF Remaining
  <2> QED
    BY <2>1, <2>2, <2>3, <2>4
<1>4. CASE \/ StartSender \/ SenderFinishes
          \/ SenderTimesOut \/ TerminateSender \/ KillSender
  <2>1. \/ pc = "start_sender" /\ pc' = "send"
        \/ pc \in {"send", "send_term", "send_kill"} /\ pc' = "drain"
        \/ pc = "send" /\ pc' = "terminate_sender"
        \/ pc = "terminate_sender" /\ pc' = "send_term"
        \/ pc = "send_term" /\ pc' = "kill_sender"
        \/ pc = "kill_sender" /\ pc' = "send_kill"
    BY <1>4, Zenon DEF StartSender, SenderFinishes, SenderTimesOut, TerminateSender,
                       KillSender
  <2> QED
    BY <1>0, <2>1 DEF Remaining
<1> QED
  BY <1>1, <1>2, <1>3, <1>4 DEF Try

\* Each step of stop_receivers uses up one: a receiver takes at most two in
\* its first loop and three in its second.
LEMMA FinallyLowers == ASSUME TypeOK, Progress, Finally PROVE Remaining' < Remaining
<1> USE DEF Goto, FinalPoints
<1>0. N \in Nat \ {0} /\ idx \in 1..N
  BY LoopIsInRange
<1>1. CASE PollReceiver \/ TerminateReceiver
  <2>1. \/ pc \in {"poll", "terminate"} /\ NextRecord("poll", "finish")
        \/ pc = "poll" /\ Goto("terminate", idx)
    BY <1>1, Zenon DEF PollReceiver, TerminateReceiver
  <2> QED
    BY <1>0, <2>1 DEF Remaining, NextRecord
<1>2. CASE FinishReceiver
  <2>1. pc \in {"finish", "reap"} /\ NextRecord("finish", Leave(raising))
    BY <1>2, Zenon DEF FinishReceiver
  <2> QED
    BY <1>0, <2>1 DEF Remaining, NextRecord, Leave
<1>3. CASE ReceiverOutputRaises \/ ReceiverTimesOut \/ KillReceiver
  <2>1. \/ pc \in {"finish", "reap"} /\ Goto("raised", 1)
        \/ pc = "finish" /\ Goto("kill", idx)
        \/ pc = "kill" /\ Goto("reap", idx)
    BY <1>3, Zenon DEF ReceiverOutputRaises, ReceiverTimesOut, KillReceiver
  <2> QED
    BY <1>0, <2>1 DEF Remaining
<1> QED
  BY <1>1, <1>2, <1>3 DEF Finally

\* So does a wait that raises.
LEMMA WaitRaisesLowers == ASSUME TypeOK, Progress, WaitRaises PROVE Remaining' < Remaining
<1>1. nrec' = nrec
  BY Zenon DEF WaitRaises, records
<1>2. CASE pc \in TryPoints /\ EnterFinally(nrec, TRUE)
  BY <1>1, <1>2, EnteringLowers
<1>3. CASE pc = "finish" /\ pc' = "raised"
  <2>1. N \in Nat \ {0} /\ idx \in 1..N
    BY LoopIsInRange
  <2> QED
    BY <1>3, <2>1 DEF Remaining, FinalPoints
<1> QED
  BY <1>2, <1>3, Zenon DEF WaitRaises, Goto, TryPoints

\* So does the interrupt, wherever it finds the runner.
LEMMA InterruptLowers == ASSUME TypeOK, Progress, Interrupt PROVE Remaining' < Remaining
<1>1. nrec' = nrec
  BY Zenon DEF Interrupt, records
<1>2. CASE pc \in TryPoints /\ EnterFinally(nrec, TRUE)
  BY <1>1, <1>2, EnteringLowers
<1>3. CASE pc \in FinallyPoints /\ pc' = "raised"
  <2>1. N \in Nat \ {0} /\ idx \in 1..N
    BY LoopIsInRange
  <2> QED
    BY <1>3, <2>1 DEF Remaining, FinallyPoints, FinalPoints
<1> QED
  BY <1>2, <1>3, Zenon DEF Interrupt, Goto

\* execute_protocol makes at most 7 N + 7 steps for N receivers, interrupted or not
\* and whatever the processes do: none of its loops can start again, so that it can
\* only fail to end by waiting in one of them.
THEOREM StepsAreBounded == Spec => []RemainingIsBounded /\ EachStepCounts
<1> DEFINE NoGain == \A p \in Procs : (\E c \in Codes : Exit(p, c)) \/ Release(p)
                                        => Remaining' = Remaining
           Counts == (Step \/ Interrupt => Remaining' < Remaining) /\ NoGain
<1>1. IInv => TypeOK /\ Progress
  BY Zenon DEF IInv
<1>2. ASSUME TypeOK, Progress PROVE Step \/ Interrupt => Remaining' < Remaining
  BY <1>2, TryLowers, FinallyLowers, WaitRaisesLowers, InterruptLowers, Zenon DEF Step
<1>3. NoGain
  <2>1. UNCHANGED control => Remaining' = Remaining
    BY DEF control, Remaining
  <2> QED
    BY <2>1, Zenon DEF Exit, Release
<1>4. IInv /\ [Next]_vars => [Counts]_vars
  BY <1>1, <1>2, <1>3, Zenon
<1> QED
  BY <1>1, <1>4, RemainingIs, Invariance, PTL DEF Spec, EachStepCounts
=============================================================================
