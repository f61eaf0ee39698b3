-------------------------- MODULE RefinementProofs --------------------------
(***************************************************************************)
(* Runner implements Supervision: the proof of what RunnerRefinement       *)
(* states, for any number of receivers, any processes with undecodable     *)
(* output or lingering descendants, as long as the wait for the sender is  *)
(* not cut short.                                                          *)
(***************************************************************************)
EXTENDS RunnerRefinement, RunnerProofs

\* The abstract rx, dismissed and verdict.
Rx        == [p \in Receivers |-> AbsReceiver(p)]
Dismissed == {p \in 1..nrec : ~BeforeShutdownPoll(p)}
Verdict   == IF pc = "returned" THEN Status ELSE "open"

Stutter == UNCHANGED <<Rx, AbsSender, Dismissed, lost, Verdict>>

\* A receiver is idle, up or down in the abstract experiment as the system
\* has it absent, running or exited; the sender ends well or badly.
ProcessesMapped ==
  /\ \A p \in Receivers :
       /\ Rx[p] = AbsReceiver(p) /\ Rx[p] \in {"idle", "up", "down"}
       /\ Rx[p] = "idle" <=> os[p] = "absent"
       /\ Rx[p] = "up" <=> os[p] = "running"
       /\ Rx[p] = "down" <=> os[p] = "exited"
  /\ AbsSender \in {"idle", "up", "ok", "bad"}
  /\ AbsSender = "idle" <=> os[Sender] = "absent"
  /\ AbsSender = "up" <=> os[Sender] = "running"
  /\ AbsSender = "ok" <=> /\ os[Sender] = "exited" /\ code[Sender] = "zero"
                          /\ late = FALSE

\* Runner's invariant makes the mapping of the processes one to one.
LEMMA ProcessesAreMapped == IInv => ProcessesMapped
<1> SUFFICES ASSUME IInv PROVE ProcessesMapped
  OBVIOUS
<1>1. ASSUME NEW p \in Receivers
      PROVE  /\ Rx[p] = AbsReceiver(p) /\ Rx[p] \in {"idle", "up", "down"}
             /\ Rx[p] = "idle" <=> os[p] = "absent"
             /\ Rx[p] = "up" <=> os[p] = "running"
             /\ Rx[p] = "down" <=> os[p] = "exited"
  <2>1. Rx[p] = AbsReceiver(p)
    BY DEF Rx
  <2>2. os[p] \in {"absent", "running", "exited"}
    BY DEF IInv, TypeOK, Procs
  <2>3. /\ os[p] = "absent" => AbsReceiver(p) = "idle"
        /\ os[p] = "running" => AbsReceiver(p) = "up"
        /\ os[p] = "exited" => AbsReceiver(p) = "down"
    BY DEF AbsReceiver
  <2> QED
    BY <2>1, <2>2, <2>3
<1>2. /\ os[Sender] \in {"absent", "running", "exited"}
      /\ late \in BOOLEAN
  BY DEF IInv, TypeOK, Procs
<1>3. /\ os[Sender] = "absent" => AbsSender = "idle"
      /\ os[Sender] = "running" => AbsSender = "up"
      /\ os[Sender] = "exited" =>
           AbsSender = IF code[Sender] = "zero" /\ ~late THEN "ok" ELSE "bad"
  BY DEF AbsSender
<1> QED
  BY <1>1, <1>2, <1>3 DEF ProcessesMapped

\* The receivers the first pass of stop_receivers is done with.
DismissedSoFar ==
  /\ pc \in TryPoints => Dismissed = {}
  /\ pc = "poll" => Dismissed = 1..(idx - 1)
  /\ pc = "terminate" => Dismissed = 1..idx
  /\ pc \in {"finish", "kill", "reap"} \union FinalPoints => Dismissed = 1..nrec

\* The dismissed receivers, by where the runner is.
LEMMA DismissedIs == IInv => DismissedSoFar
  BY RunnerAssumption
     DEF RunnerAssumption, IInv, TypeOK, Progress, Dismissed, BeforeShutdownPoll,
         DismissedSoFar, TryPoints, FinallyPoints, FinalPoints, Receivers

\* What the invariant says of the next state.
LEMMA NextState == IInv' => ProcessesMapped' /\ DismissedSoFar' /\ SuccessIsClean'
  BY ProcessesAreMapped, DismissedIs, IInvIsClean, PTL

\* What leaves the abstract processes as they are.
LEMMA ReceiversStutter ==
  ASSUME IInv, IInv', \A p \in Receivers : os'[p] = os[p]
  PROVE  Rx' = Rx
<1>1. \A p \in Receivers : AbsReceiver(p)' = AbsReceiver(p)
  <2> SUFFICES ASSUME NEW p \in Receivers PROVE Rx[p]' = Rx[p]
    BY ProcessesAreMapped, NextState DEF ProcessesMapped
  <2> QED
    BY ProcessesAreMapped, NextState DEF ProcessesMapped
<1> QED
  BY <1>1 DEF Rx

\* The abstract sender depends on the sender's process and its lateness only.
LEMMA SenderStutters ==
  ASSUME IInv, IInv', os'[Sender] = os[Sender], code'[Sender] = code[Sender],
         late' = late \/ os[Sender] # "exited"
  PROVE  AbsSender' = AbsSender
  BY ProcessesAreMapped, NextState DEF ProcessesMapped, IInv, TypeOK, Procs

\* A step that starts and ends no process leaves all of them as they are.
LEMMA ProcessesStutter ==
  ASSUME IInv, IInv', UNCHANGED <<os, code>>,
         late' = late \/ os[Sender] # "exited"
  PROVE  Rx' = Rx /\ AbsSender' = AbsSender
  BY ReceiversStutter, SenderStutters

\* The abstract actions, in the terms above.
LEMMA AbstractSteps ==
  /\ Stutter => UNCHANGED Abstract!vars
  /\ \A p \in Receivers :
       /\ Rx[p] = "idle" /\ AbsSender = "idle" /\ Dismissed = {} /\ Verdict = "open"
       /\ Rx' = [Rx EXCEPT ![p] = "up"]
       /\ UNCHANGED <<AbsSender, Dismissed, lost, Verdict>>
       => Abstract!Launch(p)
  /\ \A p \in Receivers :
       /\ Rx[p] = "up"
       /\ Rx' = [Rx EXCEPT ![p] = "down"]
       /\ lost' = IF p \in Dismissed THEN lost ELSE lost \union {p}
       /\ UNCHANGED <<AbsSender, Dismissed, Verdict>>
       => Abstract!GoDown(p)
  /\ \A p \in Receivers :
       /\ Rx[p] # "idle" /\ p \notin Dismissed /\ AbsSender # "up"
       /\ Dismissed' = Dismissed \union {p}
       /\ UNCHANGED <<Rx, AbsSender, lost, Verdict>>
       => Abstract!Dismiss(p)
  /\ /\ AbsSender = "idle" /\ Dismissed = {} /\ Verdict = "open"
     /\ \A r \in Receivers : Rx[r] # "idle"
     /\ AbsSender' = "up"
     /\ UNCHANGED <<Rx, Dismissed, lost, Verdict>>
     => Abstract!StartSender
  /\ /\ AbsSender = "up" /\ AbsSender' \in {"ok", "bad"}
     /\ UNCHANGED <<Rx, Dismissed, lost, Verdict>>
     => Abstract!EndSender
  /\ /\ Verdict = "open" /\ AbsSender # "up"
     /\ \A r \in Receivers : Rx[r] # "up"
     /\ \A r \in Receivers : Rx[r] = "down" => r \in Dismissed
     /\ \/ Verdict' = "failed"
        \/ /\ Verdict' = "success"
           /\ \A r \in Receivers : Rx[r] # "idle"
           /\ lost = {} /\ AbsSender = "ok"
     /\ UNCHANGED <<Rx, AbsSender, Dismissed, lost>>
     => Abstract!Conclude
  BY DEF Stutter, Rx, Dismissed, Verdict, Abstract!vars, Abstract!Launch,
         Abstract!GoDown, Abstract!Dismiss, Abstract!StartSender,
         Abstract!EndSender, Abstract!Conclude, Abstract!Clean

AbsStep == Abstract!Next \/ UNCHANGED Abstract!vars

\* Starting a receiver launches it.
LEMMA StartReceiverLaunches ==
  ASSUME IInv, IInv', StartReceiver PROVE AbsStep
<1>1. /\ pc = "start_receiver" /\ pc' \in TryPoints
      /\ os' = [os EXCEPT ![idx] = "running"]
      /\ UNCHANGED <<code, term, kill, held, lost, late>>
  BY DEF StartReceiver, Spawn, Goto, TryPoints
<1>2. os[idx] = "absent" /\ os[Sender] = "absent" /\ idx # Sender
  BY <1>1, RunnerAssumption
     DEF RunnerAssumption, IInv, Progress, Started, Spawned, TypeOK, Receivers, Sender
<1>3. Dismissed = {} /\ Dismissed' = {}
  BY <1>1, DismissedIs, NextState DEF DismissedSoFar, IInv, TryPoints
<1>4. Verdict = "open" /\ Verdict' = "open"
  BY <1>1 DEF Verdict, TryPoints
<1>5. Rx' = [Rx EXCEPT ![idx] = "up"]
  BY <1>1 DEF Rx, AbsReceiver, IInv, TypeOK, Procs
<1>6. AbsSender' = AbsSender /\ AbsSender = "idle"
  <2>1. os'[Sender] = os[Sender]
    BY <1>1, <1>2 DEF IInv, TypeOK, Procs
  <2> QED
    BY <1>1, <1>2, <2>1, SenderStutters, ProcessesAreMapped DEF ProcessesMapped
<1>7. Rx[idx] = "idle" /\ idx \in Receivers
  BY <1>2, ProcessesAreMapped DEF ProcessesMapped, IInv, TypeOK
<1> QED
  BY <1>1, <1>3, <1>4, <1>5, <1>6, <1>7, AbstractSteps, Zenon DEF AbsStep, Abstract!Next

\* Starting the sender starts it.
LEMMA StartSenderStarts ==
  ASSUME IInv, IInv', StartSender PROVE AbsStep
<1>1. /\ pc = "start_sender" /\ pc' = "send"
      /\ os' = [os EXCEPT ![Sender] = "running"]
      /\ UNCHANGED <<nrec, code, term, kill, held, lost, late>>
  BY DEF StartSender, Spawn, Goto, records
<1>2. os[Sender] = "absent" /\ os'[Sender] = "running" /\ nrec = N
  BY <1>1 DEF IInv, Progress, Started, Spawned, TypeOK, Procs, TryPoints
<1>3. Dismissed = {} /\ Dismissed' = {}
  BY <1>1, DismissedIs, NextState DEF DismissedSoFar, IInv, TryPoints
<1>4. Verdict = "open" /\ Verdict' = "open"
  BY <1>1 DEF Verdict
<1>5. Rx' = Rx
  <2>1. \A p \in Receivers : os'[p] = os[p]
    BY <1>1 DEF IInv, TypeOK, Receivers, Procs, Sender
  <2> QED
    BY <2>1, ReceiversStutter
<1>6. \A p \in Receivers : Rx[p] # "idle"
  BY <1>2, ProcessesAreMapped DEF ProcessesMapped, IInv, Started, Spawned, Receivers
<1>7. AbsSender = "idle" /\ AbsSender' = "up"
  BY <1>2 DEF AbsSender
<1> QED
  BY <1>1, <1>3, <1>4, <1>5, <1>6, <1>7, AbstractSteps, Zenon DEF AbsStep, Abstract!Next

\* The steps of the `try' block that start nothing are stutters, unless the
\* first receiver could not be started: execute_protocol returns at once.
LEMMA EnteringConcludes ==
  ASSUME IInv, IInv', SpawnFailed PROVE AbsStep
<1>1. /\ pc \in {"start_receiver", "start_sender"} /\ Entered'
      /\ failures' # {} /\ UNCHANGED <<nrec, os, code, late, lost>>
  BY DEF SpawnFailed, Fail, records, system
<1>2. pc \in TryPoints /\ pc # "returned" /\ nrec \in 0..N
  BY <1>1 DEF TryPoints, IInv, TypeOK
<1>3. Rx' = Rx /\ AbsSender' = AbsSender /\ lost' = lost
  BY <1>1, ProcessesStutter
<1>4. Dismissed = {} /\ Verdict = "open"
  BY <1>2, DismissedIs, NextState DEF DismissedSoFar, IInv, Verdict
<1>5. Dismissed' = {}
  <2>1. CASE pc' = "poll"
    BY <1>1, <2>1, DismissedIs, NextState DEF DismissedSoFar, IInv, Entered
  <2>2. CASE pc' # "poll"
    BY <1>1, <2>2 DEF Entered, Dismissed
  <2> QED
    BY <2>1, <2>2
<1>6. CASE pc' # "returned"
  BY <1>3, <1>4, <1>5, <1>6, AbstractSteps, Zenon DEF AbsStep, Stutter, Verdict
<1>7. CASE pc' = "returned"
  <2>1. nrec = 0
    BY <1>1, <1>7 DEF Entered
  <2>2. \A p \in Receivers : os[p] = "absent"
    BY <2>1 DEF IInv, Started, Spawned, Receivers
  <2>3. os[Sender] = "absent"
    BY <2>1, RunnerAssumption DEF RunnerAssumption, IInv, Started, Spawned
  <2>4. AbsSender # "up" /\ \A p \in Receivers : Rx[p] = "idle"
    BY <2>2, <2>3, ProcessesAreMapped DEF ProcessesMapped, IInv
  <2>5. Verdict' = "failed"
    BY <1>1, <1>7 DEF Verdict, Status
  <2> QED
    BY <1>3, <1>4, <1>5, <2>4, <2>5, AbstractSteps DEF AbsStep, Abstract!Next
<1> QED
  BY <1>6, <1>7

\* The rest of the `try' block is a stutter.
LEMMA TryStutters ==
  ASSUME IInv, IInv',
         \/ Checked \/ SenderFinishes \/ TryRaised \/ SenderLate
         \/ SenderSignalled \/ Drained
  PROVE  AbsStep
<1>1. pc \in TryPoints /\ nrec # 0
  BY RunnerAssumption
     DEF RunnerAssumption, Checked, SenderFinishes, TryRaised, SenderLate,
         SenderSignalled, Drained, TryPoints, IInv, Progress, TypeOK, Receivers
<1>2. UNCHANGED <<nrec, os, code, lost>>
  BY DEF Checked, SenderFinishes, TryRaised, SenderLate, SenderSignalled, Drained,
         Collect, Signalled, records, system
<1>3. pc' \in TryPoints \/ (pc' = "poll" /\ idx' = 1)
  BY <1>1, <1>2
     DEF Checked, SenderFinishes, TryRaised, SenderLate, SenderSignalled, Drained,
         Entered, Goto, TryPoints
<1>4. late' = late \/ os[Sender] # "exited"
  <2>1. CASE SenderLate /\ pc = "send"
    <3>1. os[Sender] = "exited" => late = FALSE
      BY <2>1 DEF IInv, SenderSafe, Ahead, InTime
    <3>2. os[Sender] = "exited" => late' = FALSE
      BY <2>1, Zenon DEF SenderLate
    <3> QED
      BY <3>1, <3>2, Zenon
  <2>2. CASE SenderLate /\ pc # "send"
    BY <2>2, Zenon DEF SenderLate
  <2>3. CASE ~SenderLate
    BY <2>3, Zenon DEF Checked, SenderFinishes, TryRaised, SenderSignalled, Drained,
                       Signalled, system
  <2> QED
    BY <2>1, <2>2, <2>3
<1>5. Rx' = Rx /\ AbsSender' = AbsSender
  BY <1>2, <1>4, ProcessesStutter
<1>6. Dismissed = {} /\ Dismissed' = {}
  BY <1>1, <1>3, DismissedIs, NextState DEF DismissedSoFar, IInv
<1>7. Verdict = "open" /\ Verdict' = "open"
  BY <1>1, <1>3 DEF Verdict, TryPoints
<1> QED
  BY <1>2, <1>5, <1>6, <1>7, AbstractSteps, Zenon DEF AbsStep, Stutter

\* Polling a receiver in stop_receivers dismisses it.
LEMMA PollDismisses ==
  ASSUME IInv, IInv', ~CutShort, PollReceiver PROVE AbsStep
<1>1. /\ pc = "poll" /\ UNCHANGED <<nrec, os, code, late, lost>>
      /\ NextRecord("poll", "finish") \/ Goto("terminate", idx)
  BY DEF PollReceiver, records, system
<1>2. idx \in Receivers /\ nrec \in 0..N /\ idx <= nrec
  BY <1>1 DEF IInv, TypeOK, Progress, FinallyPoints
<1>3. Dismissed = 1..(idx - 1)
  BY <1>1, DismissedIs, NextState DEF DismissedSoFar, IInv
<1>4. Dismissed' = 1..idx
  <2>1. \/ pc' = "poll" /\ idx' = idx + 1
        \/ pc' = "finish" /\ nrec' = idx
        \/ pc' = "terminate" /\ idx' = idx
    BY <1>1, <1>2 DEF NextRecord, Goto, Receivers
  <2> QED
    BY <1>2, <2>1, DismissedIs, NextState DEF DismissedSoFar, IInv, Receivers
<1>5. idx \notin Dismissed /\ Dismissed' = Dismissed \union {idx}
  BY <1>2, <1>3, <1>4 DEF Receivers
<1>6. Rx' = Rx /\ AbsSender' = AbsSender
  BY <1>1, ProcessesStutter
<1>7. Rx[idx] # "idle" /\ AbsSender # "up"
  BY <1>1, <1>2, ProcessesAreMapped
     DEF ProcessesMapped, IInv, Started, Spawned, SenderOver, Sending
<1>8. Verdict' = Verdict
  BY <1>1 DEF Verdict, NextRecord, Goto
<1> QED
  BY <1>1, <1>2, <1>5, <1>6, <1>7, <1>8, AbstractSteps, Zenon
     DEF AbsStep, Abstract!Next

\* Signalling a receiver, a timeout of its finish(), and the exception that
\* call may raise, are stutters.
LEMMA FinallyStutters ==
  ASSUME IInv, IInv', ReceiverSignalled \/ FinallyRaised \/ ReceiverTimesOut
  PROVE  AbsStep
<1>1. /\ UNCHANGED <<nrec, os, code, lost>>
      /\ pc \notin {"returned"} /\ pc' # "returned"
  BY DEF ReceiverSignalled, FinallyRaised, ReceiverTimesOut, Signalled, NextRecord,
         Goto, records, system
<1>2. late' = late
  BY DEF ReceiverSignalled, FinallyRaised, ReceiverTimesOut, Signalled, system
<1>3. Rx' = Rx /\ AbsSender' = AbsSender
  BY <1>1, <1>2, ProcessesStutter
<1>4. Dismissed' = Dismissed
  <2>1. CASE pc = "terminate"
    <3>1. \/ pc' = "poll" /\ idx' = idx + 1
          \/ pc' = "finish" /\ nrec' = idx
      BY <1>1, <2>1
         DEF ReceiverSignalled, FinallyRaised, ReceiverTimesOut, NextRecord, Goto, IInv,
             Progress, FinallyPoints, TypeOK, Receivers
    <3> QED
      BY <2>1, <3>1, DismissedIs, NextState DEF DismissedSoFar, IInv, TypeOK, Receivers
  <2>2. CASE pc # "terminate"
    <3>1. /\ pc \in {"finish", "kill", "reap"}
          /\ pc' \in {"kill", "reap", "raised"}
      BY <2>2 DEF ReceiverSignalled, FinallyRaised, ReceiverTimesOut, Goto
    <3> QED
      BY <1>1, <3>1, DismissedIs, NextState DEF DismissedSoFar, IInv, FinalPoints
  <2> QED
    BY <2>1, <2>2
<1>5. Verdict' = Verdict
  BY <1>1 DEF Verdict
<1> QED
  BY <1>1, <1>3, <1>4, <1>5, AbstractSteps, Zenon DEF AbsStep, Stutter

\* Collecting the last receiver concludes; collecting another is a stutter.
LEMMA FinishConcludes ==
  ASSUME IInv, IInv', ~CutShort, FinishReceiver PROVE AbsStep
<1>1. /\ pc \in {"finish", "reap"} /\ UNCHANGED <<nrec, os, code, late, lost>>
      /\ NextRecord("finish", Leave(raising)) /\ failures' = failures
  BY DEF FinishReceiver, Collect, system
<1>2. pc' \in {"finish"} \union FinalPoints
  BY <1>1 DEF NextRecord, Goto, Leave, FinalPoints
<1>3. Rx' = Rx /\ AbsSender' = AbsSender
  BY <1>1, ProcessesStutter
<1>4. Dismissed = 1..nrec /\ Dismissed' = 1..nrec
  BY <1>1, <1>2, DismissedIs, NextState DEF DismissedSoFar, IInv
<1>5. Verdict = "open"
  BY <1>1 DEF Verdict
<1>6. CASE pc' # "returned"
  BY <1>1, <1>3, <1>4, <1>5, <1>6, AbstractSteps, Zenon DEF AbsStep, Stutter, Verdict
<1>7. CASE pc' = "returned"
  <2>1. AbsSender # "up"
    BY <1>1, ProcessesAreMapped DEF ProcessesMapped, IInv, SenderOver, Sending
  <2>2. \A p \in Receivers : Rx[p] # "up" /\ (Rx[p] = "down" => p \in Dismissed)
    <3> SUFFICES ASSUME NEW p \in Receivers
                 PROVE  os[p] # "running" /\ (os[p] = "exited" => p \in 1..nrec)
      BY <1>4, ProcessesAreMapped DEF ProcessesMapped, IInv
    <3>1. os[p] # "absent" => p \in 1..nrec
      BY DEF IInv, Started, Spawned, Receivers, TypeOK
    <3>2. p \in 1..nrec => os[p] = "exited"
      BY <1>1, <1>7 DEF IInv, ReceiversSafe, Collected, TypeOK
    <3> QED
      BY <3>1, <3>2
  <2>3. CASE failures # {}
    <3>1. Verdict' = "failed"
      BY <1>1, <1>7, <2>3 DEF Verdict, Status
    <3> QED
      BY <1>1, <1>3, <1>4, <1>5, <2>1, <2>2, <3>1, AbstractSteps, Zenon
         DEF AbsStep, Abstract!Next
  <2>4. CASE failures = {}
    <3>1. Verdict' = "success"
      BY <1>1, <1>7, <2>4 DEF Verdict, Status
    <3>2. SuccessIsClean'
      BY NextState
    <3>3. nrec = N /\ lost = {} /\ (ended[Sender])' /\ (exitCode[Sender])' = "zero"
          /\ (~late)'
      BY <1>1, <1>7, <2>4, <3>2 DEF SuccessIsClean, Status
    <3>4. \A p \in Receivers : Rx[p] # "idle"
      BY <3>3, ProcessesAreMapped DEF ProcessesMapped, IInv, Started, Spawned, Receivers
    <3>5. AbsSender = "ok"
      BY <1>1, <3>3, ProcessesAreMapped
         DEF ProcessesMapped, IInv, SenderRecord, TypeOK, Procs
    <3> QED
      BY <1>1, <1>3, <1>4, <1>5, <2>1, <2>2, <3>1, <3>3, <3>4, <3>5,
         AbstractSteps, Zenon DEF AbsStep, Abstract!Next
  <2> QED
    BY <2>3, <2>4
<1> QED
  BY <1>6, <1>7

\* An exit takes a receiver down or ends the sender.
LEMMA ExitEnds ==
  ASSUME IInv, IInv', NEW p \in Procs, NEW c \in Codes, Exit(p, c) PROVE AbsStep
<1>1. /\ os[p] = "running" /\ os' = [os EXCEPT ![p] = "exited"]
      /\ code' = [code EXCEPT ![p] = c]
      /\ lost' = IF p \in Receivers /\ BeforeShutdownPoll(p)
                 THEN lost \union {p} ELSE lost
      /\ UNCHANGED <<pc, idx, nrec, failures, late>>
  BY DEF Exit, control, records
<1>2. Dismissed' = Dismissed /\ Verdict' = Verdict
  BY <1>1 DEF Dismissed, Verdict, Status, BeforeShutdownPoll
<1>3. CASE p = Sender
  <2>1. p \notin Receivers
    BY <1>3 DEF Receivers, Sender
  <2>2. \A q \in Receivers : os'[q] = os[q]
    BY <1>1, <2>1 DEF IInv, TypeOK, Procs
  <2>3. Rx' = Rx /\ lost' = lost
    BY <1>1, <2>1, <2>2, ReceiversStutter
  <2>4. os'[Sender] = "exited"
    BY <1>1, <1>3 DEF IInv, TypeOK
  <2>5. AbsSender' \in {"ok", "bad"}
    BY <2>4 DEF AbsSender
  <2>6. AbsSender = "up"
    BY <1>1, <1>3, ProcessesAreMapped DEF ProcessesMapped
  <2> QED
    BY <1>2, <2>3, <2>5, <2>6, AbstractSteps, Zenon DEF AbsStep, Abstract!Next
<1>4. CASE p \in Receivers
  <2>1. p # Sender /\ os'[Sender] = os[Sender] /\ code'[Sender] = code[Sender]
    BY <1>1, <1>4 DEF IInv, TypeOK, Receivers, Procs, Sender
  <2>2. AbsSender' = AbsSender
    BY <1>1, <2>1 DEF AbsSender
  <2>3. Rx' = [Rx EXCEPT ![p] = "down"]
    BY <1>1, <1>4 DEF Rx, AbsReceiver, IInv, TypeOK, Procs
  <2>4. Rx[p] = "up"
    BY <1>1, <1>4, ProcessesAreMapped DEF ProcessesMapped, IInv
  <2>5. p \in 1..nrec
    BY <1>1, <1>4 DEF IInv, Started, Spawned, TypeOK, Receivers
  <2>6. lost' = IF p \in Dismissed THEN lost ELSE lost \union {p}
    BY <1>1, <1>4, <2>5 DEF Dismissed
  <2> QED
    BY <1>2, <1>4, <2>2, <2>3, <2>4, <2>6, AbstractSteps, Zenon
       DEF AbsStep, Abstract!Next
<1> QED
  BY <1>3, <1>4 DEF Procs

\* Every step of a runner whose wait for the sender is not cut short is an
\* abstract step or a stutter.
LEMMA StepMaps ==
  IInv /\ IInv' /\ ~CutShort /\ (~CutShort)' /\ [Next]_vars
  => [Abstract!Next]_(Abstract!vars)
<1> SUFFICES ASSUME IInv, IInv', ~CutShort, (~CutShort)', Effect PROVE AbsStep
  BY Effects, Zenon DEF IInv, AbsStep
<1>1. CASE UNCHANGED vars \/ \E p \in Procs : Release(p)
  <2>1. UNCHANGED <<pc, idx, nrec, os, code, late, lost, failures>>
    BY <1>1 DEF vars, control, records, system, Release
  <2>2. Rx' = Rx /\ AbsSender' = AbsSender
    BY <2>1, ProcessesStutter
  <2>3. Dismissed' = Dismissed /\ Verdict' = Verdict
    BY <2>1 DEF Dismissed, BeforeShutdownPoll, Verdict, Status
  <2> QED
    BY <2>1, <2>2, <2>3, AbstractSteps, Zenon DEF AbsStep, Stutter
<1>2. ~Interrupted
  BY Zenon DEF Interrupted, CutShort
<1> QED
  BY <1>1, <1>2, StartReceiverLaunches, StartSenderStarts, EnteringConcludes,
     TryStutters, PollDismisses, FinallyStutters, FinishConcludes, ExitEnds, Zenon
     DEF Effect

\* Initially nothing is launched.
LEMMA InitMaps == Init => Abstract!Init
<1> SUFFICES ASSUME Init PROVE Abstract!Init
  OBVIOUS
<1>1. /\ pc = "start_receiver" /\ nrec = 0 /\ lost = {}
      /\ os = [p \in Procs |-> "absent"]
  BY DEF Init
<1>2. Rx = [p \in Receivers |-> "idle"]
  BY <1>1 DEF Rx, AbsReceiver, Procs
<1>3. AbsSender = "idle"
  BY <1>1 DEF AbsSender, Procs
<1>4. Dismissed = {} /\ Verdict = "open"
  BY <1>1 DEF Dismissed, Verdict
<1> QED
  BY <1>1, <1>2, <1>3, <1>4 DEF Abstract!Init, Rx, Dismissed, Verdict

\* Every behaviour of execute_protocol whose wait for the sender neither an
\* interrupt nor a delay that is no finite number cuts short is one of the
\* abstract experiment, whatever its processes print or leave running.
THEOREM Implementation == Spec /\ [](~CutShort) => Supervises
<1>1. Spec => []IInv
  BY Invariance
<1> QED
  BY <1>1, InitMaps, StepMaps, PTL DEF Spec, Supervises, Abstract!Spec
=============================================================================
