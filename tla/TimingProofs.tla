---------------------------- MODULE TimingProofs ----------------------------
(***************************************************************************)
(* Proofs about Timing, for any delays and any adjustment of the wall      *)
(* clock: first the delays of execute_protocol and the two reference       *)
(* executables (Executables), then the timeline, the sender's record and   *)
(* the packet, whose invariant rests on the first one.                     *)
(***************************************************************************)
EXTENDS Timing, TLAPS

\* When the sender's first wait is over at the latest, and when the second is.
DurationEnd == Larger(duration, Startup + MinWait)
SenderEnd   == DurationEnd + shutdown

\* The runner's waits begin in time, and time does not pass them.
Bounds ==
  /\ pc # "done" => now <= due
  /\ pc = "startup" => due = Startup
  /\ pc = "send" => due <= DurationEnd
  /\ pc = "term" => due <= SenderEnd
  /\ pc = "drain" => due <= SenderEnd + Drain
  /\ pc = "stop" => /\ due <= SenderEnd + Drain + turn * shutdown
                    /\ due <= now + shutdown
  /\ pc = "done" => due <= SenderEnd + Drain + N * shutdown

\* A receiver runs until its stop, and one that listens stays at recvfrom,
\* which after the stop times out before the runner does.
Listener ==
  /\ pc \in {"startup", "send", "term", "drain"} => running = TRUE
  /\ pc = "stop" => running = FALSE \/ rx = "over"
  /\ pc = "stop" /\ turn > mine => rx = "over"
  /\ pc = "done" => rx = "over"
  /\ rx = "receiving" => now <= wake /\ wake <= now + Poll
  /\ pc = "stop" /\ rx = "receiving" => wake <= due - shutdown + Poll
  /\ listening = TRUE =>
       \/ rx = "receiving"
       \/ /\ rx = "over" /\ pc \in {"stop", "done"}
          /\ shutdown > Poll => code = "zero"

\* What is sent is sent by a running sender, before the drain delay begins.
Sent ==
  /\ tx = "running" => pc \in {"send", "term"}
  /\ pc = "startup" => tx = "absent"
  /\ tx = "absent" => sentAt = None
  /\ sentAt = None => datagram = "none" /\ arrivedAt = None /\ listening = FALSE
  /\ sentAt # None /\ pc = "drain" => sentAt + Drain <= due
  /\ sentAt # None /\ pc \in {"stop", "done"} => sentAt + Drain <= now

\* What arrives is read in the tick in which it arrives.
Delivered ==
  /\ datagram = "flying" => arrivedAt = None
  /\ datagram = "queued" => rx = "over" \/ (rx = "receiving" /\ arrivedAt = now)
  /\ listening = TRUE /\ arrivedAt # None /\ arrivedAt < sentAt + Drain =>
       datagram = "read" \/ (datagram = "queued" /\ pc \in {"send", "term", "drain"})

IInv == TypeOK /\ Bounds /\ Listener /\ Sent /\ Delivered

\* The delays are numbers.
LEMMA Constants ==
  /\ Startup \in Nat /\ Drain \in Nat /\ Latency \in Nat
  /\ Poll \in Nat /\ Poll > 0 /\ MinWait \in Nat /\ MinWait > 0
  /\ Shutdowns \subseteq Nat \ {0} /\ Durations \subseteq Nat \ {0}
  /\ N \in Nat /\ N > 0
  BY ExecutablesAssumption DEF ExecutablesAssumption

\* Larger is the maximum.
LEMMA Largest ==
  ASSUME NEW a \in Int, NEW b \in Int
  PROVE  Larger(a, b) \in {a, b} /\ a <= Larger(a, b) /\ b <= Larger(a, b)
  BY DEF Larger

\* The sender is given a finite time.
LEMMA EndIsNat ==
  ASSUME TypeOK
  PROVE  DurationEnd \in Nat /\ SenderEnd \in Nat /\ DurationEnd <= SenderEnd
<1>1. Startup + MinWait \in Nat /\ duration \in Nat /\ shutdown \in Nat
  BY Constants DEF TypeOK
<1>2. DurationEnd \in Nat
  BY <1>1, Largest DEF DurationEnd
<1> QED
  BY <1>1, <1>2 DEF SenderEnd

\* The receivers waited for so far have had the shutdown delay each.
LEMMA Turns ==
  ASSUME TypeOK
  PROVE  /\ turn * shutdown \in Nat /\ N * shutdown \in Nat
         /\ turn * shutdown <= N * shutdown
         /\ (turn + 1) * shutdown = turn * shutdown + shutdown
<1>1. /\ turn \in Nat /\ N \in Nat /\ shutdown \in Nat /\ turn <= N
  BY Constants DEF TypeOK
<1>2. turn * shutdown \in Nat /\ (N - turn) * shutdown \in Nat
  BY <1>1
<1>3. N * shutdown = turn * shutdown + (N - turn) * shutdown
  BY <1>1
<1>4. (turn + 1) * shutdown = turn * shutdown + shutdown
  BY <1>1
<1> QED
  BY <1>2, <1>3, <1>4

\* The invariant holds at first.
LEMMA InitIInv == Init => IInv
<1> SUFFICES ASSUME Init PROVE IInv
  OBVIOUS
<1>1. TypeOK
  <2>1. now \in Nat /\ due \in Nat /\ mine \in 1..N /\ turn \in 1..N /\ wake \in Nat
    BY Constants DEF Init
  <2>2. sentAt \in {None} \union 0..now /\ arrivedAt \in {None} \union sentAt..now
    BY DEF Init
  <2>3. code \in Codes /\ (rx = "over" <=> code # "none")
    BY DEF Init, Codes
  <2> QED
    BY <2>1, <2>2, <2>3 DEF Init, TypeOK
<1>2. Bounds /\ Listener /\ Sent /\ Delivered
  BY Constants DEF Init, Bounds, Listener, Sent, Delivered, None
<1> QED
  BY <1>1, <1>2 DEF IInv

\* InstallHandlers keeps the invariant.
LEMMA InstallHandlersKeeps == ASSUME IInv, InstallHandlers PROVE IInv'
<1>1. TypeOK'
  BY DEF IInv, TypeOK, InstallHandlers, runner, packet, settings
<1>2. Bounds'
  BY DEF IInv, Bounds, InstallHandlers, runner, settings, SenderEnd, DurationEnd
<1>3. Listener'
  BY DEF IInv, Listener, InstallHandlers, runner, settings, packet
<1>4. Sent'
  BY DEF IInv, Sent, InstallHandlers, runner, packet
<1>5. Delivered'
  BY DEF IInv, Delivered, InstallHandlers, packet
<1> QED
  BY <1>1, <1>2, <1>3, <1>4, <1>5 DEF IInv

\* Bind keeps the invariant.
LEMMA BindKeeps == ASSUME IInv, Bind PROVE IInv'
<1>1. TypeOK'
  BY Constants DEF IInv, TypeOK, Bind, Loop, RecvFor, Exit, runner, packet,
     settings, Codes
<1>2. Bounds'
  BY DEF IInv, Bounds, Bind, runner, settings, SenderEnd, DurationEnd
<1>3. Listener'
  BY Constants DEF IInv, TypeOK, Listener, Bind, Loop, RecvFor, Exit, runner,
     packet
<1>4. Sent'
  BY DEF IInv, Sent, Bind, runner, packet
<1>5. Delivered'
  BY DEF IInv, Delivered, Bind, packet
<1> QED
  BY <1>1, <1>2, <1>3, <1>4, <1>5 DEF IInv

\* Receive keeps the invariant.
LEMMA ReceiveKeeps == ASSUME IInv, Receive PROVE IInv'
<1>1. TypeOK'
  BY Constants DEF IInv, TypeOK, Receive, Loop, RecvFor, Exit, runner,
     settings, Codes
<1>2. Bounds'
  BY DEF IInv, Bounds, Receive, runner, settings, SenderEnd, DurationEnd
<1>3. Listener'
  BY Constants DEF IInv, TypeOK, Listener, Receive, Loop, RecvFor, Exit, runner
<1>4. Sent'
  BY DEF IInv, Sent, Receive, runner
<1>5. Delivered'
  BY DEF IInv, Delivered, Receive
<1> QED
  BY <1>1, <1>2, <1>3, <1>4, <1>5 DEF IInv

\* PollEnds keeps the invariant.
LEMMA PollEndsKeeps == ASSUME IInv, PollEnds PROVE IInv'
<1>1. TypeOK'
  BY Constants DEF IInv, TypeOK, PollEnds, Loop, RecvFor, Exit, runner, packet,
     settings, Codes
<1>2. Bounds'
  BY DEF IInv, Bounds, PollEnds, runner, settings, SenderEnd, DurationEnd
<1>3. Listener'
  BY Constants DEF IInv, TypeOK, Listener, PollEnds, Loop, RecvFor, Exit, runner
<1>4. Sent'
  BY DEF IInv, Sent, PollEnds, runner, packet
<1>5. Delivered'
  BY DEF IInv, Delivered, PollEnds, packet
<1> QED
  BY <1>1, <1>2, <1>3, <1>4, <1>5 DEF IInv

\* What remains of the duration ends in time.
LEMMA RemainingIsRight ==
  ASSUME IInv, pc = "startup"
  PROVE  Remaining \in Nat /\ now + Remaining <= DurationEnd /\ now <= DurationEnd
<1>1. now \in Nat /\ duration \in Nat /\ now <= Startup
  BY Constants DEF IInv, TypeOK, Bounds
<1>2. /\ Startup + MinWait <= DurationEnd /\ duration <= DurationEnd
      /\ DurationEnd \in Nat
  BY <1>1, Constants, Largest DEF DurationEnd
<1> QED
  BY <1>1, <1>2, Constants DEF Remaining, Larger

\* StartSender keeps the invariant.
LEMMA StartSenderKeeps == ASSUME IInv, StartSender PROVE IInv'
<1>1. TypeOK'
  BY Constants, RemainingIsRight DEF IInv, TypeOK, StartSender, Wait, receiver,
     settings
<1>2. Bounds'
  <2>1. DurationEnd' = DurationEnd /\ DurationEnd \in Nat /\ now \in Nat
    BY EndIsNat DEF IInv, TypeOK, StartSender, settings, DurationEnd
  <2>2. pc' = "send" /\ due' = now + Remaining /\ now' = now
        /\ Remaining \in Nat /\ now + Remaining <= DurationEnd
    BY RemainingIsRight DEF StartSender, settings, Wait
  <2> QED
    BY <2>1, <2>2 DEF Bounds
<1>3. Listener'
  BY DEF IInv, Listener, StartSender, Wait, receiver, settings
<1>4. Sent'
  BY DEF IInv, Sent, StartSender, Wait
<1>5. Delivered'
  BY DEF IInv, Delivered, StartSender, Wait, receiver
<1> QED
  BY <1>1, <1>2, <1>3, <1>4, <1>5 DEF IInv

\* Send keeps the invariant.
LEMMA SendKeeps == ASSUME IInv, Send PROVE IInv'
<1>1. TypeOK'
  BY DEF IInv, TypeOK, Sent, Send, runner, receiver, settings
<1>2. Bounds'
  BY DEF IInv, Bounds, Send, runner, settings, SenderEnd, DurationEnd
<1>3. Listener'
  BY DEF IInv, TypeOK, Listener, Send, runner, receiver, settings
<1>4. Sent'
  BY DEF IInv, TypeOK, Sent, Send, runner, None
<1>5. Delivered'
  BY DEF IInv, Sent, Delivered, Send
<1> QED
  BY <1>1, <1>2, <1>3, <1>4, <1>5 DEF IInv

\* ExitSender keeps the invariant.
LEMMA ExitSenderKeeps == ASSUME IInv, ExitSender PROVE IInv'
<1>1. TypeOK'
  BY DEF IInv, TypeOK, ExitSender, runner, receiver, settings
<1>2. Bounds'
  BY DEF IInv, Bounds, ExitSender, runner, settings, SenderEnd, DurationEnd
<1>3. Listener'
  BY DEF IInv, Listener, ExitSender, runner, receiver, settings
<1>4. Sent'
  BY DEF IInv, Sent, ExitSender, runner
<1>5. Delivered'
  BY DEF IInv, Delivered, ExitSender, runner, receiver
<1> QED
  BY <1>1, <1>2, <1>3, <1>4, <1>5 DEF IInv

\* TimeOut keeps the invariant.
LEMMA TimeOutKeeps == ASSUME IInv, TimeOut PROVE IInv'
<1>1. TypeOK'
  BY Constants DEF IInv, TypeOK, TimeOut, Wait, settings, receiver, packet
<1>2. Bounds'
  <2>1. /\ DurationEnd' = DurationEnd /\ SenderEnd' = SenderEnd /\ DurationEnd \in Nat
        /\ now \in Nat /\ shutdown \in Nat
    BY Constants, EndIsNat DEF IInv, TypeOK, TimeOut, settings, SenderEnd, DurationEnd
  <2>2. /\ pc' = "term" /\ due' = now + shutdown /\ now' = now
        /\ now <= due /\ due <= DurationEnd /\ due \in Nat
    BY DEF IInv, TypeOK, Bounds, TimeOut, Wait
  <2> QED
    BY <2>1, <2>2 DEF Bounds, SenderEnd
<1>3. Listener'
  BY DEF IInv, Listener, TimeOut, Wait, settings, receiver, packet
<1>4. Sent'
  BY DEF IInv, Sent, TimeOut, Wait, packet
<1>5. Delivered'
  BY DEF IInv, Delivered, TimeOut, Wait, receiver, packet
<1> QED
  BY <1>1, <1>2, <1>3, <1>4, <1>5 DEF IInv

\* KillSender keeps the invariant.
LEMMA KillSenderKeeps == ASSUME IInv, KillSender PROVE IInv'
<1>1. TypeOK'
  BY DEF IInv, TypeOK, KillSender, runner, receiver, settings
<1>2. Bounds'
  BY DEF IInv, Bounds, KillSender, runner, settings, SenderEnd, DurationEnd
<1>3. Listener'
  BY DEF IInv, Listener, KillSender, runner, receiver, settings
<1>4. Sent'
  BY DEF IInv, Sent, KillSender, runner
<1>5. Delivered'
  BY DEF IInv, Delivered, KillSender, runner, receiver
<1> QED
  BY <1>1, <1>2, <1>3, <1>4, <1>5 DEF IInv

\* FinishSender keeps the invariant.
LEMMA FinishSenderKeeps == ASSUME IInv, FinishSender PROVE IInv'
<1>1. TypeOK'
  BY Constants DEF IInv, TypeOK, FinishSender, StartDrain, Wait, settings,
     receiver, packet
<1>2. Bounds'
  <2>1. SenderEnd' = SenderEnd /\ SenderEnd \in Nat /\ now \in Nat /\ Drain \in Nat
    BY Constants, EndIsNat
       DEF IInv, TypeOK, FinishSender, settings, SenderEnd, DurationEnd
  <2>2. now <= SenderEnd
    BY EndIsNat DEF IInv, TypeOK, Bounds, FinishSender
  <2>3. pc' = "drain" /\ due' = now + Drain /\ now' = now
    BY DEF FinishSender, StartDrain, Wait
  <2> QED
    BY <2>1, <2>2, <2>3 DEF Bounds
<1>3. Listener'
  BY DEF IInv, Listener, FinishSender, StartDrain, Wait, receiver,
     packet
<1>4. Sent'
  BY Constants DEF IInv, TypeOK, Sent, FinishSender, StartDrain, Wait, packet
<1>5. Delivered'
  BY DEF IInv, Delivered, FinishSender, StartDrain, Wait, receiver,
     packet
<1> QED
  BY <1>1, <1>2, <1>3, <1>4, <1>5 DEF IInv

\* Arrive keeps the invariant.
LEMMA ArriveKeeps == ASSUME IInv, Arrive PROVE IInv'
<1>1. TypeOK'
  BY DEF IInv, TypeOK, Arrive, runner, receiver, settings, None
<1>2. Bounds'
  BY DEF IInv, Bounds, Arrive, runner, settings, SenderEnd, DurationEnd
<1>3. Listener'
  BY DEF IInv, Listener, Arrive, runner, receiver, settings
<1>4. Sent'
  BY DEF IInv, Sent, Arrive, runner
<1>5. Delivered'
  BY Constants DEF IInv, TypeOK, Listener, Sent, Delivered, Arrive, runner,
     receiver
<1> QED
  BY <1>1, <1>2, <1>3, <1>4, <1>5 DEF IInv

\* stop_receivers begins after the drain delay or a failed start, and keeps the
\* invariant.
LEMMA StopReceiversKeeps ==
  ASSUME IInv, StopReceivers, now >= due, pc \in {"startup", "drain"}
  PROVE  IInv'
<1>0. /\ pc' = "stop" /\ due' = now + shutdown /\ turn' = 1 /\ now' = now
      /\ UNCHANGED <<shutdown, duration, mine, tx, listening, datagram, sentAt, arrivedAt>>
      /\ now \in Nat /\ shutdown \in Nat /\ wake \in Nat /\ Poll \in Nat
      /\ due \in Nat /\ mine \in Nat /\ mine >= 1
  BY Constants DEF StopReceivers, Wait, settings, packet, IInv, TypeOK
<1>1. /\ rx = "over" => UNCHANGED <<rx, code, running, wake>>
      /\ rx = "boot" => rx' = "over" /\ code' = "sigterm" /\ wake' = 0 /\ running' = running
      /\ rx \in {"handlers", "receiving"} =>
           rx' = rx /\ code' = code /\ wake' = wake /\ running' = FALSE
      /\ rx \in {"boot", "handlers", "receiving", "over"}
  BY DEF StopReceivers, Signal, Exit, receiver, IInv, TypeOK
<1>2. TypeOK'
  <2>1. /\ running' \in BOOLEAN /\ code' \in Codes /\ wake' \in Nat
        /\ rx' \in {"boot", "handlers", "receiving", "over"}
        /\ (rx' = "over" <=> code' # "none")
    <3>1. /\ code \in Codes /\ running \in BOOLEAN /\ wake \in Nat
          /\ (rx = "over" <=> code # "none")
      BY DEF IInv, TypeOK
    <3>2. CASE rx = "over"
      BY <1>1, <3>1, <3>2
    <3>3. CASE rx = "boot"
      BY <1>1, <3>1, <3>3 DEF Codes
    <3>4. CASE rx \in {"handlers", "receiving"}
      BY <1>1, <3>1, <3>4
    <3> QED
      BY <1>1, <3>2, <3>3, <3>4
  <2>2. /\ pc' \in {"startup", "send", "term", "drain", "stop", "done"}
        /\ due' \in Nat /\ turn' \in 1..N
    BY <1>0, Constants
  <2> QED
    BY <1>0, <2>1, <2>2 DEF IInv, TypeOK
<1>3. Bounds'
  <2>1. SenderEnd' = SenderEnd /\ SenderEnd \in Nat /\ DurationEnd <= SenderEnd
    BY <1>0, EndIsNat DEF IInv, SenderEnd, DurationEnd
  <2>2. now <= SenderEnd + Drain
    <3>1. CASE pc = "startup"
      BY <1>0, <2>1, <3>1, RemainingIsRight, EndIsNat, Constants DEF IInv
    <3>2. CASE pc = "drain"
      BY <1>0, <2>1, <3>2, Constants DEF IInv, Bounds
    <3> QED
      BY <3>1, <3>2
  <2>3. turn' * shutdown' = shutdown
    BY <1>0
  <2> QED
    BY <1>0, <2>1, <2>2, <2>3, Constants DEF Bounds
<1>4. Listener'
  <2>1. rx' = "over" \/ running' = FALSE
    BY <1>1
  <2>2. rx' = "receiving" => now <= wake /\ wake <= now + Poll /\ wake' = wake
    BY <1>1 DEF IInv, Listener
  <2>3. listening = TRUE => rx' = "receiving"
    BY <1>1 DEF IInv, Listener
  <2> QED
    BY <1>0, <2>1, <2>2, <2>3 DEF Listener
<1>5. Sent'
  BY <1>0, Constants DEF IInv, TypeOK, Sent
<1>6. Delivered'
  <2>1. rx' = rx \/ rx' = "over"
    BY <1>1
  <2>2. listening = TRUE /\ arrivedAt # None /\ arrivedAt < sentAt + Drain =>
          datagram = "read"
    <3> SUFFICES ASSUME listening = TRUE, arrivedAt # None, arrivedAt < sentAt + Drain,
                        datagram # "read"
                 PROVE  FALSE
      OBVIOUS
    <3>1. sentAt # None /\ pc = "drain"
      BY DEF IInv, Sent
    <3>2. rx = "receiving" /\ datagram = "queued"
      BY <3>1 DEF IInv, Listener, Delivered
    <3>3. arrivedAt = now /\ sentAt + Drain <= due
      BY <3>1, <3>2 DEF IInv, Sent, Delivered
    <3> QED
      BY <1>0, <3>3, Constants DEF IInv, TypeOK
  <2> QED
    BY <1>0, <2>1, <2>2 DEF IInv, Delivered
<1> QED
  BY <1>2, <1>3, <1>4, <1>5, <1>6 DEF IInv

\* Stop and Abandon keep the invariant.
LEMMA StopKeeps == ASSUME IInv, Stop \/ Abandon PROVE IInv'
  BY StopReceiversKeeps DEF Stop, Abandon

\* The next receiver's wait begins no later than the last one's ended.
LEMMA NextReceiverBounds ==
  ASSUME IInv, NextReceiver, pc = "stop"
  PROVE  /\ Bounds' /\ pc' \in {"stop", "done"} /\ turn' \in 1..N /\ due' \in Nat
         /\ pc' = "stop" => /\ turn' = turn + 1 /\ due' = now + shutdown
                            /\ due - shutdown <= now
         /\ pc' = "done" => turn = N
<1>1. /\ now \in Nat /\ due \in Nat /\ shutdown \in Nat /\ turn \in Nat /\ turn >= 1
      /\ turn <= N /\ N \in Nat
  BY Constants DEF IInv, TypeOK
<1>2. SenderEnd' = SenderEnd /\ SenderEnd \in Nat /\ Drain \in Nat
  BY EndIsNat, Constants DEF IInv, NextReceiver, settings, SenderEnd, DurationEnd
<1>3. /\ now <= due /\ due <= now + shutdown
      /\ due <= SenderEnd + Drain + turn * shutdown
  BY DEF IInv, Bounds
<1>4. now' = now /\ shutdown' = shutdown
  BY DEF NextReceiver, settings
<1>5. CASE turn < N
  <2>1. pc' = "stop" /\ due' = now + shutdown /\ turn' = turn + 1
    BY <1>5 DEF NextReceiver, Wait
  <2>2. turn' * shutdown' = turn * shutdown + shutdown /\ turn * shutdown \in Nat
    BY <1>4, <2>1, Turns DEF IInv
  <2>3. Bounds'
    BY <1>1, <1>2, <1>3, <1>4, <2>1, <2>2 DEF Bounds
  <2> QED
    BY <1>1, <1>3, <1>5, <2>1, <2>3
<1>6. CASE ~(turn < N)
  <2>1. pc' = "done" /\ due' = now /\ turn' = turn /\ turn = N
    BY <1>1, <1>6 DEF NextReceiver, Wait
  <2>2. turn * shutdown \in Nat
    BY Turns DEF IInv
  <2>3. Bounds'
    BY <1>1, <1>2, <1>3, <1>4, <2>1, <2>2 DEF Bounds
  <2> QED
    BY <1>1, <2>1, <2>3
<1> QED
  BY <1>5, <1>6

\* Collect keeps the invariant.
LEMMA CollectKeeps == ASSUME IInv, Collect PROVE IInv'
<1>1. /\ pc = "stop" /\ (turn = mine => rx = "over")
      /\ UNCHANGED <<now, shutdown, duration, mine, rx, code, running, wake>>
      /\ UNCHANGED <<tx, listening, datagram, sentAt, arrivedAt>>
  BY DEF Collect, NextReceiver, settings, receiver, packet
<1>2. /\ Bounds' /\ pc' \in {"stop", "done"} /\ turn' \in 1..N /\ due' \in Nat
      /\ pc' = "stop" => /\ turn' = turn + 1 /\ due' = now + shutdown
                         /\ due - shutdown <= now
      /\ pc' = "done" => turn = N
  BY <1>1, NextReceiverBounds DEF Collect
<1>3. TypeOK'
  BY <1>1, <1>2 DEF IInv, TypeOK
<1>4. Listener'
  <2>1. turn \in Nat /\ mine \in Nat /\ mine <= N /\ N \in Nat /\ wake \in Nat
        /\ now \in Nat /\ shutdown \in Nat /\ due \in Nat /\ Poll \in Nat
    BY Constants DEF IInv, TypeOK
  <2>2. turn >= mine => rx = "over"
    BY <1>1, <2>1 DEF IInv, Listener
  <2>3. pc' = "done" => rx' = "over"
    BY <1>1, <1>2, <2>1, <2>2
  <2>4. pc' = "stop" /\ turn' > mine' => rx' = "over"
    BY <1>1, <1>2, <2>1, <2>2
  <2>5. pc' = "stop" /\ rx' = "receiving" => wake' <= due' - shutdown' + Poll
    BY <1>1, <1>2, <2>1 DEF IInv, Listener
  <2>6. running = FALSE \/ rx = "over"
    BY <1>1 DEF IInv, Listener
  <2>7. /\ rx = "receiving" => now <= wake /\ wake <= now + Poll
        /\ listening = TRUE => \/ rx = "receiving"
                               \/ rx = "over" /\ (shutdown > Poll => code = "zero")
    BY DEF IInv, Listener
  <2> QED
    BY <1>1, <1>2, <2>3, <2>4, <2>5, <2>6, <2>7 DEF Listener
<1>5. Sent'
  BY <1>1, <1>2 DEF IInv, Sent
<1>6. Delivered'
  BY <1>1, <1>2 DEF IInv, Delivered
<1> QED
  BY <1>2, <1>3, <1>4, <1>5, <1>6 DEF IInv

\* Kill keeps the invariant: a receiver that listens is not killed if it was
\* given more time than its recvfrom waits.
LEMMA KillKeeps == ASSUME IInv, Kill PROVE IInv'
<1>1. /\ pc = "stop" /\ turn = mine /\ rx # "over" /\ now >= due
      /\ rx' = "over" /\ code' = "sigkill" /\ wake' = 0 /\ running' = running
      /\ UNCHANGED <<now, shutdown, duration, mine>>
      /\ UNCHANGED <<tx, listening, datagram, sentAt, arrivedAt>>
  BY DEF Kill, NextReceiver, Exit, settings, packet
<1>2. /\ Bounds' /\ pc' \in {"stop", "done"} /\ turn' \in 1..N /\ due' \in Nat
  BY <1>1, NextReceiverBounds DEF Kill
<1>3. TypeOK'
  BY <1>1, <1>2 DEF IInv, TypeOK, Codes
<1>4. Listener'
  <2>1. listening = TRUE => ~(shutdown > Poll)
    <3> SUFFICES ASSUME listening = TRUE, shutdown > Poll PROVE FALSE
      OBVIOUS
    <3>1. rx = "receiving"
      BY <1>1 DEF IInv, Listener
    <3>2. now <= wake /\ wake <= due - shutdown + Poll
      BY <1>1, <3>1 DEF IInv, Listener
    <3> QED
      BY <1>1, <3>2, Constants DEF IInv, TypeOK
  <2> QED
    BY <1>1, <1>2, <2>1 DEF Listener
<1>5. Sent'
  BY <1>1, <1>2 DEF IInv, Sent
<1>6. Delivered'
  <2>1. listening = TRUE /\ arrivedAt # None /\ arrivedAt < sentAt + Drain =>
          datagram = "read"
    BY <1>1 DEF IInv, Delivered
  <2> QED
    BY <1>1, <2>1 DEF IInv, Delivered
<1> QED
  BY <1>2, <1>3, <1>4, <1>5, <1>6 DEF IInv

\* Tick keeps the invariant.
LEMMA TickKeeps == ASSUME IInv, Tick PROVE IInv'
<1>1. TypeOK'
  BY DEF IInv, TypeOK, Tick, runner, receiver, packet, settings
<1>2. Bounds'
  BY Constants DEF IInv, TypeOK, Bounds, Tick, Urgent, runner, settings,
     SenderEnd, DurationEnd
<1>3. Listener'
  BY Constants DEF IInv, TypeOK, Listener, Tick, Urgent, runner, receiver,
     packet, settings
<1>4. Sent'
  BY Constants DEF IInv, TypeOK, Sent, Tick, runner, packet
<1>5. Delivered'
  BY DEF IInv, Delivered, Tick, Urgent, runner, receiver, packet
<1> QED
  BY <1>1, <1>2, <1>3, <1>4, <1>5 DEF IInv

\* TickAfter keeps the invariant.
LEMMA TickAfterKeeps == ASSUME IInv, TickAfter PROVE IInv'
<1>1. TypeOK'
  BY DEF IInv, TypeOK, TickAfter, runner, receiver, packet, settings
<1>2. Bounds'
  BY DEF IInv, Bounds, TickAfter, runner, settings, SenderEnd, DurationEnd
<1>3. Listener'
  BY DEF IInv, Listener, TickAfter, runner, receiver, packet, settings
<1>4. Sent'
  BY Constants DEF IInv, TypeOK, Sent, TickAfter, runner, packet
<1>5. Delivered'
  BY DEF IInv, Listener, Delivered, TickAfter, receiver, packet
<1> QED
  BY <1>1, <1>2, <1>3, <1>4, <1>5 DEF IInv

\* No step breaks the invariant.
LEMMA NextIInv == ASSUME IInv, [TNext]_tvars PROVE IInv'
<1>1. ASSUME UNCHANGED vars PROVE IInv'
  BY <1>1 DEF vars, runner, settings, receiver, packet, IInv, TypeOK, Bounds,
     SenderEnd,
     Listener, Sent, Delivered, DurationEnd
<1>2. ASSUME Elsewhere PROVE IInv'
  BY <1>2, InstallHandlersKeeps, BindKeeps, ReceiveKeeps, PollEndsKeeps,
     StartSenderKeeps,
     SendKeeps, ExitSenderKeeps, StopKeeps, CollectKeeps, KillKeeps, TimeOutKeeps,
     KillSenderKeeps, ArriveKeeps, TickKeeps DEF Elsewhere
<1>3. ASSUME RecordEnd PROVE IInv'
  BY <1>3, FinishSenderKeeps DEF RecordEnd
<1>4. ASSUME TickAfter PROVE IInv'
  BY <1>4, TickAfterKeeps
<1> QED
  BY <1>1, <1>2, <1>3, <1>4
     DEF TNext, tvars, RecordSender, Sniff, ProtocolOver, EnterCleanup, Finish, Adjust, Over

\* The invariant holds for any delays.
THEOREM Invariance == TSpec => []IInv
<1>1. TInit => IInv
  BY InitIInv DEF TInit
<1> QED
  BY <1>1, NextIInv, PTL DEF TSpec

\* A receiver that listened when the sender sent ends with 0 on SIGTERM, if it
\* is given more time than its recvfrom waits.
THEOREM StopsCleanly == TSpec => []ListeningReceiverStopsCleanly
<1>1. IInv => ListeningReceiverStopsCleanly
  BY DEF IInv, TypeOK, Listener, ListeningReceiverStopsCleanly
<1> QED
  BY <1>1, Invariance, PTL

\* What reaches a listening receiver within the drain delay is read.
THEOREM NothingArrivesTooLate == TSpec => []DrainIsEnough
<1>1. IInv => DrainIsEnough
  BY DEF IInv, TypeOK, Delivered, DrainIsEnough
<1> QED
  BY <1>1, Invariance, PTL

\* The experiment ends in time, whenever the sender and the receivers exit: with
\* any number of receivers, and one shutdown delay for each and the sender.
THEOREM EndsInTime == TSpec => []ProtocolEndsInTime
<1>1. IInv => ProtocolEndsInTime
  BY DEF IInv, Bounds, SenderEnd, DurationEnd, ProtocolEndsInTime
<1> QED
  BY <1>1, Invariance, PTL
-----------------------------------------------------------------------------
(* The timeline and the record.                                            *)

Times   == [mono : Int, wall : Int]
Entries == [name : {"setup", "execute_protocol", "cleanup"},
            status : {"ok", "failed"}, started : Int, ended : Int, duration : Int]

\* What the timeline and the sender's record hold.
TimesTyped ==
  /\ offset \in {0, Adjustment, -Adjustment} /\ adjusted \in BOOLEAN
  /\ began \in Times /\ ended \in Times /\ stamp \in Int
  /\ current \in [name : {"none", "execute_protocol", "cleanup"}, at : Times]
  /\ phases \in Seq(Entries)
  /\ record \in [started : Times, ended : Times]

\* The sender's record: from its start to its end in the phase, the drain delay
\* after it.
Recorded ==
  /\ record.started = NoTime \/ record.started.mono \in 0..now
  /\ \/ record.ended = NoTime
     \/ /\ record.started # NoTime
        /\ record.ended.mono \in record.started.mono..now
  /\ tx = "absent" => record.started = NoTime
  /\ tx # "absent" /\ record.started = NoTime => pc = "send"
  /\ record.ended # NoTime => pc \in {"drain", "stop", "done"}
  /\ pc = "drain" => record.ended # NoTime
  /\ pc \in {"stop", "done"} /\ tx # "absent" => record.ended # NoTime
  /\ pc = "drain" => record.ended.mono + Drain <= due
  /\ pc \in {"stop", "done"} /\ record.ended # NoTime =>
       record.ended.mono + Drain <= now
  /\ stamp # None => sentAt # None

\* The two clocks agree until the wall clock is adjusted.
Agree(t) == t.wall = t.mono
Unadjusted ==
  ~adjusted =>
    /\ offset = 0 /\ stamp \in {None} \union 0..now
    /\ Agree(record.started) /\ Agree(record.ended) /\ Agree(current.at)
    /\ Len(phases) >= 2 => /\ phases[2].started = 0
                           /\ phases[2].ended = phases[2].duration

\* How far the timeline is.
Measured ==
  /\ Len(phases) \in 1..3
  /\ began.mono <= 0 /\ phases[1].duration = -began.mono /\ phases[1].status = "ok"
  /\ Len(phases) = 1 =>
       /\ current.name = "execute_protocol" /\ current.at.mono = 0
       /\ ended = NoTime
  /\ Len(phases) >= 2 =>
       /\ pc = "done" /\ phases[2].duration \in 0..now
       /\ record.ended # NoTime => record.ended.mono + Drain <= phases[2].duration
  /\ Len(phases) = 2 =>
       /\ ended = NoTime
       /\ \/ current = NoPhase /\ phases[2].status = "failed"
          \/ /\ current.name = "cleanup"
             /\ current.at.mono \in phases[2].duration..now
             /\ phases[2].status = "ok" => current.at.mono = phases[2].duration
  /\ Len(phases) = 3 =>
       /\ current = NoPhase /\ ended # NoTime
       /\ phases[3].duration >= 0 /\ phases[3].status = "ok"
       /\ phases[2].duration + phases[3].duration <= ended.mono
       /\ phases[2].status = "ok" =>
            phases[2].duration + phases[3].duration = ended.mono

TIInv == IInv /\ TimesTyped /\ Recorded /\ Unadjusted /\ Measured

\* The set-up's length and the adjustment are integers.
LEMMA TimingConstants ==
  /\ \A before \in Before : before \in Nat
  /\ Adjustment \in Int /\ -Adjustment \in Int
  BY TimingAssumption DEF TimingAssumption

\* A reading of the two clocks, which is never NoTime.
LEMMA ClockIs ==
  ASSUME IInv, TimesTyped
  PROVE  /\ now \in Nat /\ offset \in Int
         /\ Clock \in Times /\ Clock.mono = now /\ Clock.wall = now + offset
         /\ Clock # NoTime /\ NoTime \in Times
<1>1. now \in Nat /\ offset \in Int
  BY TimingConstants DEF IInv, TypeOK, TimesTyped
<1>2. Clock.mono = now /\ NoTime.mono = -1
  BY DEF Clock, NoTime, None
<1> QED
  BY <1>1, <1>2 DEF Clock, Times, NoTime, None

\* The timeline's invariant holds at first.
LEMMA TInitKeeps == ASSUME TInit PROVE TIInv
<1>1. IInv
  BY InitIInv DEF TInit
<1>2. PICK before \in Before :
        /\ began = [mono |-> -before, wall |-> -before]
        /\ phases = <<[name |-> "setup", status |-> "ok",
                       started |-> -before, ended |-> 0, duration |-> before]>>
  BY DEF TInit
<1>3. before \in Nat /\ -before \in Int
  BY TimingConstants
<1>4. TimesTyped
  <2>1. phases \in Seq(Entries)
    BY <1>2, <1>3 DEF Entries
  <2>2. began \in Times /\ ended \in Times /\ stamp \in Int
    BY <1>2, <1>3 DEF TInit, Times, NoTime, None
  <2>3. /\ current \in [name : {"none", "execute_protocol", "cleanup"}, at : Times]
        /\ record \in [started : Times, ended : Times]
    BY DEF TInit, Times, NoTime, None
  <2> QED
    BY <2>1, <2>2, <2>3 DEF TInit, TimesTyped
<1>5. Recorded
  BY DEF TInit, Init, Recorded
<1>6. Len(phases) = 1 /\ phases[1].duration = before /\ phases[1].status = "ok"
  BY <1>2
<1>7. Unadjusted
  BY <1>6 DEF TInit, Unadjusted, Agree, NoTime
<1>8. Measured
  BY <1>2, <1>3, <1>6 DEF TInit, Measured
<1> QED
  BY <1>1, <1>4, <1>5, <1>7, <1>8 DEF TIInv

\* Time goes on, and nothing undoes the end of the protocol.
LEMMA ElsewhereIs ==
  ASSUME IInv, Elsewhere
  PROVE  /\ now' \in {now, now + 1} /\ (pc = "done" => pc' = "done")
         /\ sentAt # None => sentAt' # None
<1>1. CASE InstallHandlers \/ Bind \/ Receive \/ PollEnds
  BY <1>1 DEF InstallHandlers, Bind, Receive, PollEnds, runner, packet
<1>2. CASE \/ StartSender \/ ExitSender \/ KillSender
           \/ Stop \/ Abandon \/ Collect \/ Kill
  BY <1>2 DEF StartSender, ExitSender, KillSender, Stop, Abandon, StopReceivers,
     Collect, Kill, NextReceiver, Wait, runner, packet
<1>3. CASE Send
  BY <1>3 DEF Send, runner
<1>4. CASE TimeOut \/ Arrive \/ Tick
  BY <1>4 DEF TimeOut, Arrive, Tick, Wait, runner, packet
<1> QED
  BY <1>1, <1>2, <1>3, <1>4 DEF Elsewhere

\* The steps the records are not about keep what is said of the sender's record.
LEMMA ElsewhereKeepsRecorded == ASSUME IInv, TimesTyped, Recorded, Elsewhere PROVE Recorded'
<1>1. /\ record' = record /\ stamp' = stamp /\ now \in Nat /\ due \in Nat /\ Drain \in Nat
      /\ (record.started).mono \in Int /\ (record.ended).mono \in Int
  BY Constants DEF Elsewhere, IInv, TypeOK, TimesTyped, Times
<1>2. CASE InstallHandlers \/ Bind \/ Receive \/ PollEnds
  BY <1>1, <1>2 DEF Recorded, InstallHandlers, Bind, Receive, PollEnds, runner, packet
<1>3. CASE StartSender
  <2>1. record.started = NoTime /\ record.ended = NoTime /\ sentAt' = sentAt /\ now' = now
    BY <1>3 DEF StartSender, IInv, Sent, Recorded
  <2>2. pc' = "send" /\ tx' = "running"
    BY <1>3 DEF StartSender, Wait
  <2> QED
    BY <1>1, <2>1, <2>2 DEF Recorded
<1>4. CASE Send \/ ExitSender \/ KillSender
  BY <1>1, <1>4 DEF Recorded, Send, ExitSender, KillSender, runner, IInv, Sent
<1>5. CASE TimeOut /\ record.started # NoTime
  BY <1>1, <1>5 DEF Recorded, TimeOut, Wait, packet
<1>6. CASE Stop \/ Abandon
  BY <1>1, <1>6 DEF Recorded, Stop, Abandon, StopReceivers, Wait, packet, IInv, Sent
<1>7. CASE Collect \/ Kill
  BY <1>1, <1>7 DEF Recorded, Collect, Kill, NextReceiver, Wait, packet
<1>8. CASE Arrive
  BY <1>1, <1>8 DEF Recorded, Arrive, runner
<1>9. CASE Tick
  BY <1>1, <1>9 DEF Recorded, Tick, runner, packet
<1> QED
  BY <1>2, <1>3, <1>4, <1>5, <1>6, <1>7, <1>8, <1>9 DEF Elsewhere

\* What has been measured stays measured while time passes.
LEMMA MeasuredStays ==
  ASSUME IInv, TimesTyped, Unadjusted, Measured, now' \in {now, now + 1},
         pc = "done" => pc' = "done", UNCHANGED <<offset, adjusted, timeline, stamp>>,
         record' = record
  PROVE  TimesTyped' /\ Unadjusted' /\ Measured'
<1>1. now \in Nat
  BY DEF IInv, TypeOK
<1>2. TimesTyped'
  BY DEF TimesTyped, timeline
<1>3. Unadjusted'
  BY <1>1 DEF Unadjusted, Agree, timeline
<1>4. Measured'
  <2>1. \A t \in Int : t \in 0..now => t \in 0..now'
    BY <1>1
  <2>2. Len(phases) >= 2 => phases[2].duration \in Int
    BY DEF Measured
  <2>3. current.at.mono \in Int
    BY DEF TimesTyped, Times
  <2> QED
    BY <1>1, <2>1, <2>2, <2>3 DEF Measured, timeline
<1> QED
  BY <1>2, <1>3, <1>4

\* The sender's record is made while the sender has run and not been collected.
LEMMA RecordSenderKeeps ==
  ASSUME TIInv, RecordSender PROVE TimesTyped' /\ Recorded' /\ Unadjusted' /\ Measured'
<1>1. /\ UNCHANGED <<vars, offset, adjusted, timeline, stamp>>
      /\ tx # "absent" /\ record.started = NoTime
      /\ record' = [record EXCEPT !.started = Clock]
  BY DEF RecordSender
<1>2. /\ now \in Nat /\ Clock \in Times /\ Clock # NoTime
      /\ Clock.mono = now /\ Clock.wall = now + offset
  BY ClockIs DEF TIInv
<1>3. /\ record'.started = Clock /\ record'.ended = record.ended
      /\ record' \in [started : Times, ended : Times]
  BY <1>1, <1>2 DEF TIInv, TimesTyped
<1>4. record.ended = NoTime /\ pc = "send"
  BY <1>1 DEF TIInv, Recorded
<1>5. TimesTyped'
  BY <1>1, <1>3 DEF TIInv, TimesTyped, timeline
<1>6. Recorded'
  <2>1. now' = now /\ pc' = pc /\ tx' = tx /\ sentAt' = sentAt /\ stamp' = stamp
    BY <1>1 DEF vars, runner, packet
  <2> QED
    BY <1>1, <1>2, <1>3, <1>4, <2>1 DEF TIInv, Recorded
<1>7. Unadjusted'
  BY <1>1, <1>2, <1>3 DEF TIInv, Unadjusted, Agree, timeline, vars
<1>8. Measured'
  BY <1>1, <1>3, <1>4 DEF TIInv, Measured, timeline, vars, runner
<1> QED
  BY <1>5, <1>6, <1>7, <1>8

\* The record is finished as the drain delay begins.
LEMMA RecordEndKeeps ==
  ASSUME TIInv, RecordEnd PROVE TimesTyped' /\ Recorded' /\ Unadjusted' /\ Measured'
<1>1. /\ UNCHANGED <<offset, adjusted, timeline, stamp>>
      /\ record.started # NoTime
      /\ record' = [record EXCEPT !.ended = Clock]
      /\ pc \in {"send", "term"} /\ tx = "ended" /\ pc' = "drain" /\ due' = now + Drain
      /\ now' = now /\ tx' = tx /\ sentAt' = sentAt
  BY DEF RecordEnd, FinishSender, StartDrain, Wait, packet
<1>2. /\ now \in Nat /\ Clock \in Times /\ Clock # NoTime
      /\ Clock.mono = now /\ Clock.wall = now + offset
  BY ClockIs DEF TIInv
<1>3. /\ record'.ended = Clock /\ record'.started = record.started
      /\ record' \in [started : Times, ended : Times]
  BY <1>1, <1>2 DEF TIInv, TimesTyped
<1>4. Len(phases) = 1 /\ Len(phases') = 1
  <2>1. PICK n \in 1..3 : n = Len(phases)
    BY DEF TIInv, Measured
  <2>2. ~(n >= 2)
    BY <1>1, <2>1 DEF TIInv, Measured
  <2>3. n = 1 /\ phases' = phases
    BY <1>1, <2>1, <2>2 DEF timeline
  <2> QED
    BY <2>1, <2>3
<1>5. TimesTyped'
  BY <1>1, <1>3 DEF TIInv, TimesTyped, timeline
<1>6. Recorded'
  <2>1. record.started.mono \in 0..now /\ Drain \in Nat
    BY <1>1, Constants DEF TIInv, Recorded
  <2>2. record'.started # NoTime /\ record'.ended # NoTime /\ tx' # "absent"
    BY <1>1, <1>2, <1>3
  <2>3. /\ record'.started.mono \in 0..now' /\ record'.ended.mono = now'
        /\ now' \in record'.started.mono..now'
    BY <1>1, <1>2, <1>3, <2>1
  <2>4. record'.ended.mono + Drain <= due' /\ pc' = "drain"
    BY <1>1, <1>2, <1>3, <2>1
  <2>5. stamp' # None => sentAt' # None
    BY <1>1 DEF TIInv, Recorded
  <2>6. record'.ended.mono \in record'.started.mono..now'
    BY <2>3
  <2>7. pc' = "drain" /\ pc' \notin {"stop", "done"} /\ pc' \in {"drain", "stop", "done"}
    BY <1>1
  <2> QED
    BY <2>2, <2>3, <2>4, <2>5, <2>6, <2>7, Zenon DEF Recorded
<1>7. Unadjusted'
  BY <1>1, <1>2, <1>3 DEF TIInv, Unadjusted, Agree, timeline
<1>8. Measured'
  BY <1>1, <1>4 DEF TIInv, Measured, timeline
<1> QED
  BY <1>5, <1>6, <1>7, <1>8

\* The packet is stamped with the wall clock's present reading.
LEMMA SniffKeeps ==
  ASSUME TIInv, Sniff PROVE TimesTyped' /\ Recorded' /\ Unadjusted' /\ Measured'
<1>1. /\ UNCHANGED <<vars, offset, adjusted, timeline, record>>
      /\ datagram = "flying" /\ stamp' = now + offset
  BY DEF Sniff, Clock
<1>2. now \in Nat /\ offset \in Int
  BY ClockIs DEF TIInv
<1>3. sentAt # None
  BY <1>1 DEF TIInv, IInv, Sent
<1>4. TimesTyped'
  BY <1>1, <1>2 DEF TIInv, TimesTyped, timeline
<1>5. Recorded'
  BY <1>1, <1>3 DEF TIInv, Recorded, vars, runner, packet
<1>6. Unadjusted'
  BY <1>1, <1>2 DEF TIInv, Unadjusted, Agree, timeline, vars
<1>7. Measured'
  BY <1>1 DEF TIInv, Measured, timeline, vars, runner
<1> QED
  BY <1>4, <1>5, <1>6, <1>7

\* An adjusted wall clock changes no reading taken and no duration.
LEMMA AdjustKeeps ==
  ASSUME TIInv, Adjust PROVE TimesTyped' /\ Recorded' /\ Unadjusted' /\ Measured'
<1>1. /\ UNCHANGED <<vars, timeline, record, stamp>>
      /\ adjusted' = TRUE /\ offset' \in {Adjustment, -Adjustment}
  BY DEF Adjust
<1>2. TimesTyped'
  BY <1>1 DEF TIInv, TimesTyped, timeline
<1>3. Recorded'
  BY <1>1 DEF TIInv, Recorded, vars, runner, packet
<1>4. Unadjusted'
  BY <1>1 DEF Unadjusted
<1>5. Measured'
  BY <1>1 DEF TIInv, Measured, timeline, vars, runner
<1> QED
  BY <1>2, <1>3, <1>4, <1>5

\* The phase that _close lists, and those before it.
LEMMA CloseIs ==
  ASSUME TIInv, current # NoPhase, NEW status \in {"ok", "failed"}, Close(status),
         current.name # "none"
  PROVE  /\ phases' \in Seq(Entries) /\ Len(phases') = Len(phases) + 1
         /\ \A k \in 1..Len(phases) : phases'[k] = phases[k]
         /\ phases'[Len(phases) + 1] =
              [name |-> current.name, status |-> status,
               started |-> current.at.wall, ended |-> now + offset,
               duration |-> now - current.at.mono]
<1> DEFINE entry == [name |-> current.name, status |-> status,
                     started |-> current.at.wall, ended |-> now + offset,
                     duration |-> now - current.at.mono]
<1>1. phases' = Append(phases, entry)
  BY DEF Close, Elapsed, Clock
<1>2. entry \in Entries
  <2>1. now \in Nat /\ offset \in Int
    BY ClockIs DEF TIInv
  <2>2. /\ current.name \in {"execute_protocol", "cleanup"}
        /\ current.at.wall \in Int /\ current.at.mono \in Int
    BY DEF TIInv, TimesTyped, Times
  <2> QED
    BY <2>1, <2>2 DEF Entries
<1>3. phases \in Seq(Entries)
  BY DEF TIInv, TimesTyped
<1> HIDE DEF entry
<1>4. /\ phases' \in Seq(Entries) /\ Len(phases') = Len(phases) + 1
      /\ \A k \in 1..Len(phases) : phases'[k] = phases[k]
      /\ phases'[Len(phases) + 1] = entry
  BY <1>1, <1>2, <1>3
<1> QED
  BY <1>4 DEF entry

\* The protocol's phase is listed with the time since its start, at 0.
LEMMA ProtocolOverKeeps ==
  ASSUME TIInv, ProtocolOver PROVE TimesTyped' /\ Recorded' /\ Unadjusted' /\ Measured'
<1>1. /\ UNCHANGED <<vars, offset, adjusted, record, stamp, began, ended>>
      /\ pc = "done" /\ current.name = "execute_protocol"
  BY DEF ProtocolOver, StartPhase, Fail
<1>2. PICK status \in {"ok", "failed"} :
        /\ Close(status)
        /\ \/ status = "ok" /\ current' = [name |-> "cleanup", at |-> Clock]
           \/ status = "failed" /\ current' = NoPhase
  BY DEF ProtocolOver, StartPhase, Fail
<1>3. /\ now \in Nat /\ offset \in Int /\ Clock \in Times
      /\ Clock.mono = now /\ Clock.wall = now + offset /\ NoTime \in Times
  BY ClockIs DEF TIInv
<1>4. Len(phases) = 1 /\ current.at.mono = 0 /\ ended = NoTime /\ current # NoPhase
  BY <1>1 DEF TIInv, Measured, NoPhase
<1>5. /\ phases' \in Seq(Entries) /\ Len(phases') = 2 /\ phases'[1] = phases[1]
      /\ phases'[2] = [name |-> current.name, status |-> status,
                       started |-> current.at.wall, ended |-> now + offset,
                       duration |-> now - current.at.mono]
  BY <1>1, <1>2, <1>4, CloseIs
<1>6. /\ phases'[2].status = status /\ phases'[2].duration = now
      /\ phases'[2].started = current.at.wall /\ phases'[2].ended = now + offset
  BY <1>3, <1>4, <1>5
<1>7. /\ current' \in [name : {"none", "execute_protocol", "cleanup"}, at : Times]
      /\ status = "ok" => current'.name = "cleanup" /\ current'.at = Clock
      /\ status = "failed" => current' = NoPhase
  BY <1>2, <1>3 DEF NoPhase
<1>8. TimesTyped'
  BY <1>1, <1>5, <1>7 DEF TIInv, TimesTyped
<1>9. Recorded'
  BY <1>1 DEF TIInv, Recorded, vars, runner, packet
<1>10. Unadjusted'
  <2>1. ~adjusted => Agree(current'.at)
    BY <1>2, <1>3 DEF TIInv, Unadjusted, Agree, NoPhase, NoTime
  <2> QED
    BY <1>1, <1>3, <1>4, <1>6, <2>1 DEF TIInv, Unadjusted, Agree, vars
<1>11. Measured'
  <2>1. record.ended # NoTime => record.ended.mono + Drain <= now
    BY <1>1 DEF TIInv, Recorded
  <2>2. UNCHANGED <<pc, now, record, began, ended>> /\ now \in 0..now
    BY <1>1, <1>3 DEF vars, runner
  <2> QED
    BY <1>1, <1>2, <1>3, <1>4, <1>5, <1>6, <1>7, <2>1, <2>2 DEF TIInv, Measured
<1> QED
  BY <1>8, <1>9, <1>10, <1>11

\* After a failed protocol the clean-up begins later than the protocol ended.
LEMMA EnterCleanupKeeps ==
  ASSUME TIInv, EnterCleanup PROVE TimesTyped' /\ Recorded' /\ Unadjusted' /\ Measured'
<1>1. /\ UNCHANGED <<vars, offset, adjusted, record, stamp, began, ended, phases>>
      /\ current = NoPhase /\ ended = NoTime
      /\ current' = [name |-> "cleanup", at |-> Clock]
  BY DEF EnterCleanup, StartPhase, Close
<1>2. /\ now \in Nat /\ offset \in Int /\ Clock \in Times
      /\ Clock.mono = now /\ Clock.wall = now + offset
  BY ClockIs DEF TIInv
<1>3. Len(phases) = 2 /\ phases[2].status = "failed" /\ phases[2].duration \in 0..now
  <2>1. Len(phases) # 1
    BY <1>1 DEF TIInv, Measured, NoPhase
  <2> QED
    BY <1>1, <2>1 DEF TIInv, Measured, NoPhase
<1>4. TimesTyped'
  BY <1>1, <1>2 DEF TIInv, TimesTyped
<1>5. Recorded'
  BY <1>1 DEF TIInv, Recorded, vars, runner, packet
<1>6. Unadjusted'
  BY <1>1, <1>2 DEF TIInv, Unadjusted, Agree, vars
<1>7. Measured'
  <2>1. current'.name = "cleanup" /\ current'.at.mono \in phases[2].duration..now
    BY <1>1, <1>2, <1>3
  <2> QED
    BY <1>1, <1>3, <2>1 DEF TIInv, Measured, vars, runner
<1> QED
  BY <1>4, <1>5, <1>6, <1>7

\* The clean-up's phase is listed, and the run ends at its end.
LEMMA FinishKeeps ==
  ASSUME TIInv, Finish PROVE TimesTyped' /\ Recorded' /\ Unadjusted' /\ Measured'
<1>1. /\ UNCHANGED <<vars, offset, adjusted, record, stamp, began>>
      /\ current.name = "cleanup" /\ ended = NoTime
      /\ Close("ok") /\ current' = NoPhase /\ ended' = Clock
  BY DEF Finish
<1>2. /\ now \in Nat /\ offset \in Int /\ Clock \in Times /\ Clock # NoTime
      /\ Clock.mono = now /\ NoTime \in Times
  BY ClockIs DEF TIInv
<1>3. /\ Len(phases) = 2 /\ current # NoPhase
      /\ current.at.mono \in phases[2].duration..now /\ phases[2].duration \in 0..now
      /\ phases[2].status = "ok" => current.at.mono = phases[2].duration
  BY <1>1 DEF TIInv, Measured, NoPhase
<1>4. /\ phases' \in Seq(Entries) /\ Len(phases') = 3
      /\ phases'[1] = phases[1] /\ phases'[2] = phases[2]
      /\ phases'[3] = [name |-> current.name, status |-> "ok",
                       started |-> current.at.wall, ended |-> now + offset,
                       duration |-> now - current.at.mono]
  BY <1>1, <1>3, CloseIs
<1>5. phases'[3].status = "ok" /\ phases'[3].duration = now - current.at.mono
  BY <1>4
<1>6. TimesTyped'
  BY <1>1, <1>2, <1>4 DEF TIInv, TimesTyped, NoPhase
<1>7. Recorded'
  BY <1>1 DEF TIInv, Recorded, vars, runner, packet
<1>8. Unadjusted'
  BY <1>1, <1>3, <1>4 DEF TIInv, Unadjusted, Agree, vars, NoPhase, NoTime
<1>9. Measured'
  <2>1. phases[2].duration \in Int /\ current.at.mono \in Int
    BY <1>3
  <2>2. UNCHANGED <<pc, now, record, began>>
    BY <1>1 DEF vars, runner
  <2> QED
    BY <1>1, <1>2, <1>3, <1>4, <1>5, <2>1, <2>2 DEF TIInv, Measured
<1> QED
  BY <1>6, <1>7, <1>8, <1>9

\* Every step keeps the timeline's invariant.
LEMMA TNextKeeps == ASSUME TIInv, [TNext]_tvars PROVE TIInv'
<1>1. IInv'
  BY NextIInv DEF TIInv
<1>2. CASE Elsewhere
  <2>1. UNCHANGED <<offset, adjusted, timeline, stamp>> /\ record' = record
    BY <1>2 DEF Elsewhere
  <2> QED
    BY <1>1, <1>2, <2>1, ElsewhereIs, ElsewhereKeepsRecorded, MeasuredStays DEF TIInv
<1>3. CASE TickAfter
  <2>1. /\ UNCHANGED <<offset, adjusted, timeline, stamp>> /\ record' = record
        /\ now' = now + 1 /\ pc' = pc /\ due' = due /\ tx' = tx /\ sentAt' = sentAt
        /\ stamp' = stamp /\ now \in Nat
    BY <1>3 DEF TickAfter, runner, packet, TIInv, IInv, TypeOK
  <2>2. Recorded'
    <3>1. \A t \in Int : (t \in 0..now => t \in 0..now') /\ (t <= now => t <= now')
      BY <2>1
    <3>2. \A s, t \in Int : t \in s..now => t \in s..now'
      BY <2>1
    <3>3. /\ record.started.mono \in Int /\ record.ended.mono \in Int
          /\ record.ended.mono + Drain \in Int
      BY Constants DEF TIInv, TimesTyped, Times
    <3> QED
      BY <2>1, <3>1, <3>2, <3>3 DEF TIInv, Recorded
  <2> QED
    BY <1>1, <2>1, <2>2, MeasuredStays DEF TIInv
<1>4. CASE UNCHANGED tvars
  <2>1. UNCHANGED <<vars, offset, adjusted, timeline, stamp>> /\ record' = record
    BY <1>4 DEF tvars
  <2>2. Recorded'
    BY <2>1 DEF TIInv, Recorded, vars, runner, packet
  <2> QED
    BY <1>1, <2>1, <2>2, MeasuredStays DEF TIInv, vars, runner
<1> QED
  BY <1>1, <1>2, <1>3, <1>4, RecordSenderKeeps, RecordEndKeeps, SniffKeeps,
     ProtocolOverKeeps, EnterCleanupKeeps, FinishKeeps, AdjustKeeps
     DEF TNext, TIInv, Over

\* The inductive invariant of the timeline and the records, for any delays and
\* any adjustment of the wall clock.
THEOREM TimelineInvariant == TSpec => []TIInv
<1>1. TInit => TIInv
  BY TInitKeeps
<1>2. TIInv /\ [TNext]_tvars => TIInv'
  BY TNextKeeps
<1> QED
  BY <1>1, <1>2, PTL DEF TSpec

\* The timeline and the records stay of their types.
THEOREM TimelineTypes == TSpec => []TTypeOK
<1>1. ASSUME TIInv PROVE TTypeOK
  <2>1. TypeOK
    BY <1>1 DEF TIInv, IInv
  <2>2. offset \in {0, Adjustment, -Adjustment} /\ adjusted \in BOOLEAN /\ stamp \in Int
    BY <1>1 DEF TIInv, TimesTyped
  <2>3. current.name \in {"none", "execute_protocol", "cleanup"}
    BY <1>1 DEF TIInv, TimesTyped
  <2>4. Len(phases) \in 1..3
    BY <1>1 DEF TIInv, Measured
  <2>5. ASSUME NEW k \in DOMAIN phases PROVE phases[k].status \in {"ok", "failed"}
    <3>1. phases \in Seq(Entries)
      BY <1>1 DEF TIInv, TimesTyped
    <3>2. phases[k] \in Entries
      BY <2>5, <3>1
    <3> QED
      BY <3>2 DEF Entries
  <2>6. record.ended # NoTime => record.started # NoTime
    BY <1>1 DEF TIInv, Recorded
  <2> QED
    BY <2>1, <2>2, <2>3, <2>4, <2>5, <2>6 DEF TTypeOK
<1> QED
  BY <1>1, TimelineInvariant, PTL

\* The phases' durations, read from the monotonic clock, make up the run's,
\* whenever and by how much the wall clock is adjusted.
THEOREM DurationsAreWhole == TSpec => []DurationsAddUp
<1>1. ASSUME TIInv, ended # NoTime PROVE DurationsAddUp
  <2>1. /\ Len(phases) = 3
        /\ phases[1].duration = -began.mono /\ phases[1].status = "ok"
        /\ phases[2].duration \in 0..now /\ phases[3].duration >= 0
        /\ phases[2].duration + phases[3].duration <= ended.mono
        /\ phases[2].status = "ok" =>
             phases[2].duration + phases[3].duration = ended.mono
        /\ record.ended # NoTime => record.ended.mono + Drain <= phases[2].duration
    BY <1>1 DEF TIInv, Measured
  <2>2. /\ DOMAIN phases = 1..3 /\ began.mono <= 0 /\ began.mono \in Int
        /\ ended.mono \in Int /\ \A k \in 1..3 : phases[k] \in Entries
    <3>1. phases \in Seq(Entries) /\ began \in Times /\ ended \in Times
      BY <1>1 DEF TIInv, TimesTyped
    <3>2. DOMAIN phases = 1..3
      BY <2>1, <3>1
    <3>3. \A k \in DOMAIN phases : phases[k] \in Entries
      BY <3>1
    <3>4. began.mono \in Int /\ ended.mono \in Int
      BY <3>1 DEF Times
    <3>5. began.mono <= 0
      BY <1>1 DEF TIInv, Measured
    <3> QED
      BY <3>2, <3>3, <3>4, <3>5
  <2>3. \A k \in 1..3 : /\ phases[k].duration \in Int
                        /\ phases[k].status # "failed" => phases[k].status = "ok"
    BY <2>2 DEF Entries
  <2>4. record.ended # NoTime =>
          /\ record.started.mono >= 0 /\ record.started.mono \in Int
          /\ record.ended.mono \in Int
    BY <1>1 DEF TIInv, Recorded, TimesTyped, Times
  <2>5. Drain \in Nat
    BY Constants
  <2>6. \A k \in 1..3 : phases[k].duration >= 0
    BY <2>1, <2>2, <2>3
  <2>7. LET total == ended.mono - began.mono
            sum   == phases[1].duration + phases[2].duration + phases[3].duration
        IN  sum <= total /\ (phases[2].status = "ok" => sum = total)
    BY <2>1, <2>2, <2>3
  <2>8. (~ \E k \in DOMAIN phases : phases[k].status = "failed") => phases[2].status = "ok"
    BY <2>2, <2>3
  <2>9. record.ended # NoTime =>
          record.ended.mono - record.started.mono <= phases[2].duration
    BY <2>1, <2>3, <2>4, <2>5
  <2> QED
    BY <2>1, <2>6, <2>7, <2>8, <2>9 DEF DurationsAddUp
<1>2. TIInv => DurationsAddUp
  BY <1>1 DEF DurationsAddUp
<1> QED
  BY <1>2, TimelineInvariant, PTL

\* While the wall clock is left alone, the phase, the sender's record and the
\* packet are on one time base.
THEOREM PacketsAreAligned == TSpec => []PacketsAlign
<1>1. ASSUME TIInv, ~adjusted, stamp # None, Len(phases) >= 2 PROVE PacketsAlign
  <2>1. /\ phases[2].started = 0 /\ phases[2].ended = phases[2].duration
        /\ record.ended.wall = record.ended.mono /\ stamp \in 0..now
    BY <1>1 DEF TIInv, Unadjusted, Agree
  <2>2. pc = "done" /\ phases[2].duration \in 0..now
    BY <1>1 DEF TIInv, Measured
  <2>3. record.ended # NoTime
    BY <1>1, <2>2 DEF TIInv, Recorded, IInv, Sent
  <2>4. record.ended.mono + Drain <= phases[2].duration
    BY <1>1, <2>3 DEF TIInv, Measured
  <2>5. record.ended.mono \in Int /\ Drain \in Nat
    BY <1>1, Constants DEF TIInv, TimesTyped, Times
  <2> QED
    BY <2>1, <2>2, <2>4, <2>5 DEF PacketsAlign
<1>2. TIInv => PacketsAlign
  BY <1>1 DEF PacketsAlign
<1> QED
  BY <1>2, TimelineInvariant, PTL
=============================================================================
