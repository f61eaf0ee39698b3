---------------------------- MODULE CaptureProofs ----------------------------
(***************************************************************************)
(* Proofs about Capture, for any number of captures.                       *)
(***************************************************************************)
EXTENDS Capture, TLAPS

InHand == {"wait_int", "wait_term", "wait_kill", "analyse"}

\* A capture that no longer concerns anybody.
Closed(c) == tcpdump[c] # "running" /\ file[c] # "open"

\* Until the first call of CaptureSet.stop, nothing is signalled and nothing
\* has a result; the captures before the one in hand are started.
Before ==
  pc \in {"start", "check", "protocol"} =>
    /\ caller = None /\ setResult = None /\ outcome = None
    /\ \A c \in Captures :
         /\ result[c] = None /\ signalled[c] = {}
         /\ c \in early <=> tcpdump[c] = "exited"
         /\ tcpdump[c] = "absent" <=> pc = "start" /\ i <= c

\* Which call of CaptureSet.stop is made, and how far it is.
Calls ==
  pc \in {"stop"} \union InHand =>
    /\ caller \in Callers /\ outcome = None
    /\ setResult # None => caller = "except" /\ pc = "stop"
    /\ caller = "cleanup" => faults >= 1
    /\ caller = "except" => faults >= 1 \/ setResult # None
    /\ setResult = None => \A c \in Captures : c < i => result[c] # None

\* A result is given to a capture that is closed.
Closing ==
  /\ \A c \in Captures : /\ tcpdump[c] = "absent" => file[c] # "open"
                         /\ result[c] # None => Closed(c)
  /\ setResult # None => \A c \in Captures : result[c] # None
  /\ pc = "analyse" => Closed(i)
  /\ pc \in InHand => tcpdump[i] # "absent"

\* In the stop_capture phase every capture is judged at its poll.
Judged ==
  pc \in {"stop"} \union InHand /\ caller = "stop_capture" =>
    /\ \A c \in Captures :
         /\ tcpdump[c] # "absent"
         /\ PollToCome(c) => /\ result[c] = None /\ signalled[c] = {}
                             /\ c \in early <=> tcpdump[c] = "exited"
         /\ c < i => (result[c] = "unexpected_exit" <=> c \in early)
    /\ pc \in InHand => (unexpected = TRUE <=> i \in early)

\* A run ends with a result of every capture, unless two exceptions hit it.
Ended ==
  /\ pc = "done" /\ faults <= 1 => \A c \in Captures : result[c] # None
  /\ outcome = "measured" => pc = "done"

IInv == /\ TypeOK /\ Before /\ Calls /\ Closing /\ Judged /\ Ended
        /\ MeasurementIsAccurate

\* The invariant holds at first.
LEMMA InitIInv == Init => IInv
<1>1. 1 \in Captures
  BY CaptureAssumption DEF CaptureAssumption, Captures
<1> SUFFICES ASSUME Init PROVE IInv
  OBVIOUS
<1>2. TypeOK
  <2>1. 0 \in 0..MaxFaults
    BY CaptureAssumption DEF CaptureAssumption
  <2>2. signalled \in [Captures -> SUBSET Signals]
    BY DEF Init
  <2>3. /\ result \in [Captures -> Verdicts \union {None}]
        /\ file \in [Captures -> {None, "open", "closed"}]
        /\ tcpdump \in [Captures -> {"absent", "running", "exited"}]
    BY DEF Init
  <2> QED
    BY <1>1, <2>1, <2>2, <2>3 DEF Init, TypeOK, None, Points
<1>3. Before /\ Calls /\ Closing /\ Judged /\ Ended /\ MeasurementIsAccurate
  BY <1>1 DEF Init, Before, Calls, Closing, Judged, Ended, None,
              MeasurementIsAccurate, Captures, InHand, Closed
<1> QED
  BY <1>2, <1>3 DEF IInv

\* Where run.py is after a call of CaptureSet.stop returned.
Returned ==
  \/ caller = "dead" /\ Goto("stop", 1) /\ caller' = "except" /\ outcome' = outcome
  \/ caller = "except" /\ Finish("not_started")
  \/ caller = "stop_capture" /\ Finish("measured")
  \/ caller = "cleanup" /\ Finish("aborted")

\* Where it is after one raised.
Raised ==
  \/ caller = "dead" /\ Goto("stop", 1) /\ caller' = "except" /\ outcome' = outcome
  \/ caller = "except" /\ Finish("not_started")
  \/ caller = "stop_capture" /\ Goto("stop", 1) /\ caller' = "cleanup"
     /\ outcome' = outcome
  \/ caller = "cleanup" /\ Finish("aborted")

\* StopReturns and StopRaises, by the cases of caller.
LEMMA Returning == ASSUME caller \in Callers, StopReturns PROVE Returned
  BY DEF Callers, StopReturns, Returned, CallStop

\* The same of a stop that raises.
LEMMA Raising == ASSUME caller \in Callers, StopRaises PROVE Raised
  BY DEF Callers, StopRaises, Raised, CallStop

\* The Capture in hand gets its result, and after the last one the set does.
LEMMA Concluding ==
  ASSUME TypeOK, caller \in Callers, NEW r, r \in Verdicts, Conclude(r)
  PROVE  /\ result' = [result EXCEPT ![i] = r]
         /\ \/ /\ i # M /\ Goto("stop", i + 1)
               /\ UNCHANGED <<caller, outcome, setResult>>
            \/ /\ i = M /\ Returned
               /\ setResult' \in {"valid", "invalid"}
               /\ setResult' = "valid" =>
                    \A c \in Captures : result'[c] # "unexpected_exit"
  BY Returning DEF Conclude, Last

\* StartCapture keeps the invariant.
LEMMA StartCaptureKeeps == ASSUME IInv, StartCapture PROVE IInv'
<1>0. M \in Nat /\ 1 \in Captures /\ i \in Captures /\ MaxFaults \in Nat
  BY CaptureAssumption DEF CaptureAssumption, Captures, IInv, TypeOK
<1>1. TypeOK'
  BY <1>0 DEF IInv, TypeOK, StartCapture, Goto, Last, Captures, Verdicts, Points
<1>2. Before'
  BY <1>0 DEF IInv, TypeOK, Before, StartCapture, Goto, Last, Captures
<1>3. Calls'
  BY <1>0 DEF IInv, Calls, StartCapture, Goto, Last, Captures, InHand
<1>4. Closing'
  BY <1>0 DEF IInv, TypeOK, Before, Closing, StartCapture, Goto, InHand
<1>5. Judged'
  BY <1>0 DEF IInv, Judged, StartCapture, Goto, Last, Captures, InHand,
     PollToCome
<1>6. Ended'
  BY <1>0 DEF IInv, Ended, StartCapture, Goto, Last, Captures
<1>7. MeasurementIsAccurate'
  BY <1>0 DEF IInv, MeasurementIsAccurate, StartCapture, Goto, Last, Captures
<1> QED
  BY <1>1, <1>2, <1>3, <1>4, <1>5, <1>6, <1>7 DEF IInv

\* StartRaises keeps the invariant.
LEMMA StartRaisesKeeps == ASSUME IInv, StartRaises PROVE IInv'
<1>0. M \in Nat /\ 1 \in Captures /\ i \in Captures /\ MaxFaults \in Nat
  BY CaptureAssumption DEF CaptureAssumption, Captures, IInv, TypeOK
<1>1. TypeOK'
  BY <1>0 DEF IInv, TypeOK, StartRaises, Goto, Fault, CallStop, system,
     Callers, Points
<1>2. Before'
  BY <1>0 DEF IInv, Before, StartRaises, Goto, Fault, CallStop, system, Captures
<1>3. Calls'
  BY <1>0 DEF IInv, TypeOK, Before, Calls, StartRaises, Goto, Fault, CallStop,
     Captures, Callers
<1>4. Closing'
  BY <1>0 DEF IInv, TypeOK, Closing, StartRaises, Goto, Fault, CallStop,
     system, Captures, InHand, Closed
<1>5. Judged'
  BY <1>0 DEF IInv, Judged, StartRaises, Goto, Fault, CallStop, system,
     Captures, InHand, PollToCome
<1>6. Ended'
  BY <1>0 DEF IInv, Ended, StartRaises, Goto, Fault, CallStop, system, Captures
<1>7. MeasurementIsAccurate'
  BY <1>0 DEF IInv, MeasurementIsAccurate, StartRaises, Goto, Fault, CallStop,
     system, Captures
<1> QED
  BY <1>1, <1>2, <1>3, <1>4, <1>5, <1>6, <1>7 DEF IInv

\* CheckStarted keeps the invariant.
LEMMA CheckStartedKeeps == ASSUME IInv, CheckStarted PROVE IInv'
<1>0. M \in Nat /\ 1 \in Captures /\ i \in Captures /\ MaxFaults \in Nat
  BY CaptureAssumption DEF CaptureAssumption, Captures, IInv, TypeOK
<1>1. TypeOK'
  BY <1>0 DEF IInv, TypeOK, CheckStarted, Goto, Last, CallStop, objects,
     system, Captures, Callers, Points
<1>2. Before'
  BY <1>0 DEF IInv, Before, CheckStarted, Goto, Last, CallStop, HasExited,
     objects, system, Captures
<1>3. Calls'
  BY <1>0 DEF IInv, Before, Calls, CheckStarted, Goto, CallStop, objects,
     Captures, Callers, InHand
<1>4. Closing'
  BY <1>0 DEF IInv, Closing, CheckStarted, Goto, Last, CallStop, HasExited,
     objects, system, Captures, InHand, Closed
<1>5. Judged'
  BY <1>0 DEF IInv, Judged, CheckStarted, Goto, Last, CallStop, HasExited,
     objects, system, Captures, InHand, PollToCome
<1>6. Ended'
  BY <1>0 DEF IInv, Ended, CheckStarted, Goto, Last, CallStop, HasExited,
     objects, system, Captures
<1>7. MeasurementIsAccurate'
  BY <1>0 DEF IInv, MeasurementIsAccurate, CheckStarted, Goto, Last, CallStop,
     HasExited, objects, system, Captures
<1> QED
  BY <1>1, <1>2, <1>3, <1>4, <1>5, <1>6, <1>7 DEF IInv

\* ProtocolReturns keeps the invariant.
LEMMA ProtocolReturnsKeeps == ASSUME IInv, ProtocolReturns PROVE IInv'
<1>0. M \in Nat /\ 1 \in Captures /\ i \in Captures /\ MaxFaults \in Nat
  BY CaptureAssumption DEF CaptureAssumption, Captures, IInv, TypeOK
<1>1. TypeOK'
  BY <1>0 DEF IInv, TypeOK, ProtocolReturns, Goto, CallStop, objects, system,
     Callers, Points
<1>2. Before'
  BY <1>0 DEF IInv, Before, ProtocolReturns, Goto, CallStop, objects, system,
     Captures
<1>3. Calls'
  BY <1>0 DEF IInv, Before, Calls, ProtocolReturns, Goto, CallStop, objects,
     Captures, Callers
<1>4. Closing'
  BY <1>0 DEF IInv, Closing, ProtocolReturns, Goto, CallStop, objects, system,
     Captures, InHand, Closed
<1>5. Judged'
  BY <1>0 DEF IInv, Before, Judged, ProtocolReturns, Goto, CallStop, objects,
     system, Captures, InHand
<1>6. Ended'
  BY <1>0 DEF IInv, Ended, ProtocolReturns, Goto, CallStop, objects, system,
     Captures
<1>7. MeasurementIsAccurate'
  BY <1>0 DEF IInv, MeasurementIsAccurate, ProtocolReturns, Goto, CallStop,
     objects, system, Captures
<1> QED
  BY <1>1, <1>2, <1>3, <1>4, <1>5, <1>6, <1>7 DEF IInv

\* ProtocolRaises keeps the invariant.
LEMMA ProtocolRaisesKeeps == ASSUME IInv, ProtocolRaises PROVE IInv'
<1>0. M \in Nat /\ 1 \in Captures /\ i \in Captures /\ MaxFaults \in Nat
  BY CaptureAssumption DEF CaptureAssumption, Captures, IInv, TypeOK
<1>1. TypeOK'
  BY <1>0 DEF IInv, TypeOK, ProtocolRaises, Goto, CallStop, Fault, objects,
     system, Callers, Points
<1>2. Before'
  BY <1>0 DEF IInv, Before, ProtocolRaises, Goto, CallStop, Fault, objects,
     system, Captures
<1>3. Calls'
  BY <1>0 DEF IInv, TypeOK, Before, Calls, ProtocolRaises, Goto, CallStop,
     Fault, objects, Captures, Callers
<1>4. Closing'
  BY <1>0 DEF IInv, Closing, ProtocolRaises, Goto, CallStop, Fault, objects,
     system, Captures, InHand, Closed
<1>5. Judged'
  BY <1>0 DEF IInv, Judged, ProtocolRaises, Goto, CallStop, Fault, objects,
     system, Captures, InHand, PollToCome
<1>6. Ended'
  BY <1>0 DEF IInv, Ended, ProtocolRaises, Goto, CallStop, Fault, objects,
     system, Captures
<1>7. MeasurementIsAccurate'
  BY <1>0 DEF IInv, MeasurementIsAccurate, ProtocolRaises, Goto, CallStop,
     Fault, objects, system, Captures
<1> QED
  BY <1>1, <1>2, <1>3, <1>4, <1>5, <1>6, <1>7 DEF IInv

\* PollAndInterrupt keeps the invariant.
LEMMA PollAndInterruptKeeps == ASSUME IInv, PollAndInterrupt PROVE IInv'
<1>0. M \in Nat /\ 1 \in Captures /\ i \in Captures /\ MaxFaults \in Nat
  BY CaptureAssumption DEF CaptureAssumption, Captures, IInv, TypeOK
<1>1. TypeOK'
  BY <1>0 DEF IInv, TypeOK, PollAndInterrupt, Goto, HasExited, Signal, objects,
     Signals, Points
<1>2. Before'
  BY <1>0 DEF IInv, Before, PollAndInterrupt, Goto, HasResult, HasExited,
     Signal, objects, Captures
<1>3. Calls'
  BY <1>0 DEF IInv, Calls, PollAndInterrupt, Goto, HasResult, HasExited,
     Signal, objects, Captures, InHand
<1>4. Closing'
  BY <1>0 DEF IInv, Closing, PollAndInterrupt, Goto, HasResult, HasExited,
     Signal, objects, Captures, InHand, Closed
<1>5. Judged'
  <2> SUFFICES ASSUME caller = "stop_capture" PROVE Judged'
    BY DEF PollAndInterrupt, Judged
  <2>1. PollToCome(i) /\ ~(PollToCome(i))'
    BY <1>0 DEF PollAndInterrupt, PollToCome, Goto, Captures
  <2>2. (unexpected' = TRUE) <=> i \in early'
    BY <1>0, <2>1 DEF IInv, Judged, PollAndInterrupt, HasExited
  <2>3. ASSUME NEW c \in Captures
        PROVE  /\ (PollToCome(c))' => PollToCome(c) /\ signalled'[c] = signalled[c]
               /\ c < i' => c < i
    BY <1>0, <2>1, <2>3 DEF PollAndInterrupt, PollToCome, Goto, Captures,
       Signal, IInv, TypeOK
  <2> QED
    BY <2>2, <2>3 DEF IInv, Judged, PollAndInterrupt, objects, InHand, Goto
<1>6. Ended'
  BY <1>0 DEF IInv, Ended, PollAndInterrupt, Goto, HasResult, HasExited,
     Signal, objects, Captures
<1>7. MeasurementIsAccurate'
  BY <1>0 DEF IInv, MeasurementIsAccurate, PollAndInterrupt, Goto, HasResult,
     HasExited, Signal, objects, Captures
<1> QED
  BY <1>1, <1>2, <1>3, <1>4, <1>5, <1>6, <1>7 DEF IInv

\* Exited keeps the invariant.
LEMMA ExitedKeeps == ASSUME IInv, Exited PROVE IInv'
<1>0. M \in Nat /\ 1 \in Captures /\ i \in Captures /\ MaxFaults \in Nat
  BY CaptureAssumption DEF CaptureAssumption, Captures, IInv, TypeOK
<1>1. TypeOK'
  BY <1>0 DEF IInv, TypeOK, Exited, Goto, system, Captures, Verdicts, Points
<1>2. Before'
  BY <1>0 DEF IInv, Before, Exited, Goto, system, Captures
<1>3. Calls'
  BY <1>0 DEF IInv, Calls, Exited, Goto, system, Captures, InHand
<1>4. Closing'
  BY <1>0 DEF IInv, TypeOK, Closing, Exited, Goto, system, Captures, InHand,
     Closed
<1>5. Judged'
  BY <1>0 DEF IInv, Judged, Exited, Goto, system, Captures, InHand, PollToCome
<1>6. Ended'
  BY <1>0 DEF IInv, Ended, Exited, Goto, system, Captures
<1>7. MeasurementIsAccurate'
  BY <1>0 DEF IInv, MeasurementIsAccurate, Exited, Goto, system, Captures
<1> QED
  BY <1>1, <1>2, <1>3, <1>4, <1>5, <1>6, <1>7 DEF IInv

\* TimesOut keeps the invariant.
LEMMA TimesOutKeeps == ASSUME IInv, TimesOut PROVE IInv'
<1>0. M \in Nat /\ 1 \in Captures /\ i \in Captures /\ MaxFaults \in Nat
  BY CaptureAssumption DEF CaptureAssumption, Captures, IInv, TypeOK
<1>1. TypeOK'
  BY <1>0 DEF IInv, TypeOK, TimesOut, Goto, Signal, objects, Signals, Points
<1>2. Before'
  BY <1>0 DEF IInv, Before, TimesOut, Goto, Signal, objects, Captures
<1>3. Calls'
  BY <1>0 DEF IInv, Calls, TimesOut, Goto, Signal, objects, Captures, InHand
<1>4. Closing'
  BY <1>0 DEF IInv, Closing, TimesOut, Goto, Signal, objects, Captures, InHand,
     Closed
<1>5. Judged'
  BY <1>0 DEF IInv, TypeOK, Judged, TimesOut, Goto, Signal, objects, Captures,
     InHand, PollToCome
<1>6. Ended'
  BY <1>0 DEF IInv, Ended, TimesOut, Goto, Signal, objects, Captures
<1>7. MeasurementIsAccurate'
  BY <1>0 DEF IInv, MeasurementIsAccurate, TimesOut, Goto, Signal, objects,
     Captures
<1> QED
  BY <1>1, <1>2, <1>3, <1>4, <1>5, <1>6, <1>7 DEF IInv

\* Cached keeps the invariant.
LEMMA CachedKeeps == ASSUME IInv, Cached PROVE IInv'
<1>0. M \in Nat /\ 1 \in Captures /\ i \in Captures /\ MaxFaults \in Nat
  BY CaptureAssumption DEF CaptureAssumption, Captures, IInv, TypeOK
<1>8. pc \in {"stop"} \union InHand /\ caller \in Callers
  BY DEF Cached, IInv, Calls, InHand
<1>9. Returned
  BY <1>8, Returning DEF Cached
<1>1. TypeOK'
  BY <1>0, <1>8, <1>9 DEF IInv, TypeOK, Cached, Returned, Goto, Finish,
     objects, system, Callers, Points
<1>2. Before'
  BY <1>0, <1>8, <1>9 DEF IInv, Before, Returned, Goto, Finish
<1>3. Calls'
  BY <1>0, <1>8, <1>9 DEF IInv, Calls, Cached, Returned, Goto, Finish, InHand
<1>4. Closing'
  BY <1>0, <1>8, <1>9 DEF IInv, Closing, Cached, Returned, Goto, Finish,
     objects, system, InHand, Closed
<1>5. Judged'
  BY <1>0, <1>8, <1>9 DEF IInv, Judged, Returned, Finish, None
<1>6. Ended'
  BY <1>0, <1>8, <1>9 DEF IInv, Closing, Ended, Cached, Returned, Goto, Finish,
     objects
<1>7. MeasurementIsAccurate'
  BY <1>0, <1>8, <1>9 DEF IInv, Closing, Judged, MeasurementIsAccurate, Cached,
     Returned, Finish, objects, system, Captures, PollToCome
<1> QED
  BY <1>1, <1>2, <1>3, <1>4, <1>5, <1>6, <1>7 DEF IInv

\* AnalysisRaises keeps the invariant.
LEMMA AnalysisRaisesKeeps == ASSUME IInv, AnalysisRaises PROVE IInv'
<1>0. M \in Nat /\ 1 \in Captures /\ i \in Captures /\ MaxFaults \in Nat
  BY CaptureAssumption DEF CaptureAssumption, Captures, IInv, TypeOK
<1>8. pc \in {"stop"} \union InHand /\ caller \in Callers
  BY DEF AnalysisRaises, IInv, Calls, InHand
<1>9. Raised
  BY <1>8, Raising DEF AnalysisRaises
<1>1. TypeOK'
  BY <1>0, <1>8, <1>9 DEF IInv, TypeOK, AnalysisRaises, Raised, Goto, Finish,
     Fault, objects, system, Callers, Points
<1>2. Before'
  BY <1>0, <1>8, <1>9 DEF IInv, Before, Raised, Goto, Finish
<1>3. Calls'
  BY <1>0, <1>8, <1>9 DEF IInv, TypeOK, Calls, AnalysisRaises, Raised, Goto,
     Finish, Fault, objects, Captures, Callers, InHand
<1>4. Closing'
  BY <1>0, <1>8, <1>9 DEF IInv, Closing, AnalysisRaises, Raised, Goto, Finish,
     objects, system, InHand, Closed
<1>5. Judged'
  BY <1>0, <1>8, <1>9 DEF IInv, Judged, Raised, Finish, None
<1>6. Ended'
  BY <1>0, <1>8, <1>9 DEF IInv, TypeOK, Calls, Ended, AnalysisRaises, Raised,
     Goto, Finish, Fault
<1>7. MeasurementIsAccurate'
  BY <1>0, <1>8, <1>9 DEF IInv, MeasurementIsAccurate, AnalysisRaises, Raised,
     Finish, objects, system
<1> QED
  BY <1>1, <1>2, <1>3, <1>4, <1>5, <1>6, <1>7 DEF IInv

\* Three actions give a result: the one the capture had, that it was not started,
\* or that of the analysis.
LEMMA ConclusionKeeps ==
  ASSUME IInv, pc \in {"stop", "analyse"}, setResult = None,
         NEW r \in Verdicts, Conclude(r), Closed(i),
         pc = "stop" => r = result[i] \/ tcpdump[i] = "absent",
         pc = "analyse" => (r = "unexpected_exit" <=> unexpected = TRUE),
         UNCHANGED <<dead, unexpected, file, system, faults>>
  PROVE  IInv'
<1>0. M \in Nat /\ 1 \in Captures /\ i \in Captures /\ MaxFaults \in Nat
  BY CaptureAssumption DEF CaptureAssumption, Captures, IInv, TypeOK
<1>8. caller \in Callers /\ outcome = None
  BY DEF IInv, Calls, InHand
<1>9. /\ result' = [result EXCEPT ![i] = r]
      /\ \/ /\ i # M /\ Goto("stop", i + 1)
            /\ UNCHANGED <<caller, outcome, setResult>>
         \/ /\ i = M /\ Returned
            /\ setResult' \in {"valid", "invalid"}
            /\ setResult' = "valid" =>
                 \A c \in Captures : result'[c] # "unexpected_exit"
  BY <1>8, Concluding DEF IInv
<1>10. caller = "stop_capture" =>
         (r = "unexpected_exit" <=> i \in early) /\ pc = "analyse"
  <2> SUFFICES ASSUME caller = "stop_capture"
               PROVE  (r = "unexpected_exit" <=> i \in early) /\ pc = "analyse"
    OBVIOUS
  <2>1. pc # "stop"
    <3> SUFFICES ASSUME pc = "stop" PROVE FALSE
      OBVIOUS
    <3>1. PollToCome(i)
      BY <1>0 DEF PollToCome, Captures
    <3> QED
      BY <1>0, <3>1 DEF IInv, Judged, Verdicts, None
  <2> QED
    BY <2>1 DEF IInv, Judged, InHand
<1>1. TypeOK'
  BY <1>0, <1>8, <1>9, <1>10 DEF IInv, TypeOK, Captures, Callers, Points,
     Returned, Goto, Finish, system
<1>2. Before'
  BY <1>0, <1>8, <1>9, <1>10 DEF IInv, Before, Captures, Returned, Goto,
     Finish, system
<1>3. Calls'
  BY <1>0, <1>8, <1>9, <1>10 DEF IInv, TypeOK, Calls, Captures, None, Callers,
     InHand, Verdicts, Returned, Goto, Finish
<1>4. Closing'
  BY <1>0, <1>8, <1>9, <1>10 DEF IInv, TypeOK, Calls, Closing, Captures, None,
     InHand, Closed, Verdicts, Returned, Goto, Finish, system
<1>5. Judged'
  BY <1>0, <1>8, <1>9, <1>10 DEF IInv, TypeOK, Judged, Captures, InHand,
     PollToCome, Returned, Goto, Finish, system
<1>6. Ended'
  BY <1>0, <1>8, <1>9, <1>10 DEF IInv, TypeOK, Calls, Ended, Captures, None,
     InHand, Verdicts, Returned, Goto, Finish
<1>7. MeasurementIsAccurate'
  BY <1>0, <1>8, <1>9, <1>10 DEF IInv, TypeOK, Judged, MeasurementIsAccurate,
     Captures, None, InHand, Returned, Finish, system
<1> QED
  BY <1>1, <1>2, <1>3, <1>4, <1>5, <1>6, <1>7 DEF IInv

\* Stopped keeps the invariant.
LEMMA StoppedKeeps == ASSUME IInv, Stopped PROVE IInv'
<1>1. i \in Captures /\ result[i] \in Verdicts /\ Closed(i)
  BY DEF IInv, TypeOK, Stopped, HasResult, Verdicts, None, Closing
<1> QED
  BY <1>1, ConclusionKeeps DEF Stopped

\* NotStarted keeps the invariant.
LEMMA NotStartedKeeps == ASSUME IInv, NotStarted PROVE IInv'
<1>1. i \in Captures /\ "not_started" \in Verdicts /\ Closed(i)
  BY DEF IInv, TypeOK, NotStarted, Verdicts, Closing, Closed
<1> QED
  BY <1>1, ConclusionKeeps DEF NotStarted

\* Analyse keeps the invariant.
LEMMA AnalyseKeeps == ASSUME IInv, Analyse PROVE IInv'
<1>1. setResult = None /\ Closed(i) /\ unexpected \in BOOLEAN
  BY DEF IInv, TypeOK, Analyse, Calls, InHand, Closing, Closed
<1>2. PICK analysis \in {"observed", "not_observed", "unreadable"} :
        Conclude(IF unexpected THEN "unexpected_exit" ELSE analysis)
  BY DEF Analyse
<1>3. CASE unexpected = TRUE
  <2>1. Conclude("unexpected_exit")
    BY <1>2, <1>3
  <2> QED
    BY <1>1, <1>3, <2>1, ConclusionKeeps DEF Analyse, Verdicts
<1>4. CASE unexpected = FALSE
  <2>1. Conclude(analysis)
    BY <1>2, <1>4
  <2> QED
    BY <1>1, <1>2, <1>4, <2>1, ConclusionKeeps DEF Analyse, Verdicts
<1> QED
  BY <1>1, <1>3, <1>4

\* Exit keeps the invariant.
LEMMA ExitKeeps == ASSUME IInv, NEW c \in Captures, Exit(c) PROVE IInv'
<1>0. M \in Nat /\ i \in Captures
  BY CaptureAssumption DEF CaptureAssumption, IInv, TypeOK
<1>1. TypeOK'
  BY <1>0 DEF IInv, TypeOK, Captures, PollToCome, Verdicts, Points, Exit,
     control, objects
<1>2. Before'
  BY <1>0 DEF IInv, TypeOK, Before, Captures, PollToCome, Exit, control, objects
<1>3. Calls'
  BY <1>0 DEF IInv, Calls, Captures, InHand, PollToCome, Exit, control, objects
<1>4. Closing'
  BY <1>0 DEF IInv, Closing, Captures, InHand, Closed, PollToCome, Exit,
     control, objects
<1>5. Judged'
  BY <1>0 DEF IInv, TypeOK, Judged, Captures, InHand, PollToCome, Exit,
     control, objects
<1>6. Ended'
  BY <1>0 DEF IInv, Ended, Captures, PollToCome, Exit, control, objects
<1>7. MeasurementIsAccurate'
  <2> SUFFICES ASSUME outcome = "measured" PROVE MeasurementIsAccurate'
    BY DEF MeasurementIsAccurate, Exit, control
  <2>1. early' = early
    BY DEF IInv, Ended, Exit, PollToCome
  <2>2. \A k \in Captures : tcpdump[k] # "absent" => tcpdump'[k] # "absent"
    BY DEF IInv, TypeOK, Exit
  <2> QED
    BY <2>1, <2>2 DEF IInv, MeasurementIsAccurate, Exit, control, objects
<1> QED
  BY <1>1, <1>2, <1>3, <1>4, <1>5, <1>6, <1>7 DEF IInv

\* No step breaks the invariant.
LEMMA NextIInv == ASSUME IInv, [Next]_vars PROVE IInv'
<1>1. ASSUME UNCHANGED vars PROVE IInv'
  BY <1>1 DEF vars, control, objects, system, IInv, TypeOK, Before, Calls,
     Closing, Judged, Ended, MeasurementIsAccurate, Closed, PollToCome
<1> QED
  BY <1>1, StartCaptureKeeps, StartRaisesKeeps, CheckStartedKeeps,
     ProtocolReturnsKeeps, ProtocolRaisesKeeps, CachedKeeps, StoppedKeeps,
     NotStartedKeeps,
     PollAndInterruptKeeps, ExitedKeeps, TimesOutKeeps, AnalyseKeeps,
     AnalysisRaisesKeeps, ExitKeeps DEF Next, Step, Done

\* The invariant holds for any number of captures and of exceptions.
THEOREM Invariance == Spec => []IInv
<1> QED
  BY InitIInv, NextIInv, PTL DEF Spec

\* The variables keep their types.
THEOREM TypeCorrect == Spec => []TypeOK
<1>1. IInv => TypeOK
  BY DEF IInv
<1> QED
  BY <1>1, Invariance, PTL

\* The measurement says of every tcpdump whether it died before its stop, and a
\* valid one covers the protocol, however many captures there are and however
\* many exceptions hit the run.
THEOREM MeasurementAccurate == Spec => []MeasurementIsAccurate
<1>1. IInv => MeasurementIsAccurate
  BY DEF IInv
<1> QED
  BY <1>1, Invariance, PTL

\* One exception at most leaves no tcpdump running and no PCAP open.
THEOREM NoneLeftRunning == ASSUME MaxFaults <= 1 PROVE Spec => []AllStopped
<1>1. IInv => AllStopped
  BY CaptureAssumption DEF CaptureAssumption, IInv, TypeOK, Ended, Closing,
     Closed, AllStopped
<1> QED
  BY <1>1, Invariance, PTL
-----------------------------------------------------------------------------
(* The steps of run.py's thread are counted.                               *)

\* How many steps the captures have at most left: five for each that the present
\* call of CaptureSet.stop has still to stop, and as many for the call that may follow.
Remaining ==
  LET InThisCall == 5 * (M - i)
      NextCall   == IF caller \in {"dead", "stop_capture"} THEN 5 * M ELSE 0
  IN CASE pc = "done"      -> 0
       [] pc = "analyse"   -> NextCall + InThisCall + 1
       [] pc = "wait_kill" -> NextCall + InThisCall + 2
       [] pc = "wait_term" -> NextCall + InThisCall + 3
       [] pc = "wait_int"  -> NextCall + InThisCall + 4
       [] pc = "stop"      -> NextCall + InThisCall + 5
       [] pc = "protocol"  -> 10 * M + 1
       [] pc = "check"     -> 10 * M + 2 + (M - i)
       [] pc = "start"     -> 11 * M + 2 + (M - i)

\* At no point are more than 12 M + 1 steps left.
RemainingIsBounded == Remaining \in 0..(12 * M + 1)

\* Each step of the thread uses up one at least; a tcpdump that exits gives none back.
EachStepCounts ==
  [][ /\ Step => Remaining' < Remaining
      /\ \A c \in Captures : Exit(c) => Remaining' = Remaining ]_vars

\* The count is within its bound wherever the loops are within theirs.
LEMMA RemainingIs == TypeOK => RemainingIsBounded
<1> SUFFICES ASSUME TypeOK PROVE RemainingIsBounded
  OBVIOUS
<1>1. M \in Nat \ {0} /\ i \in 1..M
  BY CaptureAssumption, Zenon DEF CaptureAssumption, TypeOK, Captures
<1>2. Remaining \in Int
  BY <1>1 DEF TypeOK, Points, Remaining
<1>3. 0 <= Remaining
  BY <1>1 DEF TypeOK, Points, Remaining
<1>4. Remaining <= 12 * M + 1
  BY <1>1 DEF TypeOK, Points, Remaining
<1> QED
  BY <1>1, <1>2, <1>3, <1>4 DEF RemainingIsBounded

\* Leaving a call of CaptureSet.stop uses up what it had left, since only a call that
\* may be followed by another is.
LEMMA LeavingLowers ==
  ASSUME TypeOK, pc \in {"stop"} \union InHand, Returned \/ Raised
  PROVE  Remaining' < Remaining
<1>1. M \in Nat \ {0} /\ i \in 1..M
  BY CaptureAssumption DEF CaptureAssumption, TypeOK, Captures
<1>2. \/ pc' = "done"
      \/ caller \in {"dead", "stop_capture"} /\ pc' = "stop" /\ i' = 1
         /\ caller' \in {"except", "cleanup"}
  BY DEF Returned, Raised, Goto, Finish
<1> DEFINE next == IF caller \in {"dead", "stop_capture"} THEN 5 * M ELSE 0
<1>3. next \in Nat
  BY <1>1
<1>4. Remaining \in Int /\ next < Remaining
  <2> HIDE DEF next
  <2>1. \E k \in 1..5 : Remaining = next + 5 * (M - i) + k
    BY DEF Remaining, InHand, next
  <2> QED
    BY <1>1, <1>3, <2>1
<1>5. CASE pc' = "done"
  <2>1. Remaining' = 0
    BY <1>5 DEF Remaining
  <2>2. 0 <= next
    BY <1>3
  <2> HIDE DEF next, Remaining
  <2> QED
    BY <1>3, <1>4, <2>1, <2>2
<1>6. CASE caller \in {"dead", "stop_capture"} /\ pc' = "stop" /\ i' = 1
           /\ caller' \in {"except", "cleanup"}
  <2>1. Remaining' = 5 * M /\ next = 5 * M
    BY <1>1, <1>6 DEF Remaining
  <2> QED
    BY <1>1, <1>4, <2>1
<1> QED
  BY <1>2, <1>5, <1>6

\* Each step up to the first call of CaptureSet.stop uses up one.
LEMMA StartingLowers ==
  ASSUME TypeOK, \/ StartCapture \/ StartRaises \/ CheckStarted
                 \/ ProtocolReturns \/ ProtocolRaises
  PROVE  Remaining' < Remaining
<1>1. M \in Nat \ {0} /\ i \in 1..M
  BY CaptureAssumption DEF CaptureAssumption, TypeOK, Captures
<1>2. \/ pc = "start" /\ pc' = "start" /\ i' = i + 1
      \/ pc = "start" /\ pc' = "check" /\ i' = 1
      \/ pc = "check" /\ pc' = "check" /\ i' = i + 1
      \/ pc = "check" /\ pc' = "protocol"
      \/ pc \in {"start", "check", "protocol"} /\ pc' = "stop" /\ i' = 1
  BY DEF StartCapture, StartRaises, CheckStarted, ProtocolReturns, ProtocolRaises,
         CallStop, Goto
<1> QED
  BY <1>1, <1>2 DEF Remaining

\* So does each step of a call: a capture takes at most five.
LEMMA StoppingLowers ==
  ASSUME IInv, \/ Cached \/ Stopped \/ NotStarted \/ PollAndInterrupt
               \/ Exited \/ TimesOut \/ Analyse \/ AnalysisRaises
  PROVE  Remaining' < Remaining
<1>1. M \in Nat \ {0} /\ i \in 1..M /\ TypeOK
  BY CaptureAssumption DEF CaptureAssumption, IInv, TypeOK, Captures
<1>2. pc \in {"stop"} \union InHand /\ caller \in Callers
  <2>1. pc \in {"stop", "wait_int", "wait_term", "wait_kill", "analyse"}
    BY Zenon DEF Cached, Stopped, NotStarted, PollAndInterrupt, Exited, TimesOut, Analyse,
           AnalysisRaises
  <2> QED
    BY <2>1 DEF IInv, Calls, InHand
<1>3. CASE Cached \/ AnalysisRaises
  <2>1. StopReturns \/ StopRaises
    BY <1>3, Zenon DEF Cached, AnalysisRaises
  <2> QED
    BY <1>1, <1>2, <2>1, Returning, Raising, LeavingLowers
<1>4. CASE Stopped \/ NotStarted \/ Analyse
  <2>1. PICK r : Conclude(r)
    BY <1>4, Zenon DEF Stopped, NotStarted, Analyse
  <2>2. \/ i # M /\ pc' = "stop" /\ i' = i + 1 /\ caller' = caller
        \/ StopReturns
    BY <2>1, Zenon DEF Conclude, Last, Goto
  <2>3. CASE StopReturns
    BY <1>1, <1>2, <2>3, Returning, LeavingLowers
  <2>4. CASE i # M /\ pc' = "stop" /\ i' = i + 1 /\ caller' = caller
    <3>1. pc \in {"stop", "analyse"}
      BY <1>4, Zenon DEF Stopped, NotStarted, Analyse
    <3> QED
      BY <1>1, <2>4, <3>1 DEF Remaining
  <2> QED
    BY <2>2, <2>3, <2>4
<1>5. CASE PollAndInterrupt \/ Exited \/ TimesOut
  <2>1. /\ i' = i /\ caller' = caller
        /\ \/ pc = "stop" /\ pc' = "wait_int"
           \/ pc \in {"wait_int", "wait_term", "wait_kill"} /\ pc' = "analyse"
           \/ pc = "wait_int" /\ pc' = "wait_term"
           \/ pc = "wait_term" /\ pc' = "wait_kill"
    BY <1>5, Zenon DEF PollAndInterrupt, Exited, TimesOut, Goto
  <2> QED
    BY <1>1, <2>1 DEF Remaining
<1> QED
  BY <1>3, <1>4, <1>5

\* However many exceptions there are, the captures are started and stopped in at
\* most 12 M + 1 steps: CaptureSet.stop is called at most twice, and no loop starts
\* again, so that a run can only fail to end by waiting for a tcpdump.
THEOREM StepsAreBounded == Spec => []RemainingIsBounded /\ EachStepCounts
<1> DEFINE NoGain  == \A c \in Captures : Exit(c) => Remaining' = Remaining
           Counts == (Step => Remaining' < Remaining) /\ NoGain
<1>1. IInv => TypeOK
  BY DEF IInv
<1>2. ASSUME IInv PROVE Step => Remaining' < Remaining
  BY <1>1, <1>2, StartingLowers, StoppingLowers DEF Step
<1>3. NoGain
  BY DEF Exit, control, Remaining
<1>4. IInv /\ [Next]_vars => [Counts]_vars
  BY <1>2, <1>3, Zenon
<1> QED
  BY <1>1, <1>4, RemainingIs, Invariance, PTL DEF Spec, EachStepCounts
=============================================================================
