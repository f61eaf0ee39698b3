----------------------------- MODULE MeshProofs -----------------------------
(***************************************************************************)
(* Proofs about Mesh, for any number of receivers, any delays and any      *)
(* timeouts, finite or not.                                                *)
(***************************************************************************)
EXTENDS Mesh, TLAPS

\* A receiver is pending until it answers.
Waiting == answered = Receivers \ pending

\* A round pings receivers; a flush goes from node 0 to node N and has no
\* receiver left to wait for.
Places ==
  /\ pc = "ping" => i \in Receivers
  /\ pc = "flush" => pending = {} /\ arp \subseteq (i..N) \union unflushed
  /\ pc = "ready" => pending = {} /\ arp \subseteq unflushed
  /\ pc = "failed" => pending # {} /\ Late

\* Each ping of a round adds at most PingWait to what was less than the
\* deadline and a pause when the round began.
Spent ==
  Finite(timeout) =>
    now < timeout.num + Pause + PingWait * (IF pc = "ping" THEN i - 1 ELSE N)

IInv == TypeOK /\ Waiting /\ Places /\ Spent

\* A finite timeout that the configuration accepts is a positive integer.
LEMMA FiniteTimeout ==
  ASSUME NEW v \in Accepted, Finite(v)
  PROVE  v.num \in Int /\ v.num > 0
<1>1. PICK n \in Seconds : v = Num(n)
  <2>1. v \in {Num(n) : n \in Seconds} \union {Inf, NegInf, NaN, Huge, Null}
    BY DEF Accepted
  <2>2. /\ Inf.type = "inf" /\ NegInf.type = "inf" /\ NaN.type = "nan"
        /\ Huge.type = "huge" /\ Null.type = "null"
    BY SMT DEF Inf, NegInf, NaN, Huge, Null, Value
  <2>3. v \notin {Inf, NegInf, NaN, Huge, Null}
    BY <2>2 DEF Finite
  <2> QED
    BY <2>1, <2>3
<1>2. v.type = "int" /\ v.num = n /\ n \in Int
  BY <1>1, MeshAssumption DEF MeshAssumption, Num, Value
<1>3. PositiveFloat(v) = "ok"
  BY DEF Accepted, Accepts
<1>4. ~AtMost(v, 0)
  <2> DEFINE checks == <<RequireNumber(v), Unless(~AtMost(v, 0), "ConfigError")>>
             bad    == {k \in DOMAIN checks : checks[k] # "ok"}
  <2> SUFFICES ASSUME AtMost(v, 0) PROVE FALSE
    OBVIOUS
  <2>1. RequireNumber(v) = "ok"
    BY <1>2 DEF RequireNumber, Unless
  <2>2. checks[1] = "ok" /\ checks[2] = "ConfigError" /\ DOMAIN checks = {1, 2}
    BY <2>1 DEF Unless
  <2>3. bad = {2}
    BY <2>2
  <2>4. (CHOOSE k \in bad : \A j \in bad : k <= j) = 2
    BY <2>3
  <2>5. First(checks) = "ConfigError"
    BY <2>2, <2>3, <2>4 DEF First
  <2> QED
    BY <1>3, <2>5 DEF PositiveFloat
<1> QED
  BY <1>2, <1>4 DEF AtMost

\* The rounds of pings grow with the receivers.
LEMMA Rounds ==
  ASSUME NEW k \in Receivers
  PROVE  /\ PingWait * (k - 1) \in Nat /\ PingWait * N \in Nat
         /\ PingWait * (k - 1) + PingWait = PingWait * k
         /\ PingWait * k <= PingWait * N
<1>1. /\ k \in Int /\ N \in Int /\ PingWait \in Nat
      /\ 1 <= k /\ 0 <= N - k
  BY MeshAssumption DEF MeshAssumption, Receivers
<1>2. PingWait * (k - 1) \in Nat /\ PingWait * (N - k) \in Nat
  BY <1>1
<1>3. PingWait * N \in Nat
  BY <1>1
<1>4. PingWait * (k - 1) + PingWait = PingWait * k
  BY <1>1
<1>5. PingWait * N = PingWait * k + PingWait * (N - k)
  BY <1>1
<1> QED
  BY <1>1, <1>2, <1>3, <1>4, <1>5

\* The invariant holds at first.
LEMMA InitIInv == Init => IInv
<1> SUFFICES ASSUME Init PROVE IInv
  OBVIOUS
<1>1. TypeOK /\ Waiting /\ Places
  BY MeshAssumption DEF MeshAssumption, Init, TypeOK, Waiting, Places, Receivers, Nodes
<1>2. Spent
  BY FiniteTimeout, MeshAssumption DEF MeshAssumption, Init, Spent
<1> QED
  BY <1>1, <1>2 DEF IInv

\* What a ping that takes d does to the clock, whoever it is for.
LEMMA PingSpends ==
  ASSUME IInv, pc = "ping", NEW d \in 0..PingWait, NextPing,
         now' = (IF Finite(timeout) THEN now + d ELSE now), timeout' = timeout
  PROVE  now' \in Nat /\ Spent'
<1>1. i \in Receivers /\ now \in Nat /\ d \in Nat /\ d <= PingWait
  BY MeshAssumption DEF MeshAssumption, IInv, TypeOK, Places
<1>2. now' \in Nat
  BY <1>1
<1>3. ASSUME Finite(timeout)
      PROVE  now' < timeout.num + Pause + PingWait * i
  BY <1>1, <1>3, Rounds, FiniteTimeout, MeshAssumption
     DEF MeshAssumption, IInv, Spent, TypeOK
<1>4. pc' = "ping" => i' - 1 = i
  BY <1>1, MeshAssumption DEF MeshAssumption, NextPing, Goto, Receivers
<1>5. pc' # "ping" => i = N
  BY <1>1, MeshAssumption DEF MeshAssumption, NextPing, Goto, Receivers
<1>6. Finite(timeout) =>
        now' < timeout.num + Pause + PingWait * (IF pc' = "ping" THEN i' - 1 ELSE N)
  BY <1>3, <1>4, <1>5
<1> QED
  BY <1>2, <1>6 DEF Spent, Finite

\* Every step keeps the invariant.
LEMMA NextIInv ==
  ASSUME IInv, [Next]_vars
  PROVE  IInv'
<1> USE DEF IInv
<1>0. /\ N \in Nat /\ N >= 1 /\ Pause \in Nat /\ Pause > 0 /\ PingWait \in Nat
      /\ now \in Nat /\ 1 \in Receivers /\ PingWait * N \in Nat
  <2>1. 1 \in Receivers
    BY MeshAssumption DEF MeshAssumption, Receivers
  <2> QED
    BY <2>1, Rounds, MeshAssumption DEF MeshAssumption, TypeOK
<1>1. CASE Answered
  <2>1. now' \in Nat /\ Spent'
    BY <1>1, PingSpends DEF Answered, Spend
  <2>2. i \in Receivers /\ pending' = pending \ {i}
    BY <1>1 DEF Answered, Places
  <2>3. TypeOK'
    BY <1>0, <1>1, <2>1, <2>2
       DEF Answered, NextPing, Goto, TypeOK, Receivers, Nodes, Sender
  <2>4. Waiting'
    BY <1>1, <2>2 DEF Answered, Waiting
  <2>5. Places'
    BY <1>0, <1>1, <2>2 DEF Answered, NextPing, Goto, Places, Receivers
  <2> QED
    BY <2>1, <2>3, <2>4, <2>5
<1>2. CASE NotAnswered
  <2>1. now' \in Nat /\ Spent'
    BY <1>2, PingSpends DEF NotAnswered, Spend
  <2>2. i \in Receivers
    BY <1>2 DEF NotAnswered, Places
  <2>3. TypeOK'
    BY <1>0, <1>2, <2>1, <2>2
       DEF NotAnswered, NextPing, Goto, TypeOK, Receivers, Nodes, Sender
  <2>4. Waiting'
    BY <1>2 DEF NotAnswered, Waiting
  <2>5. Places'
    BY <1>0, <1>2, <2>2 DEF NotAnswered, NextPing, Goto, Places, Receivers
  <2> QED
    BY <2>1, <2>3, <2>4, <2>5
<1>3. CASE AlreadyAnswered
  <2>1. now' = (IF Finite(timeout) THEN now + 0 ELSE now) /\ 0 \in 0..PingWait
    BY <1>0, <1>3 DEF AlreadyAnswered
  <2>2. Spent'
    BY <1>3, <2>1, PingSpends DEF AlreadyAnswered
  <2>3. i \in Receivers
    BY <1>3 DEF AlreadyAnswered, Places
  <2>4. TypeOK' /\ Waiting' /\ Places'
    BY <1>0, <1>3, <2>3
       DEF AlreadyAnswered, NextPing, Goto, TypeOK, Waiting, Places, Receivers, Nodes
  <2> QED
    BY <2>2, <2>4
<1>4. CASE AllAnswered
  <2>1. TypeOK' /\ Waiting' /\ Places'
    BY <1>0, <1>4 DEF AllAnswered, Goto, TypeOK, Waiting, Places, Nodes
  <2>2. Spent'
    BY <1>4 DEF AllAnswered, Goto, Spent, Finite
  <2> QED
    BY <2>1, <2>2
<1>5. CASE NotReady
  <2>1. TypeOK' /\ Waiting' /\ Places'
    BY <1>0, <1>5 DEF NotReady, Goto, TypeOK, Waiting, Places, Nodes, Late, Finite
  <2>2. Spent'
    BY <1>5 DEF NotReady, Goto, Spent, Finite
  <2> QED
    BY <2>1, <2>2
<1>6. CASE Sleep
  <2>1. now' \in Nat
    BY <1>0, <1>6 DEF Sleep, Spend
  <2>2. TypeOK' /\ Waiting' /\ Places'
    BY <1>0, <1>6, <2>1 DEF Sleep, Goto, TypeOK, Waiting, Places, Nodes, Receivers
  <2>3. Finite(timeout) => now' < timeout.num + Pause
    BY <1>0, <1>6, FiniteTimeout DEF Sleep, Spend, Late, TypeOK
  <2>4. i' - 1 = 0 /\ pc' = "ping" /\ timeout' = timeout /\ PingWait * 0 = 0
    BY <1>0, <1>6 DEF Sleep, Goto
  <2>5. Finite(timeout) =>
          now' < timeout.num + Pause + PingWait * (IF pc' = "ping" THEN i' - 1 ELSE N)
    BY <1>0, <2>3, <2>4, FiniteTimeout DEF TypeOK
  <2> QED
    BY <2>2, <2>4, <2>5 DEF Spent, Finite
<1>7. CASE Flush
  <2>1. TypeOK'
    <3>1. i' \in Nodes /\ pc' \in {"flush", "ready"}
      BY <1>0, <1>7 DEF Flush, Goto, TypeOK, Nodes
    <3>2. arp' \subseteq Nodes /\ unflushed' \subseteq Nodes
      BY <1>7 DEF Flush, TypeOK
    <3> QED
      BY <1>7, <3>1, <3>2 DEF Flush, TypeOK
  <2>2. Waiting' /\ pending' = {} /\ i \in Nat /\ i <= N
    BY <1>0, <1>7 DEF Flush, Waiting, Places, TypeOK, Nodes
  <2>3. arp' \ {i} \subseteq (i..N) \union unflushed' /\ (i \in arp' => i \in unflushed')
    BY <1>7 DEF Flush, Places
  <2>4. i..N \subseteq {i} \union (i + 1)..N /\ (i >= N => i..N \subseteq {i})
    BY <1>0, <2>2
  <2>5. \/ i < N /\ pc' = "flush" /\ i' = i + 1
        \/ i >= N /\ pc' = "ready"
    BY <1>0, <1>7, <2>2 DEF Flush, Goto
  <2>6. pc' = "flush" => pending' = {} /\ arp' \subseteq (i'..N) \union unflushed'
    <3>1. i < N => arp' \subseteq ((i + 1)..N) \union unflushed'
      BY <2>3, <2>4
    <3> QED
      BY <2>2, <2>5, <3>1
  <2>7. pc' = "ready" => pending' = {} /\ arp' \subseteq unflushed'
    <3>1. i >= N => arp' \subseteq unflushed'
      BY <2>3, <2>4
    <3> QED
      BY <2>2, <2>5, <3>1
  <2>8. Spent'
    BY <1>7 DEF Flush, Goto, Spent, Finite
  <2> QED
    BY <2>1, <2>2, <2>5, <2>6, <2>7, <2>8 DEF Places
<1>8. CASE Move
  <2>1. TypeOK' /\ Waiting' /\ Places'
    BY <1>8 DEF Move, TypeOK, Waiting, Places, Late, Finite
  <2>2. Spent'
    BY <1>8 DEF Move, Spent, Finite
  <2> QED
    BY <2>1, <2>2
<1>9. CASE UNCHANGED vars
  BY <1>9 DEF vars, TypeOK, Waiting, Places, Spent, Late, Finite
<1> QED
  BY <1>1, <1>2, <1>3, <1>4, <1>5, <1>6, <1>7, <1>8, <1>9 DEF Next, Step

\* The invariant holds for any number of receivers, pings of any length and
\* every timeout the configuration accepts.
THEOREM Invariance == Spec => []IInv
<1> QED
  BY InitIInv, NextIInv, PTL DEF Spec

\* The variables keep their types.
THEOREM TypeCorrect == Spec => []TypeOK
<1>1. IInv => TypeOK
  BY DEF IInv
<1> QED
  BY <1>1, Invariance, PTL

\* wait_for_network returns only when all receivers have answered and no node
\* has an entry of a ping left but where the flush failed; its error names the
\* receivers that have not answered.
THEOREM RightAnswer == Spec => []AnswerIsRight
<1>1. IInv => AnswerIsRight
  BY DEF IInv, TypeOK, Waiting, Places, AnswerIsRight
<1> QED
  BY <1>1, Invariance, PTL

\* The wait overruns a finite deadline by at most a pause and a round.
THEOREM WaitIsBounded == Spec => []BoundedWait
<1>1. IInv => BoundedWait
  <2> SUFFICES ASSUME IInv, Finite(timeout)
               PROVE  now < timeout.num + Pause + N * PingWait
    BY DEF BoundedWait
  <2>1. timeout.num \in Int /\ now \in Nat
    BY FiniteTimeout DEF IInv, TypeOK
  <2>2. N \in Nat /\ PingWait \in Nat /\ Pause \in Nat /\ N * PingWait = PingWait * N
    BY MeshAssumption DEF MeshAssumption
  <2>3. pc = "ping" => PingWait * (i - 1) <= PingWait * N /\ PingWait * (i - 1) \in Nat
    <3> SUFFICES ASSUME pc = "ping"
                 PROVE  PingWait * (i - 1) <= PingWait * N /\ PingWait * (i - 1) \in Nat
      OBVIOUS
    <3>1. i \in Receivers
      BY DEF IInv, Places
    <3>2. PingWait * i \in Nat
      BY <2>2, <3>1 DEF Receivers
    <3> QED
      BY <2>2, <3>1, <3>2, Rounds
  <2>4. PingWait * N \in Nat
    BY <2>2
  <2> QED
    BY <2>1, <2>2, <2>3, <2>4 DEF IInv, Spent
<1> QED
  BY <1>1, Invariance, PTL
=============================================================================
