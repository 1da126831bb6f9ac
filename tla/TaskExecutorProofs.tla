------------------------- MODULE TaskExecutorProofs -------------------------
(* Machine-checked properties of TaskExecutor, for every set of tasks, every *)
(* number of gateway sockets and every MaxConcurrent, and of TaskRestart for  *)
(* every number of restarts.                                                 *)
EXTENDS TaskRestart, FiniteSetTheorems, SequenceTheorems, TLAPS

-----------------------------------------------------------------------------
(* Lemmas on the queue operations the executor is built from.              *)

\* A permutation of a finite set lists its elements, each once.
LEMMA PermutationOf ==
  ASSUME NEW S, IsFiniteSet(S), NEW q \in SetToSeqs(S)
  PROVE  /\ q \in Seq(S)
         /\ ToSet(q) = S
         /\ IsInjective(q)
PROOF
<1> DEFINE n == Cardinality(S)
<1>1. n \in Nat
  BY FS_CardinalityType
<1>2. /\ q \in [1 .. n -> S]
      /\ \A i, j \in 1 .. n : i # j => q[i] # q[j]
  BY DEF SetToSeqs
<1>3. q \in Injection(1 .. n, S)
  BY <1>2 DEF Injection, IsInjective
<1>4. Cardinality(1 .. n) = n
  BY <1>1, FS_Interval
<1>5. q \in Surjection(1 .. n, S)
  BY <1>3, <1>4, FS_Injection
<1>6. ToSet(q) = S
  BY <1>2, <1>5 DEF ToSet, Surjection
<1>7. q \in Seq(S)
  BY <1>1, <1>2
<1> QED BY <1>2, <1>6, <1>7 DEF IsInjective

\* What push() does to the queue.
LEMMA Pushed ==
  ASSUME NEW S, NEW q \in Seq(S), NEW e \in S
  PROVE  /\ Append(q, e) \in Seq(S)
         /\ Append(q, e) # <<>>
         /\ ToSet(Append(q, e)) = ToSet(q) \cup {e}
         /\ IsInjective(q) /\ e \notin ToSet(q) => IsInjective(Append(q, e))
PROOF
<1>1. /\ Append(q, e) \in Seq(S) /\ Append(q, e) # <<>>
      /\ Len(Append(q, e)) = Len(q) + 1
      /\ \A i \in 1 .. Len(q) : Append(q, e)[i] = q[i]
      /\ Append(q, e)[Len(q) + 1] = e
  BY AppendProperties
<1>2. /\ Len(q) \in Nat /\ DOMAIN q = 1 .. Len(q)
      /\ DOMAIN Append(q, e) = 1 .. Len(q) + 1
  BY <1>1, LenProperties
<1>3. ToSet(Append(q, e)) = ToSet(q) \cup {e}
  BY <1>1, <1>2 DEF ToSet
<1>4. ASSUME IsInjective(q), e \notin ToSet(q)
      PROVE  IsInjective(Append(q, e))
  BY <1>1, <1>2, <1>4 DEF IsInjective, ToSet
<1> QED BY <1>1, <1>3, <1>4

\* What shift() does to the queue.
LEMMA Shifted ==
  ASSUME NEW S, NEW q \in Seq(S), q # <<>>
  PROVE  /\ Head(q) \in S
         /\ Tail(q) \in Seq(S)
         /\ ToSet(q) = ToSet(Tail(q)) \cup {Head(q)}
         /\ IsInjective(q) => IsInjective(Tail(q)) /\ Head(q) \notin ToSet(Tail(q))
PROOF
<1>1. /\ Head(q) \in S /\ Tail(q) \in Seq(S)
      /\ Len(Tail(q)) = Len(q) - 1
      /\ \A i \in 1 .. Len(Tail(q)) : Tail(q)[i] = q[i+1]
  BY HeadTailProperties
<1>2. /\ Len(q) \in Nat \ {0} /\ DOMAIN q = 1 .. Len(q)
      /\ DOMAIN Tail(q) = 1 .. Len(q) - 1
      /\ Head(q) = q[1]
  BY <1>1, LenProperties, EmptySeq
<1>3. ToSet(q) = ToSet(Tail(q)) \cup {Head(q)}
  <2>1. ASSUME NEW x \in ToSet(q) PROVE x \in ToSet(Tail(q)) \cup {Head(q)}
    <3>1. PICK i \in 1 .. Len(q) : q[i] = x
      BY <1>2 DEF ToSet
    <3>2. CASE i = 1
      BY <1>2, <3>1, <3>2
    <3>3. CASE i # 1
      <4>1. i - 1 \in 1 .. Len(q) - 1 /\ Tail(q)[i - 1] = x
        BY <1>1, <1>2, <3>1, <3>3
      <4> QED BY <1>2, <4>1 DEF ToSet
    <3> QED BY <3>2, <3>3
  <2>2. ToSet(Tail(q)) \cup {Head(q)} \subseteq ToSet(q)
    BY <1>1, <1>2 DEF ToSet
  <2> QED BY <2>1, <2>2
<1>4. ASSUME IsInjective(q)
      PROVE  IsInjective(Tail(q)) /\ Head(q) \notin ToSet(Tail(q))
  BY <1>1, <1>2, <1>4 DEF IsInjective, ToSet
<1> QED BY <1>1, <1>3, <1>4

-----------------------------------------------------------------------------
(* Type correctness.                                                       *)

\* Every operation on the task table keeps the states in TaskState.
LEMMA StatesTyped ==
  ASSUME state \in [Tasks -> TaskState]
  PROVE  /\ \A t \in Tasks : Create(t) => state' \in [Tasks -> TaskState]
         /\ \A t \in Tasks, s \in TaskState : UpdateState(t, s) => state' \in [Tasks -> TaskState]
         /\ \A S \in SUBSET Tasks, s \in TaskState :
              UpdateStates(S, s) => state' \in [Tasks -> TaskState]
PROOF
<1>1. ASSUME NEW t \in Tasks, Create(t) PROVE state' \in [Tasks -> TaskState]
  BY <1>1 DEF Create, TaskState, Active, Terminal
<1>2. ASSUME NEW t \in Tasks, NEW s \in TaskState, UpdateState(t, s)
      PROVE  state' \in [Tasks -> TaskState]
  BY <1>2 DEF UpdateState
<1>3. ASSUME NEW S \in SUBSET Tasks, NEW s \in TaskState, UpdateStates(S, s)
      PROVE  state' \in [Tasks -> TaskState]
  BY <1>3 DEF UpdateStates
<1> QED BY <1>1, <1>2, <1>3

LEMMA InitTyped == Init => TypeOK
PROOF
<1> SUFFICES ASSUME Init PROVE TypeOK OBVIOUS
<1>1. IsFiniteSet({t \in Inbound : state[t] = "accepted"})
  BY InboundAssumption, ExecutorAssumption, FS_Subset
<1>2. queue \in Seq({t \in Inbound : state[t] = "accepted"})
  BY <1>1, PermutationOf DEF Init
<1>3. queue \in Seq(Tasks)
  BY <1>2, InboundAssumption, SeqMonotonic, {t \in Inbound : state[t] = "accepted"} \subseteq Tasks
<1>4. reports \in [Tasks -> Seq({"completed", "failed"})]
  BY DEF Init
<1> QED BY <1>3, <1>4 DEF Init, TypeOK, TaskState, Active, GwState

\* executeTask after its await, whichever way it went.
LEMMA StartTyped ==
  ASSUME TypeOK, NEW t \in Tasks, StartChat(t) \/ FailStart(t)
  PROVE  /\ state' \in [Tasks -> TaskState]
         /\ executing' \in SUBSET Tasks
         /\ chats' \in [Tasks -> Nat]
         /\ reports' \in [Tasks -> Seq({"completed", "failed"})]
PROOF
<1>1. state' \in [Tasks -> TaskState]
  <2>1. {"executing", "failed"} \subseteq TaskState
    BY DEF TaskState, Active, Terminal
  <2> QED BY <2>1, StatesTyped DEF TypeOK, StartChat, FailStart
<1>2. CASE StartChat(t)
  BY <1>1, <1>2 DEF TypeOK, StartChat
<1>3. CASE FailStart(t)
  BY <1>1, <1>3 DEF TypeOK, FailStart, Report
<1> QED BY <1>2, <1>3

LEMMA NextTyped == TypeOK /\ [Next]_vars => TypeOK'
PROOF
<1> SUFFICES ASSUME TypeOK, [Next]_vars PROVE TypeOK' OBVIOUS
<1> USE StatesTyped DEF drainVars, gwVars, wireVars, GwState
<1>0. \A t \in Tasks, s \in {"completed", "failed"} : 
         Report(t, s) => reports' \in [Tasks -> Seq({"completed", "failed"})]
  BY DEF TypeOK, Report
<1>a. {"executing", "failed", "timeout", "cancelled", "completed", "accepted", "rejected"} \subseteq TaskState
  BY DEF TaskState, Active, Terminal
<1>1. ASSUME NEW t \in Tasks, AcceptInbound(t) PROVE TypeOK'
  <2>1. queue' \in Seq(Tasks)
    <3>1. Append(queue, t) \in Seq(Tasks)
      BY Pushed DEF TypeOK
    <3> QED BY <1>1, <3>1 DEF TypeOK, AcceptInbound, Enqueue
  <2>2. state' \in [Tasks -> TaskState]
    BY <1>1 DEF TypeOK, AcceptInbound
  <2>3. /\ drainPc' \in {"idle", "loop", "await"} /\ drainTask' = drainTask /\ drainOn' = drainOn
        /\ drainPc' = "await" <=> drainPc = "await"
    BY <1>1 DEF TypeOK, AcceptInbound, Enqueue, KickDrain
  <2> QED BY <1>1, <2>1, <2>2, <2>3 DEF TypeOK, AcceptInbound
<1>2. ASSUME NEW t \in Tasks, ProposeOutbound(t) PROVE TypeOK'
  BY <1>2 DEF TypeOK, ProposeOutbound
<1>3. ASSUME NEW t \in Tasks, CancelTask(t) PROVE TypeOK'
  BY <1>a, <1>3 DEF TypeOK, CancelTask
<1>4. ASSUME NEW t \in Tasks, NEW s \in TaskState, PeerResponse(t, s) PROVE TypeOK'
  BY <1>4 DEF TypeOK, PeerResponse
<1>5. ASSUME NEW S \in SUBSET Tasks, TimeoutCheck(S) PROVE TypeOK'
  BY <1>a, <1>5 DEF TypeOK, TimeoutCheck
<1>6. CASE DrainLoop
  <2>1. CASE DrainExit
    BY <1>6, <2>1 DEF TypeOK, DrainLoop, DrainExit
  <2>2. CASE DrainSkip
    <3>1. Tail(queue) \in Seq(Tasks)
      BY <2>2, Shifted DEF TypeOK, DrainSkip, CanTake
    <3> QED BY <2>2, <3>1 DEF TypeOK, DrainSkip
  <2>3. CASE DrainRun
    <3>1. Head(queue) \in Tasks /\ Tail(queue) \in Seq(Tasks)
      BY <2>3, Shifted DEF TypeOK, DrainRun, CanTake
    <3>2. StartChat(Head(queue)) /\ queue' = Tail(queue) /\ UNCHANGED <<drainVars, gwVars, closed>>
      BY <2>3 DEF DrainRun
    <3> QED BY <3>1, <3>2, StartTyped DEF TypeOK
  <2>4. CASE DrainAwait
    <3>1. Head(queue) \in Tasks /\ Tail(queue) \in Seq(Tasks)
      BY <2>4, Shifted DEF TypeOK, DrainAwait, CanTake
    <3> QED BY <2>4, <3>1, ExecutorAssumption DEF TypeOK, DrainAwait, OpenSocket
  <2> QED BY <1>6, <2>1, <2>2, <2>3, <2>4 DEF DrainLoop
<1>7. ASSUME NEW c \in Conns, ConnectOk(c) PROVE TypeOK'
  <2>1. CASE Resumes(c)
    <3>1. drainTask \in Tasks /\ StartChat(drainTask)
      BY <1>7, <2>1 DEF TypeOK, ConnectOk, ResumeWith, Resumes
    <3> QED BY <1>7, <2>1, <3>1, StartTyped DEF TypeOK, ConnectOk, ResumeWith
  <2>2. CASE ~Resumes(c)
    BY <1>7, <2>2 DEF TypeOK, ConnectOk, ResumeWith
  <2> QED BY <2>1, <2>2
<1>8. ASSUME NEW c \in Conns, ConnectFail(c) PROVE TypeOK'
  <2>1. CASE Resumes(c)
    <3>1. drainTask \in Tasks /\ FailStart(drainTask)
      BY <1>8, <2>1 DEF TypeOK, ConnectFail, ResumeWith, Resumes
    <3> QED BY <1>8, <2>1, <3>1, StartTyped DEF TypeOK, ConnectFail, ResumeWith
  <2>2. CASE ~Resumes(c)
    BY <1>8, <2>2 DEF TypeOK, ConnectFail, ResumeWith
  <2> QED BY <2>1, <2>2
<1>9. ASSUME NEW c \in Conns, ConnectDropped(c) \/ SocketClosing(c) \/ SocketClosed(c) PROVE TypeOK'
  BY <1>9 DEF TypeOK, ConnectDropped, SocketClosing, SocketClosed
<1>10. ASSUME NEW t \in Tasks, NEW s \in {"completed", "failed"}, EndTask(t, s) PROVE TypeOK'
  BY <1>0, <1>a, <1>10 DEF TypeOK, EndTask, KickDrain
<1>11. CASE ReconnectFires
  BY <1>11 DEF TypeOK, ReconnectFires
<1>12. ASSUME NEW t \in Tasks, ExecTimeout(t) PROVE TypeOK'
  BY <1>0, <1>a, <1>12 DEF TypeOK, ExecTimeout, KickDrain
<1>13. CASE Close
  <2>1. state' \in [Tasks -> TaskState]
    BY <1>a, <1>13 DEF TypeOK, Close
  <2>2. sock' \in [Conns -> {"none", "handshake", "open", "closing"}]
    BY <1>13 DEF TypeOK, Close, GwUsable
  <2>3. queue' \in Seq(Tasks)
    BY <1>13 DEF TypeOK, Close
  <2> QED BY <1>13, <2>1, <2>2, <2>3 DEF TypeOK, Close
<1>14. CASE UNCHANGED vars
  BY <1>14 DEF TypeOK, vars
<1> QED BY <1>1, <1>2, <1>3, <1>4, <1>5, <1>6, <1>7, <1>8, <1>9, <1>10, <1>11, <1>12, <1>13, <1>14
     DEF Next, TaskTable, Gateway, GwFinal, GwError

\* Every state of the executor is well typed; in particular the drain holds a task
\* exactly while it is suspended in a handshake (executor.ts:339-357).
THEOREM TypeCorrect == Spec => []TypeOK
PROOF
<1> QED BY InitTyped, NextTyped, PTL DEF Spec

-----------------------------------------------------------------------------
(* The concurrency limit and the drain.                                    *)

\* What taking and giving back a slot does to executing.size.
LEMMA Slots ==
  ASSUME TypeOK
  PROVE  /\ Cardinality(executing) \in Nat
         /\ Cardinality({}) = 0
         /\ executing = {} => Cardinality(executing) = 0
         /\ \A t \in Tasks :
              /\ Cardinality(executing \cup {t}) \in Nat
              /\ Cardinality(executing \cup {t}) <= Cardinality(executing) + 1
              /\ Cardinality(executing \ {t}) \in Nat
              /\ Cardinality(executing \ {t}) <= Cardinality(executing)
PROOF
<1>1. IsFiniteSet(executing)
  BY ExecutorAssumption, FS_Subset DEF TypeOK
<1>2. Cardinality(executing) \in Nat /\ Cardinality({}) = 0
  BY <1>1, FS_CardinalityType, FS_EmptySet
<1>3. ASSUME NEW t \in Tasks
      PROVE  /\ Cardinality(executing \cup {t}) \in Nat
             /\ Cardinality(executing \cup {t}) <= Cardinality(executing) + 1
  <2>1. Cardinality(executing \cup {t}) =
          IF t \in executing THEN Cardinality(executing) ELSE Cardinality(executing) + 1
    BY <1>1, FS_AddElement
  <2> QED BY <1>2, <2>1
<1>4. ASSUME NEW t \in Tasks
      PROVE  /\ Cardinality(executing \ {t}) \in Nat
             /\ Cardinality(executing \ {t}) <= Cardinality(executing)
  <2>1. /\ IsFiniteSet(executing \ {t})
        /\ Cardinality(executing \ {t}) =
             IF t \in executing THEN Cardinality(executing) - 1 ELSE Cardinality(executing)
    BY <1>1, FS_RemoveElement
  <2>2. Cardinality(executing \ {t}) \in Nat
    BY <2>1, FS_CardinalityType
  <2> QED BY <1>2, <2>1, <2>2
<1> QED BY <1>2, <1>3, <1>4

\* A step that neither takes nor gives back a slot, ends no drain and starts no
\* await: every callback that only touches the task table or the sockets.
Uninvolved == UNCHANGED <<queue, executing, drainVars, closed>>

LEMMA UninvolvedSteps ==
  /\ \A t \in Tasks : ProposeOutbound(t) \/ CancelTask(t) => Uninvolved /\ UNCHANGED wireVars
  /\ \A t \in Tasks, s \in TaskState : PeerResponse(t, s) => Uninvolved /\ UNCHANGED wireVars
  /\ \A S \in SUBSET Tasks : TimeoutCheck(S) => Uninvolved /\ UNCHANGED wireVars
  /\ \A c \in Conns : ConnectDropped(c) \/ SocketClosing(c) \/ SocketClosed(c)
                        => Uninvolved /\ UNCHANGED <<state, wireVars>>
  /\ ReconnectFires => Uninvolved /\ UNCHANGED <<state, wireVars>>
  /\ UNCHANGED vars => Uninvolved /\ UNCHANGED <<state, wireVars>>
PROOF
<1>1. \A t \in Tasks : ProposeOutbound(t) \/ CancelTask(t) => Uninvolved /\ UNCHANGED wireVars
  BY DEF ProposeOutbound, CancelTask, Uninvolved
<1>2. \A t \in Tasks, s \in TaskState : PeerResponse(t, s) => Uninvolved /\ UNCHANGED wireVars
  BY DEF PeerResponse, Uninvolved
<1>3. \A S \in SUBSET Tasks : TimeoutCheck(S) => Uninvolved /\ UNCHANGED wireVars
  BY DEF TimeoutCheck, Uninvolved
<1>4. \A c \in Conns : ConnectDropped(c) \/ SocketClosing(c) \/ SocketClosed(c)
                        => Uninvolved /\ UNCHANGED <<state, wireVars>>
  BY DEF ConnectDropped, SocketClosing, SocketClosed, Uninvolved
<1>5. ReconnectFires => Uninvolved /\ UNCHANGED <<state, wireVars>>
  BY DEF ReconnectFires, Uninvolved
<1>6. UNCHANGED vars => Uninvolved /\ UNCHANGED <<state, wireVars>>
  BY DEF vars, Uninvolved, gwVars
<1> QED BY <1>1, <1>2, <1>3, <1>4, <1>5, <1>6

\* The bound inductive on its own: the drain that will add a task after its await
\* has found a free slot before it, and nobody else adds one.
LEMMA ConcurrencyStep == TypeOK /\ ConcurrencyBound /\ [Next]_vars => ConcurrencyBound'
PROOF
<1> SUFFICES ASSUME TypeOK, ConcurrencyBound, [Next]_vars PROVE ConcurrencyBound' OBVIOUS
<1> USE ExecutorAssumption DEF drainVars
<1>1. CASE Uninvolved
  BY <1>1 DEF Uninvolved, ConcurrencyBound
<1>2. ASSUME NEW t \in Tasks, AcceptInbound(t) PROVE ConcurrencyBound'
  BY <1>2 DEF AcceptInbound, Enqueue, KickDrain, ConcurrencyBound, TypeOK
<1>3. CASE DrainLoop
  <2>1. CASE DrainExit
    BY <2>1 DEF DrainExit, ConcurrencyBound
  <2>2. CASE DrainSkip
    BY <2>2 DEF DrainSkip, ConcurrencyBound
  <2>3. CASE DrainRun
    <3>1. Head(queue) \in Tasks
      BY <2>3, Shifted DEF TypeOK, DrainRun, CanTake
    <3>2. Cardinality(executing) < MaxConcurrent /\ executing' = executing \cup {Head(queue)} /\ drainPc' = "loop"
      BY <1>3, <2>3 DEF DrainLoop, DrainRun, CanTake, StartChat
    <3>3. Cardinality(executing') \in Nat /\ Cardinality(executing') <= Cardinality(executing) + 1
      BY <3>1, <3>2, Slots
    <3> QED BY <3>2, <3>3, Slots DEF ConcurrencyBound
  <2>4. CASE DrainAwait
    BY <2>4 DEF DrainAwait, CanTake, ConcurrencyBound
  <2> QED BY <1>3, <2>1, <2>2, <2>3, <2>4 DEF DrainLoop
<1>4. ASSUME NEW c \in Conns, ConnectOk(c) \/ ConnectFail(c) PROVE ConcurrencyBound'
  <2>1. CASE Resumes(c)
    <3>1. drainTask \in Tasks /\ Cardinality(executing) < MaxConcurrent
      BY <2>1 DEF Resumes, TypeOK, ConcurrencyBound
    <3>2. drainPc' = "loop" /\ executing' \in {executing, executing \cup {drainTask}}
      BY <1>4, <2>1 DEF ConnectOk, ConnectFail, ResumeWith, StartChat, FailStart
    <3> QED BY <3>1, <3>2, Slots DEF ConcurrencyBound
  <2>2. CASE ~Resumes(c)
    BY <1>4, <2>2 DEF ConnectOk, ConnectFail, ResumeWith, ConcurrencyBound
  <2> QED BY <2>1, <2>2
<1>5. ASSUME NEW t \in Tasks, NEW s \in {"completed", "failed"}, EndTask(t, s) \/ ExecTimeout(t)
      PROVE  ConcurrencyBound'
  <2>1. executing' = executing \ {t} /\ (drainPc' = "await" => drainPc = "await")
    BY <1>5 DEF EndTask, ExecTimeout, KickDrain
  <2> QED BY <2>1, Slots DEF ConcurrencyBound
<1>6. CASE Close
  <2>1. executing' = {}
    BY <1>6 DEF Close
  <2> QED BY <2>1, Slots DEF ConcurrencyBound
<1> QED BY <1>1, <1>2, <1>3, <1>4, <1>5, <1>6, UninvolvedSteps
     DEF Next, TaskTable, Gateway, GwFinal, GwError

\* At most max_concurrent_tasks tasks run at once, although drainQueue tests the
\* limit before an await and takes the slot after it (executor.ts:343, 391).
THEOREM Concurrency == Spec => []ConcurrencyBound
PROOF
<1>1. Init => ConcurrencyBound
  BY FS_EmptySet, ExecutorAssumption DEF Init, ConcurrencyBound
<1> QED BY <1>1, TypeCorrect, ConcurrencyStep, PTL DEF Spec

-----------------------------------------------------------------------------
(* No lost wake-up, and what is left after close().                        *)

LEMMA WakeupStep ==
  TypeOK /\ ConcurrencyBound /\ NoLostWakeup /\ CloseLeavesOne /\ [Next]_vars
    => NoLostWakeup' /\ CloseLeavesOne'
PROOF
<1> SUFFICES ASSUME TypeOK, ConcurrencyBound, NoLostWakeup, CloseLeavesOne, [Next]_vars
             PROVE  NoLostWakeup' /\ CloseLeavesOne'
  OBVIOUS
<1> USE ExecutorAssumption DEF drainVars
<1>1. CASE Uninvolved
  BY <1>1 DEF Uninvolved, NoLostWakeup, CloseLeavesOne
<1>2. ASSUME NEW t \in Tasks, AcceptInbound(t) PROVE NoLostWakeup' /\ CloseLeavesOne'
  <2>1. UNCHANGED <<executing, closed>> /\ (drainPc' = "await" => drainPc = "await")
    BY <1>2 DEF AcceptInbound, Enqueue, KickDrain
  <2>2. UNCHANGED <<queue, drainPc>> \/ (~closed /\ drainPc' # "idle")
    BY <1>2 DEF AcceptInbound, Enqueue, KickDrain
  <2> QED BY <2>1, <2>2 DEF NoLostWakeup, CloseLeavesOne
<1>3. CASE DrainLoop
  <2>1. CASE DrainExit
    BY <2>1, Slots DEF DrainExit, CanTake, NoLostWakeup, CloseLeavesOne
  <2>2. CASE DrainSkip
    BY <1>3, <2>2 DEF DrainLoop, DrainSkip, CanTake, NoLostWakeup, CloseLeavesOne
  <2>3. CASE DrainRun
    BY <1>3, <2>3 DEF DrainLoop, DrainRun, CanTake, NoLostWakeup, CloseLeavesOne
  <2>4. CASE DrainAwait
    BY <2>4 DEF DrainAwait, CanTake, NoLostWakeup, CloseLeavesOne
  <2> QED BY <1>3, <2>1, <2>2, <2>3, <2>4 DEF DrainLoop
<1>4. ASSUME NEW c \in Conns, ConnectOk(c) \/ ConnectFail(c)
      PROVE  NoLostWakeup' /\ CloseLeavesOne'
  <2>1. CASE Resumes(c)
    <3>1. drainTask \in Tasks /\ (closed => executing = {})
      BY <2>1 DEF Resumes, TypeOK, CloseLeavesOne
    <3>2. /\ drainPc' = "loop" /\ UNCHANGED <<queue, closed>>
          /\ executing' \in {executing, executing \cup {drainTask}}
      BY <1>4, <2>1 DEF ConnectOk, ConnectFail, ResumeWith, StartChat, FailStart
    <3>3. closed => Cardinality(executing') <= 1
      BY <3>1, <3>2, Slots
    <3> QED BY <3>2, <3>3 DEF NoLostWakeup, CloseLeavesOne
  <2>2. CASE ~Resumes(c)
    BY <1>4, <2>2 DEF ConnectOk, ConnectFail, ResumeWith, NoLostWakeup, CloseLeavesOne
  <2> QED BY <2>1, <2>2
<1>5. ASSUME NEW t \in Tasks, NEW s \in {"completed", "failed"}, EndTask(t, s) \/ ExecTimeout(t)
      PROVE  NoLostWakeup' /\ CloseLeavesOne'
  <2>1. /\ executing' = executing \ {t} /\ UNCHANGED <<queue, closed>>
        /\ drainPc' # "idle" /\ (drainPc' = "await" => drainPc = "await")
    BY <1>5 DEF EndTask, ExecTimeout, KickDrain, TypeOK
  <2>2. NoLostWakeup'
    BY <2>1 DEF NoLostWakeup
  <2>3. Cardinality(executing') <= Cardinality(executing) /\ Cardinality(executing') \in Nat
    BY <2>1, Slots
  <2>4. executing = {} => executing' = {}
    BY <2>1
  <2>5. CloseLeavesOne'
    BY <2>1, <2>3, <2>4, Slots DEF CloseLeavesOne
  <2> QED BY <2>2, <2>5
<1>6. CASE Close
  <2>1. executing' = {} /\ queue' = <<>>
    BY <1>6 DEF Close
  <2> QED BY <2>1, Slots DEF NoLostWakeup, CloseLeavesOne
<1> QED BY <1>1, <1>2, <1>3, <1>4, <1>5, <1>6, UninvolvedSteps
     DEF Next, TaskTable, Gateway, GwFinal, GwError

\* A drain that has stopped leaves accepted tasks waiting only behind a full house:
\* each event that frees a slot or adds a task kicks it (executor.ts:81, 306, 329, 443).
THEOREM Wakeup == Spec => []NoLostWakeup
PROOF
<1>1. Init => NoLostWakeup /\ CloseLeavesOne
  BY DEF Init, NoLostWakeup, CloseLeavesOne
<1> QED BY <1>1, TypeCorrect, Concurrency, WakeupStep, PTL DEF Spec

\* After close() at most the task suspended in a handshake still starts: the limit of
\* the damage done by executeTask not looking at closed (executor.ts:104, 357).
THEOREM AfterClose == Spec => []CloseLeavesOne
PROOF
<1>1. Init => NoLostWakeup /\ CloseLeavesOne
  BY DEF Init, NoLostWakeup, CloseLeavesOne
<1> QED BY <1>1, TypeCorrect, Concurrency, WakeupStep, PTL DEF Spec

-----------------------------------------------------------------------------
(* One place per task, one chat.send and one report.                       *)

\* The strengthening: a task that the executor holds has a record, and its place
\* says how far it got with the gateway and with its proposer, when earlier
\* processes may have done k of each for it (none for TaskExecutor alone).
Held == ToSet(queue) \cup executing \cup ({drainTask} \ {NoTask})

AccountOf(t, k) ==
  /\ t \in Held => t \in Inbound /\ state[t] # "none"
  /\ chats[t] <= k + 1 /\ Len(reports[t]) <= k + 1
  /\ (state[t] = "none" \/ t \in ToSet(queue) \/ t = drainTask) => chats[t] <= k
  /\ (state[t] = "none" \/ t \in Held) => Len(reports[t]) <= k

Accounts(k) == \A t \in Tasks : AccountOf(t, k)

Placement(k) == OnePlace /\ Accounts(k)

LEMMA Counted ==
  ASSUME TypeOK, NEW t \in Tasks
  PROVE  chats[t] \in Nat /\ Len(reports[t]) \in Nat
  BY LenProperties DEF TypeOK

\* What a report does to the list of them.
LEMMA Reported ==
  ASSUME TypeOK, NEW t \in Tasks, NEW r \in {"completed", "failed"}, Report(t, r)
  PROVE  /\ Len(reports'[t]) = Len(reports[t]) + 1
         /\ ToSet(reports'[t]) = ToSet(reports[t]) \cup {r}
         /\ \A u \in Tasks : u # t => reports'[u] = reports[u]
PROOF
<1>1. /\ reports'[t] = Append(reports[t], r)
      /\ \A u \in Tasks : u # t => reports'[u] = reports[u]
  BY DEF Report, TypeOK
<1>2. reports[t] \in Seq({"completed", "failed"})
  BY DEF TypeOK
<1>3. Len(Append(reports[t], r)) = Len(reports[t]) + 1
  BY <1>2, AppendProperties
<1> QED BY <1>1, <1>2, <1>3, Pushed

\* The queue holds tasks.
LEMMA QueueOfTasks == TypeOK => ToSet(queue) \subseteq Tasks
  BY LenProperties DEF TypeOK, ToSet

LEMMA PlacementInit == Init => Placement(0)
PROOF
<1> SUFFICES ASSUME Init PROVE Placement(0) OBVIOUS
<1> DEFINE A == {t \in Inbound : state[t] = "accepted"}
<1>1. IsFiniteSet(A)
  BY InboundAssumption, ExecutorAssumption, FS_Subset
<1>2. ToSet(queue) = A /\ IsInjective(queue)
  BY <1>1, PermutationOf DEF Init
<1>3. OnePlace
  BY <1>2, InboundAssumption, ExecutorAssumption DEF Init, OnePlace
<1>4. Accounts(0)
  <2> SUFFICES ASSUME NEW t \in Tasks PROVE AccountOf(t, 0)
    BY DEF Accounts
  <2>1. chats[t] = 0 /\ Len(reports[t]) = 0
    BY EmptySeq DEF Init
  <2>2. t \in Held => t \in Inbound /\ state[t] # "none"
    BY <1>2, InboundAssumption DEF Init, Held
  <2> QED BY <2>1, <2>2 DEF AccountOf
<1> QED BY <1>3, <1>4 DEF Placement

\* A step of the task table or of the sockets moves no task.
LEMMA PlacementUninvolved ==
  ASSUME NEW k \in Nat, TypeOK, Placement(k), Uninvolved, UNCHANGED wireVars,
         \A t \in Tasks : (state[t] # "none" => state'[t] # "none")
  PROVE  Placement(k)'
PROOF
<1>1. OnePlace'
  BY DEF Placement, OnePlace, Uninvolved, drainVars
<1>2. Accounts(k)'
  BY DEF Placement, Accounts, AccountOf, Held, Uninvolved, drainVars, wireVars
<1> QED BY <1>1, <1>2 DEF Placement

\* What TRANSITIONS allows, spelled out.
LEMMA TransitionTable ==
  /\ \A x \in TaskState : TRANSITIONS[x] \subseteq TaskState \ {"none", "pending"}
  /\ TRANSITIONS["none"] = {}
  /\ \A x \in Terminal : TRANSITIONS[x] = {}
  /\ {"failed", "timeout", "cancelled", "completed"} \subseteq TRANSITIONS["accepted"]
  /\ {"failed", "timeout", "cancelled", "completed"} \subseteq TRANSITIONS["executing"]
  /\ "executing" \in TRANSITIONS["accepted"]
PROOF
<1> USE DEF TaskState, Active, Terminal
<1>1. DOMAIN TRANSITIONS = TaskState
  BY DEF TRANSITIONS
<1>2. TRANSITIONS["pending"] = {"accepted", "rejected", "cancelled", "timeout"}
  BY DEF TRANSITIONS
<1>3. TRANSITIONS["accepted"] = {"executing", "completed", "failed", "cancelled", "timeout"}
  BY DEF TRANSITIONS
<1>4. TRANSITIONS["executing"] = {"completed", "failed", "cancelled", "timeout"}
  BY DEF TRANSITIONS
<1>5. \A x \in {"none"} \cup Terminal : TRANSITIONS[x] = {}
  BY DEF TRANSITIONS
<1> QED BY <1>2, <1>3, <1>4, <1>5

\* updateState never makes a record disappear.
LEMMA RecordsStay ==
  ASSUME TypeOK, NEW r \in Tasks, state[r] # "none"
  PROVE  /\ \A t \in Tasks : Create(t) => state'[r] # "none"
         /\ \A t \in Tasks, s \in TaskState : UpdateState(t, s) => state'[r] # "none"
         /\ \A S \in SUBSET Tasks, s \in TaskState : UpdateStates(S, s) => state'[r] # "none"
PROOF
<1>1. \A q \in Tasks : \A s : CanMove(q, s) => s # "none"
  BY TransitionTable DEF CanMove, TypeOK
<1>2. ASSUME NEW t \in Tasks, Create(t) PROVE state'[r] # "none"
  BY <1>2 DEF Create, TypeOK
<1>3. ASSUME NEW t \in Tasks, NEW s \in TaskState, UpdateState(t, s) PROVE state'[r] # "none"
  BY <1>1, <1>3 DEF UpdateState, TypeOK
<1>4. ASSUME NEW S \in SUBSET Tasks, NEW s \in TaskState, UpdateStates(S, s) PROVE state'[r] # "none"
  BY <1>1, <1>4 DEF UpdateStates, TypeOK
<1> QED BY <1>2, <1>3, <1>4

\* Giving back a slot: the one place where a report is made for an executing task.
LEMMA PlacementEnd ==
  ASSUME NEW k \in Nat, TypeOK, Placement(k), NEW t \in executing, NEW s \in TaskState,
         UpdateState(t, s), executing' = executing \ {t},
         UNCHANGED <<queue, drainTask, chats>>,
         UNCHANGED reports \/ \E r \in {"completed", "failed"} : Report(t, r)
  PROVE  Placement(k)'
PROOF
<1>0. t \in Tasks /\ t \in Held /\ t \notin ToSet(queue) /\ t # drainTask
  BY DEF TypeOK, Placement, OnePlace, Held
<1>1. OnePlace'
  BY DEF Placement, OnePlace
<1>2. /\ \A u \in Tasks : u # t => reports'[u] = reports[u]
      /\ Len(reports'[t]) \in {Len(reports[t]), Len(reports[t]) + 1}
  BY <1>0, Reported
<1>3. \A u \in Tasks : state[u] # "none" => state'[u] # "none"
  BY RecordsStay, <1>0
<1>4. ASSUME NEW u \in Tasks PROVE AccountOf(u, k)'
  <2>0. AccountOf(u, k)
    BY DEF Placement, Accounts
  <2>1. CASE u = t
    <3>1. u \notin Held' /\ state'[u] # "none"
      BY <1>0, <1>3, <2>0, <2>1 DEF Held, AccountOf
    <3>2. Len(reports[t]) \in Nat /\ Len(reports[t]) <= k /\ chats'[t] <= k + 1
      BY <1>0, <2>0, <2>1, Counted DEF AccountOf
    <3>3. Len(reports'[t]) <= k + 1
      BY <1>2, <3>2
    <3> QED BY <1>0, <2>1, <3>1, <3>2, <3>3 DEF AccountOf, Held
  <2>2. CASE u # t
    BY <1>2, <1>3, <2>0, <2>2 DEF AccountOf, Held
  <2> QED BY <2>1, <2>2
<1> QED BY <1>1, <1>4 DEF Placement, Accounts

\* Starting a task that had left the queue: it goes to executing with its one
\* chat.send, or out of the executor with its one report.
LEMMA PlacementStart ==
  ASSUME NEW k \in Nat, TypeOK, Placement(k), NEW t \in Tasks,
         t = drainTask \/ (queue # <<>> /\ t = Head(queue)),
         t \notin ToSet(queue'), ToSet(queue') \subseteq ToSet(queue), IsInjective(queue'),
         drainTask' = NoTask, t = drainTask \/ drainTask = NoTask,
         StartChat(t) \/ FailStart(t)
  PROVE  Placement(k)'
PROOF
<1> USE ExecutorAssumption
<1>0. /\ t \in Inbound /\ state[t] # "none" /\ t \notin executing
      /\ chats[t] <= k /\ Len(reports[t]) <= k
  <2>1. t = drainTask \/ t \in ToSet(queue)
    BY Shifted DEF TypeOK
  <2>2. AccountOf(t, k)
    BY DEF Placement, Accounts
  <2> QED BY <2>1, <2>2 DEF Placement, OnePlace, AccountOf, Held
<1>q. ToSet(queue') \subseteq Tasks /\ executing \subseteq Tasks
  BY QueueOfTasks DEF TypeOK
<1>n. chats[t] \in Nat /\ Len(reports[t]) \in Nat
  BY Counted
<1>1. \A u \in Tasks : state[u] # "none" => state'[u] # "none"
  <2>1. {"executing", "failed"} \subseteq TaskState
    BY DEF TaskState, Active, Terminal
  <2> QED BY <2>1, RecordsStay DEF StartChat, FailStart
<1>2. CASE StartChat(t)
  <2>1. /\ executing' = executing \cup {t} /\ UNCHANGED reports
        /\ chats'[t] = chats[t] + 1 /\ \A u \in Tasks : u # t => chats'[u] = chats[u]
    BY <1>2 DEF StartChat, TypeOK
  <2>2. OnePlace'
    BY <1>0, <1>q, <2>1 DEF Placement, OnePlace
  <2>3. ASSUME NEW u \in Tasks PROVE AccountOf(u, k)'
    <3>0. AccountOf(u, k)
      BY DEF Placement, Accounts
    <3>1. CASE u = t
      <4>1. chats'[u] <= k + 1 /\ Len(reports'[u]) <= k + 1 /\ Len(reports'[u]) <= k
        BY <1>0, <1>n, <2>1, <3>1
      <4>2. u \in Inbound /\ state'[u] # "none" /\ u \notin ToSet(queue') /\ u # drainTask'
        BY <1>0, <1>1, <3>1
      <4> QED BY <4>1, <4>2 DEF AccountOf
    <3>2. CASE u # t
      BY <1>1, <2>1, <3>0, <3>2 DEF AccountOf, Held
    <3> QED BY <3>1, <3>2
  <2> QED BY <2>2, <2>3 DEF Placement, Accounts
<1>3. CASE FailStart(t)
  <2>1. /\ UNCHANGED <<executing, chats>>
        /\ Len(reports'[t]) = Len(reports[t]) + 1
        /\ \A u \in Tasks : u # t => reports'[u] = reports[u]
    BY <1>3, Reported DEF FailStart
  <2>2. OnePlace'
    BY <1>0, <1>q, <2>1 DEF Placement, OnePlace
  <2>3. ASSUME NEW u \in Tasks PROVE AccountOf(u, k)'
    <3>0. AccountOf(u, k)
      BY DEF Placement, Accounts
    <3>1. CASE u = t
      <4>1. chats'[u] <= k + 1 /\ Len(reports'[u]) <= k + 1
        BY <1>0, <1>n, <2>1, <3>1
      <4>2. u \notin Held' /\ state'[u] # "none" /\ u \notin ToSet(queue') /\ u # drainTask'
        BY <1>0, <1>1, <2>1, <3>1 DEF Held
      <4> QED BY <4>1, <4>2 DEF AccountOf
    <3>2. CASE u # t
      BY <1>1, <2>1, <3>0, <3>2 DEF AccountOf, Held
    <3> QED BY <3>1, <3>2
  <2> QED BY <2>2, <2>3 DEF Placement, Accounts
<1> QED BY <1>2, <1>3

LEMMA PlacementStep ==
  ASSUME NEW k \in Nat, TypeOK, Placement(k), [Next]_vars
  PROVE  Placement(k)'
PROOF
<1> USE ExecutorAssumption DEF drainVars, wireVars
<1>a. {"executing", "failed", "timeout", "cancelled", "completed"} \subseteq TaskState
  BY DEF TaskState, Active, Terminal
<1>1. CASE Uninvolved /\ UNCHANGED <<state, wireVars>>
  BY <1>1, PlacementUninvolved
<1>2. ASSUME Uninvolved, UNCHANGED wireVars,
             \/ \E t \in Tasks : ProposeOutbound(t) \/ CancelTask(t)
             \/ \E t \in Tasks, s \in TaskState : PeerResponse(t, s)
             \/ \E S \in SUBSET Tasks : TimeoutCheck(S)
      PROVE  Placement(k)'
  <2>1. \A t \in Tasks : state[t] # "none" => state'[t] # "none"
    BY <1>a, <1>2, RecordsStay DEF ProposeOutbound, CancelTask, PeerResponse, TimeoutCheck
  <2> QED BY <1>2, <2>1, PlacementUninvolved
<1>3. ASSUME NEW t \in Tasks, AcceptInbound(t) PROVE Placement(k)'
  <2>0. /\ t \in Inbound /\ state[t] = "none" /\ state' = [state EXCEPT ![t] = "accepted"]
        /\ UNCHANGED <<executing, drainTask, wireVars>>
    BY <1>3 DEF AcceptInbound, Create, Enqueue, KickDrain
  <2>1. t \notin Held
    BY <2>0 DEF Placement, Accounts, AccountOf
  <2>2. /\ queue' \in {queue, Append(queue, t)}
    BY <1>3 DEF AcceptInbound, Enqueue
  <2>3. /\ ToSet(queue') \subseteq ToSet(queue) \cup {t}
        /\ IsInjective(queue')
    BY <2>1, <2>2, Pushed DEF TypeOK, Placement, OnePlace, Held
  <2>4. OnePlace'
    BY <2>0, <2>1, <2>3 DEF Placement, OnePlace, Held
  <2>5. ASSUME NEW u \in Tasks PROVE AccountOf(u, k)'
    <3>1. AccountOf(u, k)
      BY DEF Placement, Accounts
    <3>2. state'[u] = "none" => state[u] = "none" /\ u # t
      BY <2>0 DEF TypeOK
    <3> QED BY <2>0, <2>3, <3>1, <3>2 DEF AccountOf, Held
  <2> QED BY <2>4, <2>5 DEF Placement, Accounts
<1>4. CASE DrainLoop
  <2>1. CASE DrainExit
    BY <2>1 DEF DrainExit, Placement, OnePlace, Accounts, AccountOf, Held
  <2>q. ASSUME queue # <<>>
        PROVE  /\ Head(queue) \in Tasks /\ Head(queue) \in ToSet(queue)
               /\ ToSet(Tail(queue)) \subseteq ToSet(queue)
               /\ Head(queue) \notin ToSet(Tail(queue)) /\ IsInjective(Tail(queue))
    BY <2>q, Shifted DEF TypeOK, Placement, OnePlace
  <2>n. drainTask = NoTask
    BY <1>4 DEF DrainLoop, TypeOK
  <2>2. CASE DrainSkip
    <3>1. queue # <<>> /\ queue' = Tail(queue) /\ UNCHANGED <<state, executing, drainTask, wireVars>>
      BY <2>2 DEF DrainSkip, CanTake
    <3> QED BY <2>q, <3>1 DEF Placement, OnePlace, Accounts, AccountOf, Held
  <2>3. CASE DrainRun
    <3>1. queue # <<>> /\ queue' = Tail(queue) /\ StartChat(Head(queue)) /\ drainTask' = NoTask
      BY <2>3, <2>n DEF DrainRun, CanTake
    <3> QED BY <2>q, <2>n, <3>1, PlacementStart
  <2>4. CASE DrainAwait
    <3>1. /\ queue # <<>> /\ queue' = Tail(queue) /\ drainTask' = Head(queue)
          /\ UNCHANGED <<state, executing, wireVars>>
      BY <2>4 DEF DrainAwait, CanTake
    <3>2. OnePlace'
      BY <2>q, <3>1 DEF Placement, OnePlace
    <3>3. Accounts(k)'
      BY <2>q, <3>1 DEF Placement, Accounts, AccountOf, Held
    <3> QED BY <3>2, <3>3 DEF Placement
  <2> QED BY <1>4, <2>1, <2>2, <2>3, <2>4 DEF DrainLoop
<1>5. ASSUME NEW c \in Conns, ConnectOk(c) \/ ConnectFail(c) PROVE Placement(k)'
  <2>1. CASE Resumes(c)
    <3>1. drainTask \in Tasks /\ drainTask \notin ToSet(queue)
      BY <2>1 DEF Resumes, TypeOK, Placement, OnePlace
    <3>2. drainTask' = NoTask /\ queue' = queue /\ (StartChat(drainTask) \/ FailStart(drainTask))
      BY <1>5, <2>1 DEF ConnectOk, ConnectFail, ResumeWith
    <3>3. IsInjective(queue')
      BY <3>2 DEF Placement, OnePlace
    <3> QED BY <3>1, <3>2, <3>3, PlacementStart
  <2>2. CASE ~Resumes(c)
    BY <1>5, <2>2, PlacementUninvolved DEF ConnectOk, ConnectFail, ResumeWith, Uninvolved
  <2> QED BY <2>1, <2>2
<1>6. ASSUME NEW t \in Tasks, NEW s \in {"completed", "failed"},
             t \in executing, EndTask(t, s) \/ ExecTimeout(t)
      PROVE  Placement(k)'
  <2>1. PICK x \in TaskState : UpdateState(t, x)
    BY <1>6, <1>a DEF EndTask, ExecTimeout
  <2>2. /\ executing' = executing \ {t} /\ UNCHANGED <<queue, drainTask, chats>>
        /\ UNCHANGED reports \/ \E r \in {"completed", "failed"} : Report(t, r)
    BY <1>6 DEF EndTask, ExecTimeout, KickDrain
  <2> QED BY <1>6, <2>1, <2>2, PlacementEnd
<1>7. CASE Close
  <2>1. /\ executing' = {} /\ queue' = <<>> /\ UNCHANGED <<drainTask, wireVars>>
        /\ UpdateStates(executing, "failed")
    BY <1>7 DEF Close
  <2>2. ToSet(queue') = {} /\ IsInjective(queue')
    BY <2>1 DEF ToSet, IsInjective
  <2>3. \A t \in Tasks : state[t] # "none" => state'[t] # "none"
    BY <1>a, <2>1, RecordsStay DEF TypeOK
  <2> QED BY <2>1, <2>2, <2>3 DEF Placement, OnePlace, Accounts, AccountOf, Held
<1> QED BY <1>1, <1>2, <1>3, <1>4, <1>5, <1>6, <1>7, UninvolvedSteps
     DEF Next, TaskTable, Gateway, GwFinal, GwError, ExecTimeout

LEMMA PlacementAlways == Spec => []Placement(0)
PROOF
<1>1. TypeOK /\ Placement(0) /\ [Next]_vars => Placement(0)'
  BY PlacementStep
<1> QED BY <1>1, PlacementInit, TypeCorrect, PTL DEF Spec

\* A task is never in two places of the executor.
THEOREM InOnePlace == Spec => []OnePlace
PROOF
<1>1. Placement(0) => OnePlace
  BY DEF Placement
<1> QED BY <1>1, PlacementAlways, PTL

\* The gateway is asked at most once for a task and its proposer is told at most once
\* how it ended, although five callbacks can end it (executor.ts:266, 311, 366, 419).
THEOREM AtMostOnce == Spec => []OnceEach
PROOF
<1>1. Placement(0) => OnceEach
  <2>1. 0 + 1 = 1
    OBVIOUS
  <2> QED BY <2>1, Zenon DEF Placement, Accounts, AccountOf, OnceEach
<1> QED BY <1>1, PlacementAlways, PTL

-----------------------------------------------------------------------------
(* What the proposer was told agrees with the record.                      *)

\* A task the executor holds was accepted; only cancelling it, a timeout or close()
\* can have ended its record meanwhile, and the slot is taken with the record moved on.
HeldAlive ==
  \A t \in Inbound :
    /\ t \in Held => state[t] \in {"accepted", "executing", "failed", "timeout", "cancelled"}
    /\ t \in executing => state[t] # "accepted"

\* Each callback either leaves the record and the reports of an inbound task u as they
\* are to ReportsAgree, or ends a task the executor holds and reports that very end.
Tells(u) ==
  \/ UNCHANGED <<state[u], reports[u]>>
  \/ /\ UNCHANGED reports[u]
     /\ state[u] # "completed" /\ state'[u] # "completed"
     /\ state[u] \in {"failed", "timeout", "cancelled"} => state'[u] = state[u]
  \/ /\ state[u] = "executing" /\ state'[u] = "completed"
     /\ ToSet(reports'[u]) = ToSet(reports[u]) \cup {"completed"}
  \/ /\ state[u] # "completed" /\ state'[u] \in {"failed", "timeout", "cancelled"}
     /\ ToSet(reports'[u]) = ToSet(reports[u]) \cup {"failed"}

LEMMA TellsAgrees ==
  ASSUME TypeOK, ReportsAgree, \A u \in Inbound : Tells(u)
  PROVE  ReportsAgree'
PROOF
<1> SUFFICES ASSUME NEW u \in Inbound
             PROVE  /\ "completed" \in ToSet(reports'[u]) <=> state'[u] = "completed"
                    /\ "failed" \in ToSet(reports'[u]) => state'[u] \in {"failed", "timeout", "cancelled"}
  BY DEF ReportsAgree
<1>1. /\ "completed" \in ToSet(reports[u]) <=> state[u] = "completed"
      /\ "failed" \in ToSet(reports[u]) => state[u] \in {"failed", "timeout", "cancelled"}
      /\ Tells(u)
  BY DEF ReportsAgree
<1> QED BY <1>1 DEF Tells

\* Where updateState can take the record of a task.
LEMMA Moved ==
  ASSUME TypeOK, NEW u \in Tasks
  PROVE  /\ \A t \in Tasks : Create(t) =>
              \/ state'[u] = state[u]
              \/ u = t /\ state[u] = "none" /\ state'[u] \in {"pending", "accepted"}
         /\ \A t \in Tasks, s \in TaskState : UpdateState(t, s) =>
              \/ state'[u] = state[u]
              \/ u = t /\ state[u] \in Active /\ state'[u] = s
         /\ \A S \in SUBSET Tasks, s \in TaskState : UpdateStates(S, s) =>
              \/ state'[u] = state[u]
              \/ u \in S /\ state[u] \in Active /\ state'[u] = s
PROOF
<1>1. \A s : CanMove(u, s) => state[u] \in Active
  BY TransitionTable DEF CanMove, TypeOK, TaskState
<1>2. ASSUME NEW t \in Tasks, Create(t)
      PROVE  \/ state'[u] = state[u]
             \/ u = t /\ state[u] = "none" /\ state'[u] \in {"pending", "accepted"}
  BY <1>2 DEF Create, TypeOK
<1>3. ASSUME NEW t \in Tasks, NEW s \in TaskState, UpdateState(t, s)
      PROVE  state'[u] = state[u] \/ (u = t /\ state[u] \in Active /\ state'[u] = s)
  BY <1>1, <1>3 DEF UpdateState, TypeOK
<1>4. ASSUME NEW S \in SUBSET Tasks, NEW s \in TaskState, UpdateStates(S, s)
      PROVE  state'[u] = state[u] \/ (u \in S /\ state[u] \in Active /\ state'[u] = s)
  BY <1>1, <1>4 DEF UpdateStates, TypeOK
<1> QED BY <1>2, <1>3, <1>4

\* updateState does move an accepted or executing record to the end it is given.
LEMMA Ended ==
  ASSUME TypeOK, NEW t \in Tasks, NEW s \in {"failed", "timeout", "cancelled", "completed"},
         UpdateState(t, s)
  PROVE  /\ state[t] \in {"accepted", "executing"} => state'[t] = s
         /\ state[t] \in Terminal => state'[t] = state[t]
         /\ \A u \in Tasks : u # t => state'[u] = state[u]
PROOF
<1>1. /\ state[t] \in {"accepted", "executing"} => CanMove(t, s)
      /\ state[t] \in Terminal => ~CanMove(t, s)
  BY TransitionTable DEF CanMove
<1> QED BY <1>1 DEF UpdateState, TypeOK

LEMMA AgreeStep ==
  TypeOK /\ Placement(0) /\ HeldAlive /\ ReportsAgree /\ [Next]_vars => HeldAlive' /\ ReportsAgree'
PROOF
<1> SUFFICES ASSUME TypeOK, Placement(0), HeldAlive, ReportsAgree, [Next]_vars
             PROVE  HeldAlive' /\ ReportsAgree'
  OBVIOUS
<1> USE DEF drainVars, wireVars
<1>a. {"executing", "failed", "timeout", "cancelled", "completed"} \subseteq TaskState
  BY DEF TaskState, Active, Terminal
<1>t. \A u \in Inbound : u \in Tasks /\ state[u] \in TaskState
  BY InboundAssumption DEF TypeOK
<1>d. NoTask \notin Tasks
  BY ExecutorAssumption
\* A step that moves nothing to another place, and at most cancels or times out.
<1>u. ASSUME Held' \subseteq Held, executing' \subseteq executing, UNCHANGED reports,
             \A u \in Inbound : \/ state'[u] = state[u]
                                \/ state[u] \in Active /\ state'[u] \in {"failed", "timeout", "cancelled"}
      PROVE  HeldAlive' /\ ReportsAgree'
  <2>1. HeldAlive'
    BY <1>u DEF HeldAlive
  <2>2. ASSUME NEW u \in Inbound PROVE Tells(u)
    <3>1. state[u] \in Active => state[u] \notin {"failed", "timeout", "cancelled", "completed"}
      BY DEF Active
    <3> QED BY <1>u, <3>1 DEF Tells
  <2> QED BY <2>1, <2>2, TellsAgrees
<1>1. CASE Uninvolved /\ UNCHANGED <<state, wireVars>>
  BY <1>1, <1>u DEF Uninvolved, Held
<1>2. ASSUME NEW t \in Tasks, ProposeOutbound(t) PROVE HeldAlive' /\ ReportsAgree'
  <2>1. Uninvolved /\ UNCHANGED wireVars /\ \A u \in Inbound : state'[u] = state[u]
    BY <1>2, <1>t, UninvolvedSteps DEF ProposeOutbound, Create, TypeOK
  <2> QED BY <2>1, <1>u DEF Uninvolved, Held
<1>3. ASSUME NEW t \in Tasks, CancelTask(t) PROVE HeldAlive' /\ ReportsAgree'
  <2>1. Uninvolved /\ UNCHANGED wireVars /\ UpdateState(t, "cancelled")
    BY <1>3, UninvolvedSteps DEF CancelTask
  <2>2. \A u \in Inbound : state'[u] = state[u] \/ (state[u] \in Active /\ state'[u] = "cancelled")
    BY <1>a, <1>t, <2>1, Moved
  <2> QED BY <1>u, <2>1, <2>2 DEF Uninvolved, Held
<1>4. ASSUME NEW t \in Tasks, NEW s \in TaskState, PeerResponse(t, s) PROVE HeldAlive' /\ ReportsAgree'
  <2>1. Uninvolved /\ UNCHANGED wireVars /\ \A u \in Inbound : state'[u] = state[u]
    BY <1>4, <1>t, UninvolvedSteps DEF PeerResponse, UpdateState, TypeOK
  <2> QED BY <2>1, <1>u DEF Uninvolved, Held
<1>5. ASSUME NEW S \in SUBSET Tasks, TimeoutCheck(S) PROVE HeldAlive' /\ ReportsAgree'
  <2>1. Uninvolved /\ UNCHANGED wireVars /\ UpdateStates(S, "timeout")
    BY <1>5, UninvolvedSteps DEF TimeoutCheck
  <2>2. \A u \in Inbound : state'[u] = state[u] \/ (state[u] \in Active /\ state'[u] = "timeout")
    BY <1>a, <1>t, <2>1, Moved
  <2> QED BY <1>u, <2>1, <2>2 DEF Uninvolved, Held
<1>6. ASSUME NEW t \in Tasks, AcceptInbound(t) PROVE HeldAlive' /\ ReportsAgree'
  <2>1. /\ t \in Inbound /\ state[t] = "none" /\ state' = [state EXCEPT ![t] = "accepted"]
        /\ UNCHANGED <<executing, drainTask, wireVars>> /\ queue' \in {queue, Append(queue, t)}
    BY <1>6 DEF AcceptInbound, Create, Enqueue, KickDrain
  <2>2. t \notin Held /\ Held' \subseteq Held \cup {t}
    <3>1. t \notin Held
      BY <1>t, <2>1 DEF Placement, Accounts, AccountOf
    <3>2. ToSet(queue') \subseteq ToSet(queue) \cup {t}
      BY <1>t, <2>1, Pushed DEF TypeOK
    <3> QED BY <2>1, <3>1, <3>2 DEF Held
  <2>3. state'[t] = "accepted" /\ \A u \in Tasks : u # t => state'[u] = state[u]
    BY <2>1 DEF TypeOK
  <2>4. t \notin executing
    BY <2>2 DEF Held
  <2>5. HeldAlive'
    BY <1>t, <2>1, <2>2, <2>3, <2>4 DEF HeldAlive
  <2>6. \A u \in Inbound : Tells(u)
    BY <1>t, <2>1, <2>3 DEF Tells
  <2> QED BY <2>5, <2>6, TellsAgrees
\* executeTask after its await, for the task the drain holds or has just taken.
<1>7. ASSUME NEW t \in Inbound, t \in Held, t \notin executing,
             StartChat(t) \/ FailStart(t), Held' \subseteq Held,
             t \notin ToSet(queue'), drainTask' = NoTask
      PROVE  HeldAlive' /\ ReportsAgree'
  <2>0. t \in Tasks /\ state[t] \in {"accepted", "executing", "failed", "timeout", "cancelled"}
    BY <1>7, <1>t DEF HeldAlive
  <2>1. CASE StartChat(t)
    <3>1. UpdateState(t, "executing") /\ executing' = executing \cup {t} /\ UNCHANGED reports
      BY <2>1 DEF StartChat
    <3>2. /\ state'[t] # "accepted"
          /\ state'[t] \in {"executing", "failed", "timeout", "cancelled"}
          /\ state[t] \in {"failed", "timeout", "cancelled"} => state'[t] = state[t]
      <4>1. state[t] = "accepted" => CanMove(t, "executing")
        BY TransitionTable DEF CanMove
      <4>2. state'[t] = IF CanMove(t, "executing") THEN "executing" ELSE state[t]
        BY <2>0, <3>1 DEF UpdateState, TypeOK
      <4>3. state[t] \in {"failed", "timeout", "cancelled"} => ~CanMove(t, "executing")
        BY TransitionTable DEF CanMove, Terminal
      <4> QED BY <2>0, <4>1, <4>2, <4>3
    <3>3. \A u \in Tasks : u # t => state'[u] = state[u]
      BY <3>1 DEF UpdateState, TypeOK
    <3>4. HeldAlive'
      BY <1>7, <1>t, <3>1, <3>2, <3>3 DEF HeldAlive
    <3>5. \A u \in Inbound : Tells(u)
      BY <1>t, <2>0, <3>1, <3>2, <3>3 DEF Tells
    <3> QED BY <3>4, <3>5, TellsAgrees
  <2>2. CASE FailStart(t)
    <3>1. UpdateState(t, "failed") /\ Report(t, "failed") /\ UNCHANGED executing
      BY <2>2 DEF FailStart
    <3>2. t \notin Held'
      BY <1>7, <1>d, <2>0, <3>1 DEF Held
    <3>3. /\ state'[t] \in {"failed", "timeout", "cancelled"}
          /\ \A u \in Tasks : u # t => state'[u] = state[u]
      <4>1. {"failed", "timeout", "cancelled"} \subseteq Terminal
        BY DEF Terminal
      <4> QED BY <2>0, <3>1, <4>1, Ended
    <3>4. /\ ToSet(reports'[t]) = ToSet(reports[t]) \cup {"failed"}
          /\ \A u \in Tasks : u # t => reports'[u] = reports[u]
      BY <2>0, <3>1, Reported
    <3>5. HeldAlive'
      BY <1>7, <1>t, <3>1, <3>2, <3>3 DEF HeldAlive
    <3>6. \A u \in Inbound : Tells(u)
      BY <1>t, <2>0, <3>3, <3>4 DEF Tells
    <3> QED BY <3>5, <3>6, TellsAgrees
  <2> QED BY <1>7, <2>1, <2>2
<1>8. CASE DrainLoop
  <2>q. ASSUME queue # <<>>
        PROVE  /\ Head(queue) \in Tasks /\ Head(queue) \in ToSet(queue)
               /\ ToSet(Tail(queue)) \subseteq ToSet(queue)
               /\ Head(queue) \notin ToSet(Tail(queue))
               /\ Head(queue) \notin executing /\ Head(queue) \in Inbound
    <3>1. /\ Head(queue) \in Tasks /\ Head(queue) \in ToSet(queue)
          /\ ToSet(Tail(queue)) \subseteq ToSet(queue)
          /\ Head(queue) \notin ToSet(Tail(queue))
      BY <2>q, Shifted DEF TypeOK, Placement, OnePlace
    <3> QED BY <3>1 DEF Placement, OnePlace, Accounts, AccountOf, Held
  <2>n. drainTask = NoTask
    BY <1>8 DEF DrainLoop, TypeOK
  <2>1. CASE DrainExit \/ DrainSkip \/ DrainAwait
    <3>1. /\ UNCHANGED <<state, executing, wireVars>>
          /\ \/ UNCHANGED <<queue, drainTask>>
             \/ queue # <<>> /\ queue' = Tail(queue) /\ drainTask' \in {drainTask, Head(queue)}
      BY <2>1 DEF DrainExit, DrainSkip, DrainAwait, CanTake
    <3>2. Held' \subseteq Held
      BY <2>q, <3>1 DEF Held
    <3> QED BY <1>u, <3>1, <3>2
  <2>2. CASE DrainRun
    <3>1. queue # <<>> /\ queue' = Tail(queue) /\ StartChat(Head(queue)) /\ drainTask' = NoTask
      BY <2>2, <2>n DEF DrainRun, CanTake
    <3>2. Held' \subseteq Held /\ Head(queue) \in Held
      BY <2>q, <3>1 DEF Held, StartChat
    <3> QED BY <1>7, <2>q, <3>1, <3>2
  <2> QED BY <1>8, <2>1, <2>2 DEF DrainLoop
<1>9. ASSUME NEW c \in Conns, ConnectOk(c) \/ ConnectFail(c) PROVE HeldAlive' /\ ReportsAgree'
  <2>1. CASE Resumes(c)
    <3>1. drainTask \in Tasks
      BY <2>1 DEF Resumes, TypeOK
    <3>2. /\ drainTask \in Held /\ drainTask \in Inbound /\ drainTask \notin executing
          /\ drainTask \notin ToSet(queue)
      BY <1>d, <3>1 DEF Placement, OnePlace, Accounts, AccountOf, Held
    <3>3. drainTask' = NoTask /\ queue' = queue /\ (StartChat(drainTask) \/ FailStart(drainTask))
      BY <1>9, <2>1 DEF ConnectOk, ConnectFail, ResumeWith
    <3>4. Held' \subseteq Held
      BY <1>d, <3>1, <3>2, <3>3 DEF Held, StartChat, FailStart
    <3> QED BY <1>7, <3>2, <3>3, <3>4
  <2>2. CASE ~Resumes(c)
    BY <1>9, <1>u, <2>2 DEF ConnectOk, ConnectFail, ResumeWith, Held
  <2> QED BY <2>1, <2>2
\* The end of an executing task: its record was executing, and then the report says
\* what became of it, or it had ended already.
<1>10. ASSUME NEW t \in Inbound, t \in executing, t \notin Held', Held' \subseteq Held,
              executing' \subseteq executing,
              NEW s \in {"completed", "failed", "timeout"}, UpdateState(t, s),
              \/ s # "timeout" /\ InMap(t) /\ Report(t, s)
              \/ s # "timeout" /\ ~InMap(t) /\ UNCHANGED reports
              \/ s = "timeout" /\ Report(t, "failed")
       PROVE  HeldAlive' /\ ReportsAgree'
  <2>0. t \in Tasks /\ state[t] \in {"executing", "failed", "timeout", "cancelled"}
    <3>1. t \in Held
      BY <1>10 DEF Held
    <3> QED BY <1>10, <1>t, <3>1 DEF HeldAlive
  <2>1. /\ state[t] = "executing" => state'[t] = s
        /\ state[t] # "executing" => state'[t] = state[t]
        /\ \A u \in Tasks : u # t => state'[u] = state[u]
    <3>1. {"failed", "timeout", "cancelled"} \subseteq Terminal
      BY DEF Terminal
    <3> QED BY <1>10, <2>0, <3>1, Ended
  <2>2. InMap(t) <=> state[t] = "executing"
    BY <2>0 DEF InMap, Active
  <2>3. \A u \in Tasks : u # t => reports'[u] = reports[u]
    BY <1>10, <2>0, Reported
  <2>4. \A r \in {"completed", "failed"} :
           Report(t, r) => ToSet(reports'[t]) = ToSet(reports[t]) \cup {r}
    BY <2>0, Reported
  <2>5. HeldAlive'
    BY <1>10, <1>t, <2>1 DEF HeldAlive
  <2>6. \A u \in Inbound : u # t => Tells(u)
    BY <1>t, <2>1, <2>3 DEF Tells
  <2>7. Tells(t)
    BY <1>10, <2>0, <2>1, <2>2, <2>4 DEF Tells
  <2> QED BY <2>5, <2>6, <2>7, TellsAgrees
<1>11. ASSUME NEW t \in executing, executing' = executing \ {t}, UNCHANGED <<queue, drainTask>>
       PROVE  t \in Inbound /\ t \notin Held' /\ Held' \subseteq Held
  BY <1>11, InboundAssumption DEF Placement, OnePlace, Accounts, AccountOf, Held, TypeOK
<1>12. ASSUME NEW t \in executing, NEW s \in {"completed", "failed"}, EndTask(t, s)
       PROVE  HeldAlive' /\ ReportsAgree'
  <2>1. executing' = executing \ {t} /\ UNCHANGED <<queue, drainTask>>
    BY <1>12 DEF EndTask, KickDrain
  <2> QED BY <1>10, <1>11, <1>12, <2>1 DEF EndTask
<1>13. ASSUME NEW t \in Tasks, ExecTimeout(t) PROVE HeldAlive' /\ ReportsAgree'
  <2>1. t \in executing /\ executing' = executing \ {t} /\ UNCHANGED <<queue, drainTask>>
    BY <1>13 DEF ExecTimeout, KickDrain
  <2> QED BY <1>10, <1>11, <1>13, <2>1 DEF ExecTimeout
<1>14. CASE Close
  <2>1. /\ executing' = {} /\ queue' = <<>> /\ UNCHANGED <<drainTask, wireVars>>
        /\ UpdateStates(executing, "failed")
    BY <1>14 DEF Close
  <2>2. Held' \subseteq Held
    BY <2>1 DEF Held, ToSet
  <2>3. \A u \in Inbound : state'[u] = state[u] \/ (state[u] \in Active /\ state'[u] = "failed")
    <3>1. executing \in SUBSET Tasks
      BY DEF TypeOK
    <3> QED BY <1>a, <1>t, <2>1, <3>1, Moved
  <2> QED BY <1>u, <2>1, <2>2, <2>3
<1> QED BY <1>1, <1>2, <1>3, <1>4, <1>5, <1>6, <1>8, <1>9, <1>12, <1>13, <1>14, UninvolvedSteps
     DEF Next, TaskTable, Gateway, GwFinal, GwError

\* What the proposer was told agrees with the record, whichever of final, error, the
\* task's own timeout, the timeout checker, a cancel and close() came first
\* (executor.ts:266-331, 411-443): "completed" is reported exactly for the tasks whose
\* record says so, "failed" only for one that did not complete.
THEOREM Telling == Spec => []ReportsAgree
PROOF
<1>1. Init => HeldAlive /\ ReportsAgree
  <2> SUFFICES ASSUME Init PROVE HeldAlive /\ ReportsAgree OBVIOUS
  <2> DEFINE A == {t \in Inbound : state[t] = "accepted"}
  <2>1. IsFiniteSet(A)
    BY InboundAssumption, ExecutorAssumption, FS_Subset
  <2>2. ToSet(queue) = A
    BY <2>1, PermutationOf DEF Init
  <2>3. HeldAlive
    BY <2>2, InboundAssumption, ExecutorAssumption DEF Init, HeldAlive, Held
  <2>4. \A u \in Inbound : state[u] # "completed" /\ ToSet(reports[u]) = {}
    BY InboundAssumption DEF Init, ToSet
  <2> QED BY <2>3, <2>4 DEF ReportsAgree
<1> QED BY <1>1, AgreeStep, PlacementAlways, TypeCorrect, PTL DEF Spec

-----------------------------------------------------------------------------
(* No accepted task is forgotten.                                          *)

\* Where a task can be when its record says accepted or executing.
Remembered(t) ==
  /\ state[t] = "accepted" => t \in ToSet(queue) \/ t = drainTask
  /\ state[t] = "executing" => t \in executing \cup Leftover

LEMMA RememberedStep ==
  TypeOK /\ Placement(0) /\ CloseLeavesOne /\ NothingForgotten /\ [Next]_vars => NothingForgotten'
PROOF
<1> SUFFICES ASSUME TypeOK, Placement(0), CloseLeavesOne, NothingForgotten, [Next]_vars,
                    ~closed', NEW u \in Inbound
             PROVE  Remembered(u)'
  BY DEF NothingForgotten, Remembered
<1> USE DEF drainVars, wireVars
<1>0. u \in Tasks /\ state[u] \in TaskState
  BY InboundAssumption DEF TypeOK
<1>a. ~closed => Remembered(u)
  BY DEF NothingForgotten, Remembered
<1>b. ASSUME state'[u] \in {"accepted", "executing"} => state'[u] = state[u], Uninvolved
      PROVE  Remembered(u)'
  BY <1>a, <1>b DEF Uninvolved, Remembered
<1>1. CASE Uninvolved /\ UNCHANGED <<state, wireVars>>
  BY <1>1, <1>b
<1>2. ASSUME NEW t \in Tasks, ProposeOutbound(t) \/ CancelTask(t) PROVE Remembered(u)'
  <2>1. state'[u] \in {"accepted", "executing"} => state'[u] = state[u]
    BY <1>0, <1>2 DEF ProposeOutbound, CancelTask, Create, UpdateState, TypeOK
  <2> QED BY <1>2, <1>b, <2>1, UninvolvedSteps
<1>3. ASSUME NEW t \in Tasks, NEW s \in TaskState, PeerResponse(t, s) PROVE Remembered(u)'
  <2>1. state'[u] = state[u]
    BY <1>0, <1>3 DEF PeerResponse, UpdateState, TypeOK
  <2> QED BY <1>3, <1>b, <2>1, UninvolvedSteps
<1>4. ASSUME NEW S \in SUBSET Tasks, TimeoutCheck(S) PROVE Remembered(u)'
  <2>1. state'[u] \in {"accepted", "executing"} => state'[u] = state[u]
    BY <1>0, <1>4 DEF TimeoutCheck, UpdateStates
  <2> QED BY <1>4, <1>b, <2>1, UninvolvedSteps
<1>5. ASSUME NEW t \in Tasks, AcceptInbound(t) PROVE Remembered(u)'
  <2>1. /\ UNCHANGED <<executing, drainTask, closed>> /\ state[t] = "none"
        /\ state' = [state EXCEPT ![t] = "accepted"]
    BY <1>5 DEF AcceptInbound, Create, Enqueue, KickDrain
  <2>2. t \notin Held
    BY <2>1 DEF Placement, Accounts, AccountOf
  <2>3. ToSet(queue') = ToSet(queue) \cup {t}
    <3>1. queue' = Append(queue, t)
      BY <1>5, <2>1, <2>2 DEF AcceptInbound, Enqueue, Held
    <3>2. queue \in Seq(Tasks)
      BY DEF TypeOK
    <3> QED BY <3>1, <3>2, Pushed
  <2> QED BY <1>0, <1>a, <2>1, <2>3 DEF Remembered, TypeOK
<1>6. CASE DrainLoop
  <2>1. CASE DrainExit
    BY <1>a, <2>1 DEF DrainExit, Remembered
  <2>q. ASSUME queue # <<>>
        PROVE  /\ Head(queue) \in Tasks
               /\ ToSet(queue) = ToSet(Tail(queue)) \cup {Head(queue)}
    BY <2>q, Shifted DEF TypeOK
  <2>n. drainTask \notin Tasks
    BY <1>6, ExecutorAssumption DEF DrainLoop, TypeOK
  <2>2. CASE DrainSkip
    <3>1. /\ queue # <<>> /\ queue' = Tail(queue) /\ Stale(Head(queue))
          /\ UNCHANGED <<state, executing, drainTask, closed>>
      BY <2>2 DEF DrainSkip, CanTake
    <3> QED BY <1>a, <2>q, <3>1 DEF Stale, Remembered
  <2>3. CASE DrainRun
    <3>1. /\ queue # <<>> /\ queue' = Tail(queue) /\ UNCHANGED <<drainTask, closed>>
          /\ state[Head(queue)] = "accepted" /\ StartChat(Head(queue))
      BY <2>3 DEF DrainRun, CanTake, Stale
    <3>2. state' = [state EXCEPT ![Head(queue)] = "executing"]
      BY <3>1, TransitionTable DEF StartChat, UpdateState, CanMove
    <3>3. executing' = executing \cup {Head(queue)}
      BY <3>1 DEF StartChat
    <3> QED BY <1>0, <1>a, <2>q, <3>1, <3>2, <3>3 DEF Remembered, TypeOK
  <2>4. CASE DrainAwait
    <3>1. /\ queue # <<>> /\ queue' = Tail(queue) /\ drainTask' = Head(queue)
          /\ UNCHANGED <<state, executing, closed>>
      BY <2>4 DEF DrainAwait, CanTake
    <3> QED BY <1>0, <1>a, <2>q, <2>n, <3>1 DEF Remembered
  <2> QED BY <1>6, <2>1, <2>2, <2>3, <2>4 DEF DrainLoop
<1>7. ASSUME NEW c \in Conns, ConnectOk(c) \/ ConnectFail(c) PROVE Remembered(u)'
  <2>1. CASE Resumes(c)
    <3>1. drainTask \in Tasks
      BY <2>1 DEF Resumes, TypeOK
    <3>2. UNCHANGED <<queue, closed>> /\ (StartChat(drainTask) \/ FailStart(drainTask))
      BY <1>7, <2>1 DEF ConnectOk, ConnectFail, ResumeWith
    <3>3. CASE u # drainTask
      <4>1. state'[u] = state[u] /\ executing \subseteq executing'
        BY <1>0, <3>2, <3>3 DEF StartChat, FailStart, UpdateState, TypeOK
      <4> QED BY <1>a, <3>2, <3>3, <4>1 DEF Remembered
    <3>4. CASE u = drainTask
      <4>2. CASE StartChat(u)
        <5>1. u \in executing' /\ state'[u] # "accepted"
          BY <1>0, <4>2, TransitionTable DEF StartChat, UpdateState, CanMove, TypeOK
        <5> QED BY <5>1 DEF Remembered
      <4>3. CASE FailStart(u)
        <5>1. /\ state'[u] = IF CanMove(u, "failed") THEN "failed" ELSE state[u]
              /\ executing' = executing
          BY <1>0, <4>3 DEF FailStart, UpdateState, TypeOK
        <5>2. state[u] \in {"accepted", "executing"} => CanMove(u, "failed")
          BY TransitionTable DEF CanMove
        <5> QED BY <5>1, <5>2 DEF Remembered
      <4> QED BY <3>2, <3>4, <4>2, <4>3
    <3> QED BY <3>3, <3>4
  <2>2. CASE ~Resumes(c)
    BY <1>7, <1>b, <2>2 DEF ConnectOk, ConnectFail, ResumeWith, Uninvolved
  <2> QED BY <2>1, <2>2
<1>8. ASSUME NEW t \in Tasks, NEW s \in {"completed", "failed", "timeout"},
             UpdateState(t, s), executing' = executing \ {t}, UNCHANGED <<queue, drainTask, closed>>
      PROVE  Remembered(u)'
  <2>1. state'[t] \notin {"accepted", "executing"}
    <3>1. state[t] \in {"accepted", "executing"} => CanMove(t, s)
      BY <1>8, TransitionTable DEF CanMove
    <3> QED BY <1>8, <3>1 DEF UpdateState, TypeOK
  <2>2. u # t => state'[u] = state[u]
    BY <1>0, <1>8 DEF UpdateState, TypeOK
  <2> QED BY <1>8, <1>a, <2>1, <2>2 DEF Remembered
<1>9. ASSUME NEW t \in Tasks, NEW s \in {"completed", "failed"}, EndTask(t, s) PROVE Remembered(u)'
  BY <1>8, <1>9 DEF EndTask, KickDrain
<1>10. ASSUME NEW t \in Tasks, ExecTimeout(t) PROVE Remembered(u)'
  BY <1>8, <1>10 DEF ExecTimeout, KickDrain
<1> QED BY <1>1, <1>2, <1>3, <1>4, <1>5, <1>6, <1>7, <1>9, <1>10, UninvolvedSteps
     DEF Next, TaskTable, Gateway, GwFinal, GwError, Close

\* Until the executor is closed every accepted inbound task is queued or about to
\* start, and every executing one holds its slot and timers: none is left to the
\* timeout checker alone, but for what a previous process left behind.
THEOREM Remembering == Spec => []NothingForgotten
PROOF
<1>1. Init => NothingForgotten
  <2> SUFFICES ASSUME Init PROVE NothingForgotten OBVIOUS
  <2> DEFINE A == {t \in Inbound : state[t] = "accepted"}
  <2>1. IsFiniteSet(A)
    BY InboundAssumption, ExecutorAssumption, FS_Subset
  <2>2. ToSet(queue) = A
    BY <2>1, PermutationOf DEF Init
  <2> QED BY <2>2, InboundAssumption DEF Init, NothingForgotten
<1> QED BY <1>1, RememberedStep, PlacementAlways, TypeCorrect, AfterClose, PTL DEF Spec

-----------------------------------------------------------------------------
(* The executor drives the task table as the table allows.                 *)

\* Each step of the executor is a step of the task table or leaves it alone.
LEMMA LifecycleStep == TypeOK /\ [Next]_vars => LifecycleNext \/ UNCHANGED state
PROOF
<1> DEFINE Moves == LifecycleNext \/ UNCHANGED state
<1> SUFFICES ASSUME TypeOK, [Next]_vars PROVE Moves OBVIOUS
<1>a. ASSUME NEW t \in Tasks, NEW s \in Active \cup Terminal, UpdateState(t, s) PROVE Moves
  <2>1. UpdateStates({t}, s)
    BY <1>a DEF UpdateState, UpdateStates, TypeOK
  <2> QED BY <2>1 DEF LifecycleNext
<1>b. {"executing", "failed", "timeout", "cancelled", "completed", "accepted", "rejected"}
        \subseteq Active \cup Terminal
  BY DEF Active, Terminal
<1>1. ASSUME NEW t \in Tasks, AcceptInbound(t) \/ ProposeOutbound(t) PROVE Moves
  BY <1>1 DEF AcceptInbound, ProposeOutbound, LifecycleNext
<1>2. ASSUME NEW t \in Tasks, CancelTask(t) \/ ExecTimeout(t) PROVE Moves
  BY <1>2, <1>a, <1>b DEF CancelTask, ExecTimeout
<1>3. ASSUME NEW t \in Tasks, NEW s \in TaskState, PeerResponse(t, s) PROVE Moves
  BY <1>3, <1>a, <1>b DEF PeerResponse
<1>4. ASSUME NEW S \in SUBSET Tasks, TimeoutCheck(S) PROVE Moves
  BY <1>4, <1>b DEF TimeoutCheck, LifecycleNext
<1>5. CASE DrainLoop
  <2>1. CASE DrainRun
    <3>1. Head(queue) \in Tasks /\ UpdateState(Head(queue), "executing")
      BY <2>1, Shifted DEF TypeOK, DrainRun, CanTake, StartChat
    <3> QED BY <1>a, <1>b, <3>1
  <2> QED BY <1>5, <2>1 DEF DrainLoop, DrainExit, DrainSkip, DrainAwait
<1>6. ASSUME NEW c \in Conns, ConnectOk(c) \/ ConnectFail(c) PROVE Moves
  <2>1. CASE Resumes(c)
    <3>1. drainTask \in Tasks
      BY <2>1 DEF Resumes, TypeOK
    <3>2. UpdateState(drainTask, "executing") \/ UpdateState(drainTask, "failed")
      BY <1>6, <2>1 DEF ConnectOk, ConnectFail, ResumeWith, StartChat, FailStart
    <3> QED BY <1>a, <1>b, <3>1, <3>2
  <2>2. CASE ~Resumes(c)
    BY <1>6, <2>2 DEF ConnectOk, ConnectFail, ResumeWith
  <2> QED BY <2>1, <2>2
<1>7. ASSUME NEW t \in Tasks, NEW s \in {"completed", "failed"}, EndTask(t, s) PROVE Moves
  BY <1>7, <1>a, <1>b DEF EndTask
<1>8. CASE Close
  BY <1>8, <1>b DEF Close, TypeOK, LifecycleNext
<1> QED BY <1>1, <1>2, <1>3, <1>4, <1>5, <1>6, <1>7, <1>8, UninvolvedSteps
     DEF Next, TaskTable, Gateway, GwFinal, GwError

\* TaskExecutor implements TaskLifecycle: each of its steps is a step of the task
\* table or leaves it alone.
THEOREM Implements == Spec => LifecycleSpec
PROOF
<1>1. Init => LifecycleInit
  BY DEF Init, LifecycleInit, Active
<1>2. TypeOK /\ [Next]_vars => [LifecycleNext]_state
  BY LifecycleStep
<1> QED BY <1>1, <1>2, TypeCorrect, PTL DEF Spec, LifecycleSpec

-----------------------------------------------------------------------------
(* Over successive processes (TaskRestart).                                *)

RestartTyped == TypeOK /\ DiskTypeOK

\* What start() finds after init(): the tasks queued are the accepted ones of the file.
LEMMA RestartedQueue ==
  ASSUME RestartTyped, Restart
  PROVE  /\ state' \in [Tasks -> TaskState] /\ state' = disk
         /\ queue' \in Seq(Tasks) /\ IsInjective(queue')
         /\ ToSet(queue') = {t \in Inbound : state'[t] = "accepted"}
PROOF
<1> DEFINE A == {t \in Inbound : disk[t] = "accepted"}
<1>1. state' = disk /\ disk \in [Tasks -> TaskState]
  BY DEF Restart, LoadedTasks, RestartTyped, DiskTypeOK
<1>2. IsFiniteSet(A) /\ A \subseteq Tasks
  BY InboundAssumption, ExecutorAssumption, FS_Subset
<1>3. queue' \in SetToSeqs(A)
  BY <1>1 DEF Restart, PickedUp
<1>4. queue' \in Seq(A) /\ ToSet(queue') = A /\ IsInjective(queue')
  BY <1>2, <1>3, PermutationOf
<1>5. queue' \in Seq(Tasks)
  BY <1>2, <1>4, SeqMonotonic
<1> QED BY <1>1, <1>4, <1>5

LEMMA RestartTypedStep == RestartTyped /\ [RestartNext]_restartVars => RestartTyped'
PROOF
<1> SUFFICES ASSUME RestartTyped, [RestartNext]_restartVars PROVE RestartTyped' OBVIOUS
<1>1. CASE ExecutorStep
  <2>1. TypeOK'
    BY <1>1, NextTyped DEF ExecutorStep, RestartTyped
  <2>2. PICK S \in SUBSET {t \in Tasks : state'[t] \in Terminal /\ state'[t] # state[t]} :
          history' = history \cup {<<t, state'[t]>> : t \in S}
    BY <1>1 DEF ExecutorStep, Archive
  <2>3. history' \subseteq Tasks \X Terminal
    BY <2>2 DEF RestartTyped, DiskTypeOK
  <2>4. UNCHANGED <<disk, restarts>>
    BY <1>1 DEF ExecutorStep, Archive
  <2> QED BY <2>1, <2>3, <2>4 DEF RestartTyped, DiskTypeOK
<1>2. CASE Save
  <2>1. UNCHANGED vars /\ disk' = state /\ UNCHANGED <<history, restarts>>
    BY <1>2 DEF Save
  <2> QED BY <2>1, NextTyped DEF RestartTyped, DiskTypeOK, TypeOK
<1>3. CASE Restart
  <2>1. state' \in [Tasks -> TaskState] /\ queue' \in Seq(Tasks)
    BY <1>3, RestartedQueue
  <2>2. TypeOK'
    <3>1. drainPc' \in {"idle", "loop"} /\ drainTask' = NoTask
      BY <1>3 DEF Restart
    <3> QED BY <1>3, <2>1, <3>1, ExecutorAssumption DEF Restart, TypeOK, RestartTyped, GwState, wireVars
  <2>3. DiskTypeOK'
    BY <1>3, RestartAssumption DEF Restart, DiskTypeOK, RestartTyped
  <2> QED BY <2>2, <2>3 DEF RestartTyped
<1>4. CASE UNCHANGED restartVars
  <2>1. UNCHANGED vars /\ UNCHANGED <<disk, history, restarts>>
    BY <1>4 DEF restartVars, diskVars
  <2> QED BY <2>1, NextTyped DEF RestartTyped, DiskTypeOK
<1> QED BY <1>1, <1>2, <1>3, <1>4 DEF RestartNext

\* The executor stays well typed over any number of processes, and so does what is
\* on disk: a restart starts from a table the former process has had.
THEOREM RestartTypeCorrect == RestartSpec => []RestartTyped
PROOF
<1>1. RestartInit => RestartTyped
  <2> SUFFICES ASSUME RestartInit PROVE RestartTyped OBVIOUS
  <2>1. TypeOK
    BY InitTyped DEF RestartInit
  <2> QED BY <2>1, RestartAssumption DEF RestartInit, RestartTyped, DiskTypeOK, TypeOK
<1> QED BY <1>1, RestartTypedStep, PTL DEF RestartSpec

\* What a process promises while it runs, each later process promises too.
Running == ConcurrencyBound /\ NoLostWakeup /\ CloseLeavesOne

\* The limit on running tasks, the wake-ups of the drain and the limit of what close()
\* leaves behind hold in every process, whatever table it found on disk.
THEOREM RestartKeeps == RestartSpec => [](ConcurrencyBound /\ NoLostWakeup /\ CloseLeavesOne)
PROOF
<1>1. RestartInit => Running
  BY FS_EmptySet, ExecutorAssumption
     DEF RestartInit, Init, Running, ConcurrencyBound, NoLostWakeup, CloseLeavesOne
<1>2. RestartTyped /\ Running /\ [RestartNext]_restartVars => Running'
  <2> SUFFICES ASSUME RestartTyped, Running, [RestartNext]_restartVars PROVE Running' OBVIOUS
  <2>1. ASSUME [Next]_vars PROVE Running'
    BY <2>1, ConcurrencyStep, WakeupStep DEF Running, RestartTyped
  <2>2. CASE Restart
    <3>1. Cardinality({}) = 0
      BY FS_EmptySet
    <3>2. executing' = {} /\ closed' = FALSE /\ drainPc' # "await" /\ (drainPc' = "idle" => queue' = <<>>)
      BY <2>2 DEF Restart
    <3> QED BY <3>1, <3>2, ExecutorAssumption DEF Running, ConcurrencyBound, NoLostWakeup, CloseLeavesOne
  <2> QED BY <2>1, <2>2 DEF RestartNext, ExecutorStep, Save, restartVars
<1> QED BY <1>1, <1>2, RestartTypeCorrect, PTL DEF RestartSpec, Running

\* What a step of the task table leaves of a record that was executing or had ended.
LEMMA Lasting ==
  ASSUME TypeOK, NEW u \in Tasks, [Next]_vars
  PROVE  /\ state[u] \in Terminal => state'[u] = state[u]
         /\ state[u] = "executing" => state'[u] \in {"executing"} \cup Terminal
PROOF
<1>1. LifecycleNext \/ UNCHANGED state
  BY LifecycleStep
<1>2. /\ state[u] \in Terminal => \A s : ~CanMove(u, s)
      /\ state[u] = "executing" => \A s : CanMove(u, s) => s \in Terminal
  <2>1. TRANSITIONS["executing"] = {"completed", "failed", "cancelled", "timeout"}
    BY DEF TRANSITIONS, TaskState, Active
  <2> QED BY <2>1, TransitionTable DEF CanMove, Terminal
<1>3. ASSUME NEW t \in Tasks, Create(t)
      PROVE  state[u] = "none" \/ state'[u] = state[u]
  BY <1>3 DEF Create, TypeOK
<1>4. ASSUME NEW S \in SUBSET Tasks, NEW s \in Active \cup Terminal, UpdateStates(S, s)
      PROVE  state'[u] = state[u] \/ (CanMove(u, s) /\ state'[u] = s)
  BY <1>4 DEF UpdateStates
<1>5. "none" \notin Terminal
  BY DEF Terminal
<1> QED BY <1>1, <1>2, <1>3, <1>4, <1>5 DEF LifecycleNext

\* The outcomes of t that reached the history, and how many there can be when k
\* processes went before.
Outcomes(t) == {s \in Terminal : <<t, s>> \in history}

Recorded(k) ==
  \A t \in Tasks : /\ Cardinality(Outcomes(t)) <= k + 1
                   /\ state[t] \notin Terminal => Cardinality(Outcomes(t)) <= k

LEMMA OutcomesFinite ==
  ASSUME NEW H
  PROVE  \A t \in Tasks : /\ IsFiniteSet({s \in Terminal : <<t, s>> \in H})
                          /\ Cardinality({s \in Terminal : <<t, s>> \in H}) \in Nat
PROOF
<1>1. IsFiniteSet(Terminal)
  <2>1. IsFiniteSet({"completed"} \cup {"failed"})
    BY FS_Singleton, FS_Union
  <2>2. IsFiniteSet({"rejected"} \cup {"cancelled"})
    BY FS_Singleton, FS_Union
  <2>3. IsFiniteSet(({"completed"} \cup {"failed"}) \cup ({"rejected"} \cup {"cancelled"}))
    BY <2>1, <2>2, FS_Union
  <2>4. IsFiniteSet((({"completed"} \cup {"failed"}) \cup ({"rejected"} \cup {"cancelled"})) \cup {"timeout"})
    BY <2>3, FS_Singleton, FS_Union
  <2>5. Terminal = (({"completed"} \cup {"failed"}) \cup ({"rejected"} \cup {"cancelled"})) \cup {"timeout"}
    BY DEF Terminal
  <2> QED BY <2>4, <2>5
<1>2. ASSUME NEW t \in Tasks PROVE IsFiniteSet({s \in Terminal : <<t, s>> \in H})
  BY <1>1, FS_Subset
<1> QED BY <1>2, FS_CardinalityType

\* One process records one outcome of a task: it records it when the task ends, and an
\* ended task does not end again.
LEMMA RecordedStep ==
  ASSUME NEW k \in Nat, TypeOK, Recorded(k), Next, Archive
  PROVE  Recorded(k)'
PROOF
<1> DEFINE ended == {t \in Tasks : state'[t] \in Terminal /\ state'[t] # state[t]}
<1>1. PICK S \in SUBSET ended : history' = history \cup {<<t, state'[t]>> : t \in S}
  BY DEF Archive
<1>2. SUFFICES ASSUME NEW t \in Tasks
               PROVE  /\ Cardinality(Outcomes(t)') <= k + 1
                      /\ state'[t] \notin Terminal => Cardinality(Outcomes(t)') <= k
  BY DEF Recorded
<1>3. /\ Cardinality(Outcomes(t)) <= k + 1
      /\ state[t] \notin Terminal => Cardinality(Outcomes(t)) <= k
  BY DEF Recorded
<1>4. IsFiniteSet(Outcomes(t)) /\ Cardinality(Outcomes(t)) \in Nat
  BY OutcomesFinite DEF Outcomes
<1>5. state[t] \in Terminal => state'[t] = state[t]
  BY Lasting
<1>6. CASE t \in S
  <2>1. Outcomes(t)' = Outcomes(t) \cup {state'[t]}
    BY <1>1, <1>6 DEF Outcomes
  <2>2. Cardinality(Outcomes(t)') <= Cardinality(Outcomes(t)) + 1
    <3>1. Cardinality(Outcomes(t) \cup {state'[t]}) =
            IF state'[t] \in Outcomes(t) THEN Cardinality(Outcomes(t)) ELSE Cardinality(Outcomes(t)) + 1
      BY <1>4, FS_AddElement
    <3> QED BY <1>4, <2>1, <3>1
  <2>3. Cardinality(Outcomes(t)') \in Nat
    BY OutcomesFinite DEF Outcomes
  <2>4. state[t] \notin Terminal /\ state'[t] \in Terminal
    BY <1>5, <1>6
  <2> QED BY <1>3, <1>4, <2>2, <2>3, <2>4
<1>7. CASE t \notin S
  <2>1. Outcomes(t)' = Outcomes(t)
    BY <1>1, <1>7 DEF Outcomes
  <2> QED BY <1>3, <1>5, <2>1
<1> QED BY <1>6, <1>7

Redone(k) == Placement(k) /\ Recorded(k)

LEMMA RedoneStep ==
  RestartTyped /\ Redone(restarts) /\ [RestartNext]_restartVars => Redone(restarts)'
PROOF
<1> SUFFICES ASSUME RestartTyped, Redone(restarts), [RestartNext]_restartVars
             PROVE  Redone(restarts)'
  OBVIOUS
<1>0. restarts \in Nat
  BY RestartAssumption DEF RestartTyped, DiskTypeOK
<1>1. PICK k \in Nat : k = restarts
  BY <1>0
<1>2. RestartTyped' /\ TypeOK /\ Placement(k) /\ Recorded(k)
  BY <1>1, RestartTypedStep DEF Redone, RestartTyped
<1>3. CASE ExecutorStep
  <2>1. restarts' = k /\ Next /\ Archive
    BY <1>1, <1>3 DEF ExecutorStep, Archive
  <2>2. Placement(k)' /\ Recorded(k)'
    BY <1>2, <2>1, PlacementStep, RecordedStep
  <2> QED BY <2>1, <2>2 DEF Redone
<1>4. ASSUME UNCHANGED <<vars, history, restarts>> PROVE Redone(restarts)'
  <2>1. Placement(k)'
    BY <1>2, <1>4, PlacementStep
  <2>2. Recorded(k)'
    <3>1. UNCHANGED <<state, history>>
      BY <1>4 DEF vars
    <3> QED BY <1>2, <3>1 DEF Recorded, Outcomes
  <2> QED BY <1>1, <1>4, <2>1, <2>2 DEF Redone
<1>5. CASE Restart
  <2>1. restarts' = k + 1 /\ k + 1 \in Nat
    BY <1>1, <1>5 DEF Restart
  <2>2. /\ state' \in [Tasks -> TaskState] /\ IsInjective(queue')
        /\ ToSet(queue') = {t \in Inbound : state'[t] = "accepted"}
    BY <1>5, RestartedQueue
  <2>3. executing' = {} /\ drainTask' = NoTask /\ UNCHANGED <<chats, reports, history>>
    BY <1>5 DEF Restart, wireVars
  <2>4. OnePlace'
    BY <2>2, <2>3, InboundAssumption, ExecutorAssumption DEF OnePlace
  <2>5. ASSUME NEW t \in Tasks PROVE AccountOf(t, k + 1)'
    <3>1. AccountOf(t, k)
      BY <1>2 DEF Placement, Accounts
    <3>2. chats[t] \in Nat /\ Len(reports[t]) \in Nat
      BY <1>2, Counted
    <3>3. chats'[t] <= k + 1 /\ Len(reports'[t]) <= k + 1
      BY <2>3, <3>1 DEF AccountOf
    <3>4. chats'[t] <= (k + 1) + 1 /\ Len(reports'[t]) <= (k + 1) + 1
      BY <2>3, <3>2, <3>3
    <3>5. t \in Held' => t \in Inbound /\ state'[t] # "none"
      BY <2>2, <2>3 DEF Held
    <3> QED BY <3>3, <3>4, <3>5 DEF AccountOf
  <2>6. ASSUME NEW t \in Tasks
        PROVE  Cardinality(Outcomes(t)') <= k + 1 /\ Cardinality(Outcomes(t)') <= (k + 1) + 1
    <3>1. Outcomes(t)' = Outcomes(t)
      BY <2>3 DEF Outcomes
    <3>2. Cardinality(Outcomes(t)) \in Nat
      BY OutcomesFinite DEF Outcomes
    <3>3. Cardinality(Outcomes(t)) <= k + 1
      BY <1>2 DEF Recorded
    <3> QED BY <3>1, <3>2, <3>3
  <2>7. Placement(k + 1)' /\ Recorded(k + 1)'
    BY <2>4, <2>5, <2>6 DEF Placement, Accounts, Recorded
  <2> QED BY <2>1, <2>7 DEF Redone
<1> QED BY <1>3, <1>4, <1>5 DEF RestartNext, Save, restartVars, diskVars

\* A daemon that is killed and restarted any number of times asks the gateway for a task,
\* tells its proposer and records its outcome at most once per process, although the file
\* it starts from may be older than anything done (tasks.ts:119-127, executor.ts:81-95).
THEOREM OncePerRestart == RestartSpec => []RedoneAtMostOncePerRestart
PROOF
<1>1. RestartInit => Redone(restarts)
  <2> SUFFICES ASSUME RestartInit PROVE Redone(restarts) OBVIOUS
  <2>1. restarts = 0 /\ history = {} /\ Placement(0)
    BY PlacementInit DEF RestartInit
  <2>2. ASSUME NEW t \in Tasks PROVE Cardinality(Outcomes(t)) = 0
    <3>1. Outcomes(t) = {}
      BY <2>1 DEF Outcomes
    <3> QED BY <3>1, FS_EmptySet
  <2>3. Recorded(0)
    <3>1. 0 <= 0 /\ 0 <= 0 + 1
      OBVIOUS
    <3> QED BY <2>2, <3>1, Zenon DEF Recorded
  <2> QED BY <2>1, <2>3 DEF Redone
<1>2. RestartTyped /\ Redone(restarts) => RedoneAtMostOncePerRestart
  <2> SUFFICES ASSUME RestartTyped, Redone(restarts), NEW t \in Tasks
               PROVE  /\ chats[t] <= 1 + restarts
                      /\ Len(reports[t]) <= 1 + restarts
                      /\ Cardinality({s \in Terminal : <<t, s>> \in history}) <= 1 + restarts
    BY DEF RedoneAtMostOncePerRestart
  <2>1. restarts \in Nat /\ restarts + 1 = 1 + restarts
    BY RestartAssumption DEF RestartTyped, DiskTypeOK
  <2>2. /\ chats[t] <= restarts + 1
        /\ Len(reports[t]) <= restarts + 1
        /\ Cardinality(Outcomes(t)) <= restarts + 1
    BY DEF Redone, Placement, Accounts, AccountOf, Recorded
  <2> QED BY <2>1, <2>2 DEF Outcomes
<1> QED BY <1>1, <1>2, RedoneStep, RestartTypeCorrect, PTL DEF RestartSpec

\* Whom a chat.send is made for, and whom the drain holds: the accepted task at the head
\* of the queue or the one the drain was suspended with.
LEMMA Chosen ==
  ASSUME TypeOK, NEW u \in Tasks, [Next]_vars
  PROVE  /\ chats'[u] # chats[u] => u = drainTask \/ state[u] = "accepted"
         /\ u = drainTask' => \/ u = drainTask /\ (state'[u] = state[u] \/ state'[u] # "executing")
                              \/ state[u] = "accepted" /\ state'[u] = state[u]
PROOF
<1> DEFINE Goal == /\ chats'[u] # chats[u] => u = drainTask \/ state[u] = "accepted"
                   /\ u = drainTask' =>
                        \/ u = drainTask /\ (state'[u] = state[u] \/ state'[u] # "executing")
                        \/ state[u] = "accepted" /\ state'[u] = state[u]
<1> USE DEF drainVars, wireVars
<1>a. {"failed", "timeout", "cancelled", "completed", "accepted", "rejected"} \subseteq TaskState
  BY DEF TaskState, Active, Terminal
<1>1. ASSUME UNCHANGED <<chats, drainTask>>, state'[u] = state[u] \/ state'[u] # "executing"
      PROVE  Goal
  BY <1>1
<1>2. ASSUME NEW t \in Tasks, NEW s \in TaskState, s # "executing", UpdateState(t, s)
      PROVE  state'[u] = state[u] \/ state'[u] # "executing"
  BY <1>2 DEF UpdateState, TypeOK
<1>3. ASSUME NEW S \in SUBSET Tasks, NEW s \in TaskState, s # "executing", UpdateStates(S, s)
      PROVE  state'[u] = state[u] \/ state'[u] # "executing"
  BY <1>3 DEF UpdateStates
<1>4. ASSUME NEW t \in Tasks, AcceptInbound(t) \/ ProposeOutbound(t) PROVE Goal
  <2>1. UNCHANGED <<chats, drainTask>> /\ Create(t)
    BY <1>4 DEF AcceptInbound, ProposeOutbound, Enqueue, KickDrain
  <2> QED BY <1>1, <2>1 DEF Create, TypeOK
<1>5. ASSUME NEW t \in Tasks, CancelTask(t) \/ ExecTimeout(t) PROVE Goal
  <2>1. UNCHANGED <<chats, drainTask>> /\ (UpdateState(t, "cancelled") \/ UpdateState(t, "timeout"))
    BY <1>5 DEF CancelTask, ExecTimeout, KickDrain
  <2> QED BY <1>a, <1>1, <1>2, <2>1
<1>6. ASSUME NEW t \in Tasks, NEW s \in TaskState, PeerResponse(t, s) PROVE Goal
  BY <1>6, <1>1, <1>2 DEF PeerResponse
<1>7. ASSUME NEW S \in SUBSET Tasks, TimeoutCheck(S) PROVE Goal
  BY <1>a, <1>7, <1>1, <1>3 DEF TimeoutCheck
<1>8. ASSUME NEW t \in Tasks, NEW s \in {"completed", "failed"}, EndTask(t, s) PROVE Goal
  <2>1. UNCHANGED <<chats, drainTask>> /\ UpdateState(t, s)
    BY <1>8 DEF EndTask, KickDrain
  <2> QED BY <1>a, <1>1, <1>2, <2>1
<1>9. CASE Close
  <2>1. UNCHANGED <<chats, drainTask>> /\ UpdateStates(executing, "failed") /\ executing \in SUBSET Tasks
    BY <1>9 DEF Close, TypeOK
  <2> QED BY <1>a, <1>1, <1>3, <2>1
<1>10. CASE DrainLoop
  <2>1. CASE DrainExit \/ DrainSkip
    BY <2>1, <1>1 DEF DrainExit, DrainSkip
  <2>2. CASE DrainRun
    <3>1. /\ Head(queue) \in Tasks /\ state[Head(queue)] = "accepted"
          /\ drainTask' = drainTask /\ drainTask \notin Tasks /\ StartChat(Head(queue))
      BY <1>10, <2>2, Shifted, ExecutorAssumption DEF TypeOK, DrainLoop, DrainRun, CanTake, Stale
    <3> QED BY <3>1 DEF StartChat, TypeOK
  <2>3. CASE DrainAwait
    <3>1. UNCHANGED <<state, chats>> /\ drainTask' = Head(queue) /\ state[Head(queue)] = "accepted"
      BY <2>3 DEF DrainAwait, Stale
    <3> QED BY <3>1
  <2> QED BY <1>10, <2>1, <2>2, <2>3 DEF DrainLoop
<1>11. ASSUME NEW c \in Conns, ConnectOk(c) \/ ConnectFail(c) PROVE Goal
  <2>1. CASE Resumes(c)
    <3>1. drainTask' \notin Tasks /\ (StartChat(drainTask) \/ FailStart(drainTask))
      BY <1>11, <2>1, ExecutorAssumption DEF ConnectOk, ConnectFail, ResumeWith
    <3>2. chats'[u] # chats[u] => u = drainTask
      BY <3>1 DEF StartChat, FailStart, TypeOK
    <3> QED BY <3>1, <3>2
  <2>2. CASE ~Resumes(c)
    BY <1>11, <2>2, <1>1 DEF ConnectOk, ConnectFail, ResumeWith
  <2> QED BY <2>1, <2>2
<1>12. CASE Uninvolved /\ UNCHANGED <<state, wireVars>>
  BY <1>12, <1>1 DEF Uninvolved
<1> QED BY <1>4, <1>5, <1>6, <1>7, <1>8, <1>9, <1>10, <1>11, <1>12, UninvolvedSteps
     DEF Next, TaskTable, Gateway, GwFinal, GwError

\* The file never runs ahead of the table, and the suspended drain's task has not been
\* asked of the gateway, neither by the table nor by the file.
NotSavedYet ==
  \A t \in Tasks :
    /\ disk[t] = "executing" => state[t] \in {"executing"} \cup Terminal /\ t # drainTask
    /\ t = drainTask => state[t] # "executing"

\* What NotSavedYet gives for one task in one step.
LEMMA SavedRunOnce ==
  ASSUME RestartTyped, NotSavedYet, [RestartNext]_restartVars, NEW t \in Tasks, disk[t] = "executing"
  PROVE  chats'[t] = chats[t]
PROOF
<1>1. state[t] # "accepted" /\ t # drainTask
  BY DEF NotSavedYet, Terminal
<1>2. ASSUME [Next]_vars PROVE chats'[t] = chats[t]
  BY <1>1, <1>2, Chosen DEF RestartTyped
<1>3. CASE Restart
  BY <1>3 DEF Restart, wireVars
<1> QED BY <1>2, <1>3 DEF RestartNext, ExecutorStep, Save, restartVars

LEMMA NotSavedYetStep ==
  RestartTyped /\ NotSavedYet /\ [RestartNext]_restartVars => NotSavedYet'
PROOF
<1> SUFFICES ASSUME RestartTyped, NotSavedYet, [RestartNext]_restartVars, NEW t \in Tasks
             PROVE  /\ disk'[t] = "executing" =>
                         state'[t] \in {"executing"} \cup Terminal /\ t # drainTask'
                    /\ t = drainTask' => state'[t] # "executing"
  BY DEF NotSavedYet
<1>0. /\ disk[t] = "executing" => state[t] \in {"executing"} \cup Terminal /\ t # drainTask
      /\ t = drainTask => state[t] # "executing"
  BY DEF NotSavedYet
<1>1. ASSUME [Next]_vars, UNCHANGED disk
      PROVE  /\ disk'[t] = "executing" =>
                  state'[t] \in {"executing"} \cup Terminal /\ t # drainTask'
             /\ t = drainTask' => state'[t] # "executing"
  <2>1. /\ state[t] \in Terminal => state'[t] = state[t]
        /\ state[t] = "executing" => state'[t] \in {"executing"} \cup Terminal
    BY <1>1, Lasting DEF RestartTyped
  <2>2. t = drainTask' => \/ t = drainTask /\ (state'[t] = state[t] \/ state'[t] # "executing")
                          \/ state[t] = "accepted" /\ state'[t] = state[t]
    BY <1>1, Chosen DEF RestartTyped
  <2>3. "accepted" \notin {"executing"} \cup Terminal
    BY DEF Terminal
  <2> QED BY <1>0, <1>1, <2>1, <2>2, <2>3
<1>2. CASE Save
  BY <1>0, <1>2 DEF Save, vars, drainVars
<1>3. CASE Restart
  <2>1. drainTask' \notin Tasks /\ disk' = state'
    BY <1>3, ExecutorAssumption DEF Restart, LoadedTasks
  <2> QED BY <2>1
<1> QED BY <1>1, <1>2, <1>3 DEF RestartNext, ExecutorStep, Archive, restartVars, diskVars

\* Once the file shows a task executing no process asks the gateway for it again: start()
\* queues accepted tasks only, so a crash loses such a task rather than run it twice
\* (executor.ts:81-95, tasks.ts:44-60).
THEOREM SavedOnce == RestartSpec => SavedExecutingNotRedone
PROOF
<1>1. RestartInit => NotSavedYet
  BY ExecutorAssumption DEF RestartInit, Init, NotSavedYet
<1>2. RestartTyped /\ NotSavedYet /\ [RestartNext]_restartVars
        => [\A t \in Tasks : disk[t] = "executing" => chats'[t] = chats[t]]_restartVars
  BY SavedRunOnce
<1> QED BY <1>1, <1>2, NotSavedYetStep, RestartTypeCorrect, PTL DEF RestartSpec, SavedExecutingNotRedone
=============================================================================
