---------------------------- MODULE TaskExecutor ----------------------------
(***************************************************************************)
(* One daemon running accepted tasks on its local OpenClaw Gateway         *)
(* (agent/executor.ts over agent/tasks.ts and agent/gateway.ts).           *)
(*                                                                         *)
(* The daemon is one Node.js event loop.  Every action but DrainLoop is a  *)
(* callback (a timer, a socket event, an HTTP route, a relay message) and  *)
(* runs only when no microtask is pending (Quiet); DrainLoop is one turn   *)
(* of drainQueue's while loop, cut at the only await that can suspend it   *)
(* across callbacks, the gateway handshake awaited by executeTask.         *)
(***************************************************************************)
EXTENDS TaskLifecycle, Naturals, Sequences, FiniteSets, SequencesExt

CONSTANTS MaxConcurrent,  \* TaskExecutorOptions.maxConcurrent
          Conns,          \* identities for gateway sockets (a bound)
          NoTask, NoConn,
          Leftover,       \* inbound tasks a previous process may have left "executing"
          SilentClose     \* may the gateway drop a socket before its challenge?

ASSUME ExecutorAssumption ==
  /\ IsFiniteSet(Tasks)
  /\ MaxConcurrent \in Nat \ {0}
  /\ NoTask \notin Tasks /\ NoConn \notin Conns
  /\ Leftover \subseteq Inbound
  /\ SilentClose \in BOOLEAN

VARIABLES
  queue,       \* task ids waiting to execute
  executing,   \* keys of the executing map; a key's heartbeat and timeout timers are armed
  drainPc,     \* "idle": draining = false; "loop": a turn is due; "await": in the handshake
  drainTask,   \* the task whose executeTask is suspended, captured before the await
  drainOn,     \* the handshake it awaits, or NoConn: the next gw:ready / gw:error event
  gwState, gwConn,
  sock,        \* each socket: "none", "handshake", "open", "closing"
  reconnect,   \* reconnectTimer is armed
  closed,
  chats,       \* chats[t]: chat.send requests made for t
  reports      \* reports[t]: the report messages sent to t's proposer

drainVars == <<drainPc, drainTask, drainOn>>
gwVars    == <<gwState, gwConn, sock, reconnect>>
wireVars  == <<chats, reports>>
vars == <<state, queue, executing, drainVars, gwVars, closed, wireVars>>

GwState == {"disconnected", "connecting", "ready", "error"}

TypeOK ==
  /\ state \in [Tasks -> TaskState]
  /\ queue \in Seq(Tasks)
  /\ executing \in SUBSET Tasks
  /\ drainPc \in {"idle", "loop", "await"}
  /\ drainTask \in Tasks \cup {NoTask}
  /\ drainPc = "await" <=> drainTask # NoTask
  /\ drainOn \in Conns \cup {NoConn}
  /\ gwState \in GwState
  /\ gwConn \in Conns \cup {NoConn}
  /\ sock \in [Conns -> {"none", "handshake", "open", "closing"}]
  /\ reconnect \in BOOLEAN
  /\ closed \in BOOLEAN
  /\ chats \in [Tasks -> Nat]
  /\ reports \in [Tasks -> Seq({"completed", "failed"})]

\* After tasks.init() and start(): the accepted inbound tasks found on disk are
\* queued in the map's order, and the first enqueue has started a drain.
Init ==
  /\ state \in [Tasks -> {"none", "accepted", "executing"}]
  /\ \A t \in Tasks : /\ t \notin Inbound => state[t] = "none"
                      /\ state[t] = "executing" => t \in Leftover
  /\ queue \in SetToSeqs({t \in Inbound : state[t] = "accepted"})
  /\ executing = {}
  /\ drainPc = IF queue = <<>> THEN "idle" ELSE "loop"
  /\ drainTask = NoTask /\ drainOn = NoConn
  /\ gwState = "disconnected" /\ gwConn = NoConn
  /\ sock = [c \in Conns |-> "none"]
  /\ reconnect = FALSE /\ closed = FALSE
  /\ chats = [t \in Tasks |-> 0]
  /\ reports = [t \in Tasks |-> <<>>]

-----------------------------------------------------------------------------
Quiet == drainPc # "loop"

\* drainQueue() called from a callback: nothing if a drain is under way.
KickDrain ==
  /\ drainPc' = IF drainPc = "idle" THEN "loop" ELSE drainPc
  /\ UNCHANGED <<drainTask, drainOn>>

Report(t, status) == reports' = [reports EXCEPT ![t] = Append(@, status)]

GwUsable == gwConn # NoConn /\ sock[gwConn] = "open"

\* connectGatewayV3 up to its await: a new socket; gwConn keeps the old one.
OpenSocket(c) ==
  /\ sock[c] = "none"
  /\ sock' = [sock EXCEPT ![c] = "handshake"]
  /\ gwState' = "connecting"
  /\ UNCHANGED <<gwConn, reconnect>>

\* Mutant of StartChat: the state is assigned without asking TRANSITIONS.
StartChatUnchecked(t) ==
  /\ state' = [state EXCEPT ![t] = "executing"]
  /\ executing' = executing \cup {t}
  /\ chats' = [chats EXCEPT ![t] = @ + 1]
  /\ UNCHANGED reports

\* executeTask after the await, connected: t is the record captured before it.
StartChat(t) ==
  /\ UpdateState(t, "executing")
  /\ executing' = executing \cup {t}
  /\ chats' = [chats EXCEPT ![t] = @ + 1]
  /\ UNCHANGED reports

\* executeTask after the await, gateway not available.
FailStart(t) ==
  /\ UpdateState(t, "failed")
  /\ Report(t, "failed")
  /\ UNCHANGED <<executing, chats>>

-----------------------------------------------------------------------------
(* The task table: the router, the HTTP API and the timeout checker.       *)

\* Mutant of Enqueue: close() leaves the stateChange listener in place.
EnqueueAfterClose(t) ==
  IF t \in executing \/ t \in ToSet(queue)
  THEN UNCHANGED <<queue, drainVars>>
  ELSE queue' = Append(queue, t) /\ KickDrain

\* enqueue(), called by the stateChange listener that close() removes.
Enqueue(t) ==
  IF closed \/ t \in executing \/ t \in ToSet(queue)
  THEN UNCHANGED <<queue, drainVars>>
  ELSE queue' = Append(queue, t) /\ KickDrain

AcceptInbound(t) ==
  /\ Quiet /\ t \in Inbound
  /\ Create(t)
  /\ Enqueue(t)
  /\ UNCHANGED <<executing, gwVars, closed, wireVars>>

ProposeOutbound(t) ==
  /\ Quiet /\ t \notin Inbound
  /\ Create(t)
  /\ UNCHANGED <<queue, executing, drainVars, gwVars, closed, wireVars>>

\* The peer answers one of our proposals (TaskManager.handleResponse): the
\* executor's listener sees "accepted", and ignores an outbound task.
PeerResponse(t, s) ==
  /\ Quiet /\ t \notin Inbound /\ s \in {"accepted", "rejected", "completed", "failed"}
  /\ UpdateState(t, s)
  /\ UNCHANGED <<queue, executing, drainVars, gwVars, closed, wireVars>>

\* POST /agent/tasks/:id/cancel, or a cancel message from the peer.
CancelTask(t) ==
  /\ Quiet /\ InMap(t)
  /\ UpdateState(t, "cancelled")
  /\ UNCHANGED <<queue, executing, drainVars, gwVars, closed, wireVars>>

\* Mutant of TimeoutCheck: only executing tasks are looked at.
TimeoutCheckExecuting(S) ==
  /\ Quiet /\ \A t \in S : InMap(t)
  /\ UpdateStates({t \in S : state[t] = "executing"}, "timeout")
  /\ UNCHANGED <<queue, executing, drainVars, gwVars, closed, wireVars>>

\* One tick of startTimeoutChecker: the tasks older than max_duration_s.  The
\* executor is not told.
TimeoutCheck(S) ==
  /\ Quiet /\ \A t \in S : InMap(t)
  /\ UpdateStates(S, "timeout")
  /\ UNCHANGED <<queue, executing, drainVars, gwVars, closed, wireVars>>

-----------------------------------------------------------------------------
(* drainQueue's while loop.                                                *)

\* Mutant of Stale: the direction test inverted.
StaleInbound(t) == state[t] # "accepted" \/ t \in Inbound

Stale(t) == state[t] # "accepted" \/ t \notin Inbound

\* Mutant of CanTake: one slot too many.
CanTakeOneMore == queue # <<>> /\ Cardinality(executing) <= MaxConcurrent /\ ~closed

CanTake == queue # <<>> /\ Cardinality(executing) < MaxConcurrent /\ ~closed

DrainExit ==
  /\ ~CanTake
  /\ drainPc' = "idle"
  /\ UNCHANGED <<state, queue, executing, drainTask, drainOn, gwVars, closed, wireVars>>

DrainSkip ==
  /\ CanTake /\ Stale(Head(queue))
  /\ queue' = Tail(queue)
  /\ UNCHANGED <<state, executing, drainVars, gwVars, closed, wireVars>>

\* ensureConnection answers at once: the gateway is ready.
DrainRun ==
  /\ CanTake /\ ~Stale(Head(queue))
  /\ gwState = "ready" /\ GwUsable
  /\ queue' = Tail(queue)
  /\ StartChat(Head(queue))
  /\ UNCHANGED <<drainVars, gwVars, closed>>

\* ensureConnection waits: for the events of a handshake under way, or for one
\* of its own.
DrainAwait ==
  /\ CanTake /\ ~Stale(Head(queue))
  /\ ~(gwState = "ready" /\ GwUsable)
  /\ queue' = Tail(queue)
  /\ drainPc' = "await" /\ drainTask' = Head(queue)
  /\ \/ gwState = "connecting" /\ drainOn' = NoConn /\ UNCHANGED gwVars
     \/ gwState # "connecting" /\ \E c \in Conns : OpenSocket(c) /\ drainOn' = c
  /\ UNCHANGED <<state, executing, closed, wireVars>>

DrainLoop == drainPc = "loop" /\ (DrainExit \/ DrainSkip \/ DrainRun \/ DrainAwait)

-----------------------------------------------------------------------------
(* The gateway connection.                                                 *)

Resumes(c) == drainPc = "await" /\ drainOn \in {c, NoConn}

ResumeWith(c, Body(_)) ==
  IF Resumes(c)
  THEN /\ Body(drainTask)
       /\ drainPc' = "loop" /\ drainTask' = NoTask /\ drainOn' = NoConn
  ELSE UNCHANGED <<state, executing, drainVars, wireVars>>

\* hello-ok: connectGatewayV3 resolves, whatever happened to gwState or to
\* closed during its await.
ConnectOk(c) ==
  /\ Quiet /\ sock[c] = "handshake"
  /\ sock' = [sock EXCEPT ![c] = "open"]
  /\ gwConn' = c /\ gwState' = "ready"
  /\ ResumeWith(c, StartChat)
  /\ UNCHANGED <<queue, reconnect, closed>>

\* The handshake errors, is refused or times out.
ConnectFail(c) ==
  /\ Quiet /\ sock[c] = "handshake"
  /\ sock' = [sock EXCEPT ![c] = "none"]
  /\ gwState' = "error"
  /\ ResumeWith(c, FailStart)
  /\ UNCHANGED <<gwConn, queue, reconnect, closed>>

\* The socket closes before connect.challenge: connectGateway's close handler
\* clears the timeout and rejects pendingRequests, still empty, so its promise
\* never settles.
ConnectDropped(c) ==
  /\ SilentClose /\ Quiet /\ sock[c] = "handshake"
  /\ sock' = [sock EXCEPT ![c] = "none"]
  /\ UNCHANGED <<state, queue, executing, drainVars, gwState, gwConn, reconnect, closed, wireVars>>

\* The gateway closes the socket: readyState is CLOSING until "close" fires.
\* Bound: a spare identity remains for the next socket.
SocketClosing(c) ==
  /\ Quiet /\ sock[c] = "open" /\ \E d \in Conns : sock[d] = "none"
  /\ sock' = [sock EXCEPT ![c] = "closing"]
  /\ UNCHANGED <<state, queue, executing, drainVars, gwState, gwConn, reconnect, closed, wireVars>>

\* conn.ws.on("close"): it does not look at which socket gwConn holds.
SocketClosed(c) ==
  /\ Quiet /\ sock[c] = "closing"
  /\ sock' = [sock EXCEPT ![c] = "none"]
  /\ gwState' = "disconnected" /\ gwConn' = NoConn
  /\ reconnect' = (reconnect \/ (gwState = "ready" /\ ~closed))
  /\ UNCHANGED <<state, queue, executing, drainVars, closed, wireVars>>

ReconnectFires ==
  /\ Quiet /\ reconnect
  /\ \/ /\ ~closed /\ (executing # {} \/ queue # <<>>)
        /\ ~(gwState = "ready" /\ GwUsable) /\ gwState # "connecting"
        /\ \E c \in Conns : sock[c] = "none" /\ sock' = [sock EXCEPT ![c] = "handshake"]
        /\ gwState' = "connecting"
     \/ /\ closed \/ (executing = {} /\ queue = <<>>)
           \/ (gwState = "ready" /\ GwUsable) \/ gwState = "connecting"
        /\ UNCHANGED <<sock, gwState>>
  /\ reconnect' = FALSE
  /\ UNCHANGED <<state, queue, executing, drainVars, gwConn, closed, wireVars>>

-----------------------------------------------------------------------------
(* The end of a task.                                                      *)

\* Mutants of EndTask: it reports without looking the record up; it keeps the slot
\* and the timers; it does not drain the queue.
EndTaskBlindReport(t, s) ==
  /\ UpdateState(t, s)
  /\ Report(t, s)
  /\ executing' = executing \ {t}
  /\ KickDrain
  /\ UNCHANGED <<queue, gwVars, closed, chats>>

EndTaskKeepsSlot(t, s) ==
  /\ UpdateState(t, s)
  /\ IF InMap(t) THEN Report(t, s) ELSE UNCHANGED reports
  /\ KickDrain
  /\ UNCHANGED <<queue, executing, gwVars, closed, chats>>

EndTaskNoDrain(t, s) ==
  /\ UpdateState(t, s)
  /\ IF InMap(t) THEN Report(t, s) ELSE UNCHANGED reports
  /\ executing' = executing \ {t}
  /\ UNCHANGED <<queue, drainVars, gwVars, closed, chats>>

\* handleTaskFinal and handleTaskError: a report only if the record is still
\* in the map.
EndTask(t, s) ==
  /\ UpdateState(t, s)
  /\ IF InMap(t) THEN Report(t, s) ELSE UNCHANGED reports
  /\ executing' = executing \ {t}
  /\ KickDrain
  /\ UNCHANGED <<queue, gwVars, closed, chats>>

Delivers == \E c \in Conns : sock[c] = "open"

GwFinal(t) == Quiet /\ t \in executing /\ Delivers /\ EndTask(t, "completed")
GwError(t) == Quiet /\ t \in executing /\ Delivers /\ EndTask(t, "failed")

\* Mutant of ExecTimeout: it does not drain the queue.
ExecTimeoutNoDrain(t) ==
  /\ Quiet /\ t \in executing
  /\ UpdateState(t, "timeout")
  /\ Report(t, "failed")
  /\ executing' = executing \ {t}
  /\ UNCHANGED <<queue, drainVars, gwVars, closed, chats>>

\* The task's own timeout timer: chat.abort, then a report in any case.
ExecTimeout(t) ==
  /\ Quiet /\ t \in executing
  /\ UpdateState(t, "timeout")
  /\ Report(t, "failed")
  /\ executing' = executing \ {t}
  /\ KickDrain
  /\ UNCHANGED <<queue, gwVars, closed, chats>>

Close ==
  /\ Quiet /\ ~closed
  /\ closed' = TRUE
  /\ reconnect' = FALSE
  /\ UpdateStates(executing, "failed")
  /\ executing' = {} /\ queue' = <<>>
  /\ sock' = IF GwUsable THEN [sock EXCEPT ![gwConn] = "closing"] ELSE sock
  /\ gwConn' = NoConn /\ gwState' = "disconnected"
  /\ UNCHANGED <<drainVars, wireVars>>

-----------------------------------------------------------------------------
TaskTable ==
  \/ \E t \in Tasks : \/ AcceptInbound(t) \/ ProposeOutbound(t) \/ CancelTask(t)
                      \/ \E s \in TaskState : PeerResponse(t, s)
  \/ \E S \in SUBSET Tasks : TimeoutCheck(S)

Gateway ==
  \/ \E c \in Conns : \/ ConnectOk(c) \/ ConnectFail(c) \/ ConnectDropped(c)
                      \/ SocketClosing(c) \/ SocketClosed(c)
  \/ \E t \in Tasks : GwFinal(t) \/ GwError(t)

Next == TaskTable \/ DrainLoop \/ Gateway \/ ReconnectFires
        \/ (\E t \in Tasks : ExecTimeout(t)) \/ Close

\* Microtasks run; a handshake settles (connectTimeoutMs); armed timers fire; a
\* closing socket closes; the timeout checker ticks past every task's age.
Fairness ==
  /\ WF_vars(DrainLoop)
  /\ \A c \in Conns : /\ WF_vars(ConnectOk(c) \/ ConnectFail(c))
                      /\ WF_vars(SocketClosed(c))
  /\ WF_vars(ReconnectFires)
  /\ \A t \in Tasks : /\ WF_vars(ExecTimeout(t))
                      /\ WF_vars(\E S \in SUBSET Tasks : t \in S /\ TimeoutCheck(S))

Spec     == Init /\ [][Next]_vars
FairSpec == Spec /\ Fairness

-----------------------------------------------------------------------------
(* Safety.                                                                 *)

\* drainQueue tests executing.size before its await and adds to executing after
\* it (executor.ts:343, 391): max_concurrent_tasks holds all the same, because a
\* single drain is ever under way.
ConcurrencyBound ==
  /\ Cardinality(executing) <= MaxConcurrent
  /\ drainPc = "await" => Cardinality(executing) < MaxConcurrent

\* A task is in one place of the executor at most - waiting once in the queue, held
\* by the suspended drain, or executing - so it gets one chat.send and one report.
OnePlace ==
  /\ IsInjective(queue)
  /\ \A t \in ToSet(queue) : t \notin executing /\ t # drainTask
  /\ drainTask \notin executing

\* The gateway is asked at most once per task and the proposer gets at most one
\* report, whichever of final, error, timeout, failed handshake and close race.
OnceEach ==
  \A t \in Tasks : /\ chats[t] <= 1
                   /\ Len(reports[t]) <= 1

\* What the proposer was told agrees with the record: "completed" is reported
\* exactly for the inbound tasks that completed, "failed" only for one that ended.
ReportsAgree ==
  \A t \in Inbound :
    /\ "completed" \in ToSet(reports[t]) <=> state[t] = "completed"
    /\ "failed" \in ToSet(reports[t]) => state[t] \in {"failed", "timeout", "cancelled"}

\* No task is forgotten while the executor runs: an accepted inbound task is
\* queued or held by the drain, and an executing one has its slot and timers -
\* except a Leftover: start() picks up "accepted" records only.
NothingForgotten ==
  ~closed =>
    \A t \in Inbound :
      /\ state[t] = "accepted" => t \in ToSet(queue) \/ t = drainTask
      /\ state[t] = "executing" => t \in executing \cup Leftover

\* No lost wake-up: an idle drain leaves tasks waiting only if every slot is taken.
NoLostWakeup ==
  (drainPc = "idle" /\ queue # <<>>) => Cardinality(executing) >= MaxConcurrent

\* close() during the handshake is survived by at most the one suspended task.
CloseLeavesOne ==
  closed => /\ queue = <<>>
            /\ Cardinality(executing) <= 1
            /\ drainPc = "await" => executing = {}

-----------------------------------------------------------------------------
(* Steps and liveness.                                                     *)

\* Every task reaches a terminal state.
EveryTaskEnds == \A t \in Tasks : (state[t] \in Active) ~> (state[t] \in Terminal)

\* Nothing waits or holds a slot for ever.
QueueMoves == \A t \in Tasks :
  (t \in ToSet(queue) \cup executing \/ t = drainTask)
     ~> (t \notin ToSet(queue) \cup executing /\ t # drainTask)

=============================================================================
