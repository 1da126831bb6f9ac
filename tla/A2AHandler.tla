----------------------------- MODULE A2AHandler -----------------------------
(***************************************************************************)
(* tasks/send requests (a2a/handler.ts, behind POST /a2a of api/server.ts) *)
(* over a connection to the gateway that they share.                       *)
(*                                                                         *)
(* A promise that settles and the continuations that await it are one      *)
(* step: no other callback of Node runs in between.  What persistTask      *)
(* writes is DebouncedStore's.                                             *)
(***************************************************************************)
EXTENDS Integers, FiniteSets

CONSTANTS Requests,
          MaxConcurrent,
          Sockets,        \* calls of connectGateway; each is some request's
          NoSocket

ASSUME A2AAssumption ==
  /\ IsFiniteSet(Requests) /\ IsFiniteSet(Sockets) /\ MaxConcurrent \in Nat
  /\ Cardinality(Sockets) >= Cardinality(Requests) /\ NoSocket \notin Sockets

VARIABLES
  task,        \* task[r]: "none", a state of A2ATask, or "refused" for an error reply
  attempt,     \* the connection attempt r awaits, or the connection it was sent on
  activeTasks,
  sessions,    \* requests in the sessions map, each with its timer
  conn, connecting,
  retries,     \* timers of scheduleReconnect
  stopped,     \* the daemon has closed the handler
  sock         \* see Gateway

connVars == <<conn, connecting, retries, stopped, sock>>
vars == <<task, attempt, activeTasks, sessions, connVars>>

Link == INSTANCE Gateway

Ended == {"completed", "failed"}

TypeOK ==
  /\ task \in [Requests -> {"none", "refused", "submitted", "working"} \cup Ended]
  /\ attempt \in [Requests -> Sockets \cup {NoSocket}]
  /\ activeTasks \in 0 .. MaxConcurrent
  /\ sessions \subseteq Requests
  /\ conn \in Sockets \cup {NoSocket} /\ connecting \in Sockets \cup {NoSocket}
  /\ retries \in 0 .. Cardinality(Sockets)
  /\ stopped \in BOOLEAN
  /\ sock \in [Sockets -> Link!Phase]

Init ==
  /\ task = [r \in Requests |-> "none"] /\ attempt = [r \in Requests |-> NoSocket]
  /\ activeTasks = 0 /\ sessions = {}
  /\ conn = NoSocket /\ connecting = NoSocket /\ retries = 0 /\ stopped = FALSE
  /\ Link!GatewayInit

-----------------------------------------------------------------------------
\* tasks/send.

Move(R, s) == task' = [r \in Requests |-> IF r \in R THEN s ELSE task[r]]

\* Requests R leave handleTaskSend with a task in state s.
End(R, s) ==
  /\ Move(R, s)
  /\ sessions' = sessions \ R
  /\ activeTasks' = activeTasks - Cardinality(R)

\* The message is invalid, or too many tasks are active.
Refuse(r) ==
  /\ task[r] = "none"
  /\ Move({r}, "refused")
  /\ UNCHANGED <<attempt, activeTasks, sessions, connVars>>

Usable == conn # NoSocket /\ sock[conn] = "open"

\* getConnection: the connection, the attempt under way, or a new attempt.
HandleTaskSend(r) ==
  /\ task[r] = "none" /\ activeTasks < MaxConcurrent /\ ~stopped
  /\ activeTasks' = activeTasks + 1
  /\ \/ /\ Usable
        /\ Move({r}, "working") /\ sessions' = sessions \cup {r}
        /\ attempt' = [attempt EXCEPT ![r] = conn]
        /\ UNCHANGED <<connecting, sock>>
     \/ /\ ~Usable /\ connecting # NoSocket
        /\ Move({r}, "submitted") /\ attempt' = [attempt EXCEPT ![r] = connecting]
        /\ UNCHANGED <<sessions, connecting, sock>>
     \/ /\ ~Usable /\ connecting = NoSocket
        /\ \E s \in Sockets :
             /\ Link!Dial(s)
             /\ connecting' = s /\ attempt' = [attempt EXCEPT ![r] = s]
        /\ Move({r}, "submitted") /\ UNCHANGED sessions
  /\ UNCHANGED <<conn, retries, stopped>>

AwaitedBy(s) == {r \in Requests : task[r] = "submitted" /\ attempt[r] = s}

\* connect() goes on: every request that awaited it is sent.  The finally clause clears
\* connecting, whatever attempt it holds by now.
Connected(s) ==
  /\ Link!HelloOk(s)
  /\ conn' = s /\ connecting' = NoSocket
  /\ Move(AwaitedBy(s), "working")
  /\ sessions' = sessions \cup AwaitedBy(s)
  /\ UNCHANGED <<attempt, activeTasks, retries, stopped>>

\* Mutant of ConnectFailed: the slot is not given back.
ConnectFailedLeaks(s) ==
  /\ Link!Rejects(s)
  /\ connecting' = NoSocket
  /\ Move(AwaitedBy(s), "failed")
  /\ UNCHANGED <<attempt, activeTasks, sessions, conn, retries, stopped>>

ConnectFailed(s) ==
  /\ Link!Rejects(s)
  /\ connecting' = NoSocket
  /\ End(AwaitedBy(s), "failed")
  /\ UNCHANGED <<attempt, conn, retries, stopped>>

\* The parts of the handshake nobody here is told of.
Handshake(s) ==
  /\ Link!Challenge(s) \/ Link!SilentClose(s) \/ Link!Closing(s)
  /\ UNCHANGED <<task, attempt, activeTasks, sessions, conn, connecting, retries, stopped>>

-----------------------------------------------------------------------------
\* How a request that was sent ends.

\* The final or the error event of its session.
Answered(r) ==
  /\ r \in sessions /\ sock[attempt[r]] = "open"
  /\ \E s \in Ended : End({r}, s)
  /\ UNCHANGED <<attempt, connVars>>

SessionTimer(r) ==
  /\ r \in sessions
  /\ End({r}, "failed")
  /\ UNCHANGED <<attempt, connVars>>

\* Mutant of Closed: the sessions are dropped and nobody is told.
ClosedSilently(s) ==
  /\ Link!CloseEvent(s)
  /\ conn' = NoSocket /\ retries' = retries + 1 /\ sessions' = {}
  /\ UNCHANGED <<task, attempt, activeTasks, connecting, stopped>>

\* The close event of any connection that was open once, the present one or not.
Closed(s) ==
  /\ Link!CloseEvent(s)
  /\ conn' = NoSocket /\ retries' = retries + 1
  /\ End(sessions, "failed")
  /\ UNCHANGED <<attempt, connecting, stopped>>

\* The timer of scheduleReconnect forgets the attempt under way.
ForgetAttempt ==
  /\ retries > 0 /\ retries' = retries - 1
  /\ connecting' = NoSocket
  /\ UNCHANGED <<task, attempt, activeTasks, sessions, conn, stopped, sock>>

\* close(), as the daemon stops; an attempt under way goes on.
Close ==
  /\ ~stopped /\ stopped' = TRUE
  /\ End(sessions, "failed")
  /\ IF Usable THEN Link!Closing(conn) ELSE UNCHANGED sock
  /\ conn' = NoSocket /\ connecting' = NoSocket
  /\ UNCHANGED <<attempt, retries>>

Next ==
  \/ \E r \in Requests : \/ Refuse(r) \/ HandleTaskSend(r)
                         \/ Answered(r) \/ SessionTimer(r)
  \/ \E s \in Sockets : \/ Connected(s) \/ ConnectFailed(s) \/ Handshake(s) \/ Closed(s)
  \/ ForgetAttempt \/ Close

Spec == Init /\ [][Next]_vars

\* Timers fire: the connection timeout, the session timers.  A socket that is closing
\* closes.
FairSpec ==
  /\ Spec
  /\ \A s \in Sockets : WF_vars(ConnectFailed(s)) /\ WF_vars(Closed(s))
  /\ \A r \in Requests : WF_vars(SessionTimer(r))

-----------------------------------------------------------------------------
\* Properties.

\* Every way out of handleTaskSend gives its slot back once: the count that refuses
\* requests is the number of those that are under way.
SlotsComeBack ==
  activeTasks = Cardinality({r \in Requests : task[r] \in {"submitted", "working"}})

\* A request that was sent is answered, whatever became of its connection.
SentRequestsEnd == \A r \in Requests : task[r] = "working" ~> task[r] \in Ended
=============================================================================
