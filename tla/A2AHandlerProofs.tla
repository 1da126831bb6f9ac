--------------------------- MODULE A2AHandlerProofs ---------------------------
(* Machine-checked properties of A2AHandler, for every set of requests, every *)
(* set of sockets and every MaxConcurrent; and, at the end, of the            *)
(* DebouncedStore that keeps its tasks, for any number of flushes and changes. *)
EXTENDS A2AHandler, DebouncedStore, FiniteSetTheorems, TLAPS

States   == {"none", "refused", "submitted", "working"} \cup Ended
Underway == {r \in Requests : task[r] \in {"submitted", "working"}}

Typed ==
  /\ task \in [Requests -> States]
  /\ activeTasks \in 0 .. MaxConcurrent

\* A request is in the sessions map exactly while it is sent and not answered.
SessionsMatch == sessions = {r \in Requests : task[r] = "working"}

IInv == Typed /\ SessionsMatch /\ SlotsComeBack

-----------------------------------------------------------------------------
(* Lemmas on what leaves, enters and stays under way.                      *)

\* Requests that leave together give as many slots back as they hold.
LEMMA Leave ==
  ASSUME IInv, NEW R \in SUBSET Underway, NEW s \in Ended, End(R, s),
         R \subseteq sessions \/ R \cap sessions = {}
  PROVE  IInv'
<1>1. IsFiniteSet(Underway)
  BY A2AAssumption, FS_Subset DEF Underway
<1>2. /\ Cardinality(Underway \ R) = Cardinality(Underway) - Cardinality(R)
      /\ Cardinality(R) \in Nat /\ Cardinality(Underway \ R) \in Nat
  <2>1. Underway \cap R = R
    OBVIOUS
  <2>2. IsFiniteSet(R) /\ IsFiniteSet(Underway \ R)
    BY <1>1, FS_Subset
  <2>3. Cardinality(Underway \ R) = Cardinality(Underway) - Cardinality(R)
    BY <1>1, <2>1, FS_Difference
  <2>. QED
    BY <2>2, <2>3, FS_CardinalityType
<1>3. /\ task' \in [Requests -> States]
      /\ \A r \in Requests : task'[r] = IF r \in R THEN s ELSE task[r]
  BY DEF End, Move, IInv, Typed, States
<1>4. s \notin {"submitted", "working"}
  BY DEF Ended
<1>5. Underway' = Underway \ R
  BY <1>3, <1>4 DEF Underway
<1>6. SessionsMatch'
  BY <1>3, <1>4 DEF SessionsMatch, End, IInv
<1>7. SlotsComeBack'
  BY <1>2, <1>5 DEF SlotsComeBack, Underway, End, IInv
<1>8. activeTasks' \in 0 .. MaxConcurrent
  BY <1>2, A2AAssumption DEF End, IInv, Typed, SlotsComeBack, Underway
<1>. QED
  BY <1>3, <1>6, <1>7, <1>8 DEF IInv, Typed

\* A request that enters takes one slot.
LEMMA Enter ==
  ASSUME IInv, NEW r \in Requests, task[r] = "none", activeTasks < MaxConcurrent,
         activeTasks' = activeTasks + 1,
         NEW s \in {"submitted", "working"}, Move({r}, s),
         sessions' = IF s = "working" THEN sessions \cup {r} ELSE sessions
  PROVE  IInv'
<1>1. IsFiniteSet(Underway) /\ r \notin Underway
  BY A2AAssumption, FS_Subset DEF Underway
<1>2. Cardinality(Underway \cup {r}) = Cardinality(Underway) + 1
  BY <1>1, FS_AddElement
<1>3. /\ task' \in [Requests -> States]
      /\ \A q \in Requests : task'[q] = IF q = r THEN s ELSE task[q]
  BY DEF Move, IInv, Typed, States
<1>4. Underway' = Underway \cup {r}
  BY <1>3 DEF Underway
<1>5. SlotsComeBack'
  BY <1>2, <1>4 DEF SlotsComeBack, Underway, IInv
<1>6. SessionsMatch'
  BY <1>3 DEF SessionsMatch, IInv
<1>. QED
  BY <1>3, <1>5, <1>6, A2AAssumption DEF IInv, Typed

\* What the handler keeps of its requests is the same.
LEMMA Stay ==
  ASSUME IInv, UNCHANGED <<task, activeTasks, sessions>>
  PROVE  IInv'
BY DEF IInv, Typed, SessionsMatch, SlotsComeBack

-----------------------------------------------------------------------------
(* The invariant.                                                          *)

LEMMA Initially == Init => IInv
<1>. SUFFICES ASSUME Init PROVE IInv
  OBVIOUS
<1>1. {r \in Requests : task[r] \in {"submitted", "working"}} = {}
  BY DEF Init
<1>2. SlotsComeBack
  BY <1>1, FS_EmptySet DEF Init, SlotsComeBack
<1>. QED
  BY <1>2, A2AAssumption DEF Init, IInv, Typed, States, SessionsMatch

\* Every request that awaits s is under way, and none of them is sent.
LEMMA Awaiting ==
  ASSUME IInv, NEW s \in Sockets
  PROVE  AwaitedBy(s) \in SUBSET Underway /\ AwaitedBy(s) \cap sessions = {}
BY DEF AwaitedBy, Underway, IInv, SessionsMatch

LEMMA Sessions ==
  ASSUME IInv
  PROVE  sessions \in SUBSET Underway
BY DEF Underway, IInv, SessionsMatch

LEMMA RequestSteps ==
  ASSUME IInv, NEW r \in Requests,
         Refuse(r) \/ HandleTaskSend(r) \/ Answered(r) \/ SessionTimer(r)
  PROVE  IInv'
<1>1. CASE Refuse(r)
  <2>1. /\ task' \in [Requests -> States]
        /\ \A q \in Requests : task'[q] = IF q = r THEN "refused" ELSE task[q]
    BY <1>1 DEF Refuse, Move, IInv, Typed, States
  <2>2. Underway' = Underway /\ SessionsMatch'
    BY <1>1, <2>1 DEF Refuse, Underway, SessionsMatch, IInv
  <2>. QED
    BY <1>1, <2>1, <2>2 DEF Refuse, IInv, Typed, SlotsComeBack, Underway
<1>2. CASE HandleTaskSend(r)
  BY <1>2, Enter DEF HandleTaskSend
<1>3. CASE Answered(r)
  <2>1. {r} \in SUBSET Underway /\ {r} \subseteq sessions
    BY <1>3, Sessions DEF Answered
  <2>. QED
    BY <1>3, <2>1, Leave DEF Answered
<1>4. CASE SessionTimer(r)
  <2>1. {r} \in SUBSET Underway /\ {r} \subseteq sessions
    BY <1>4, Sessions DEF SessionTimer
  <2>. QED
    BY <1>4, <2>1, Leave DEF SessionTimer, Ended
<1>. QED
  BY <1>1, <1>2, <1>3, <1>4

LEMMA SocketSteps ==
  ASSUME IInv, NEW s \in Sockets,
         Connected(s) \/ ConnectFailed(s) \/ Handshake(s) \/ Closed(s)
  PROVE  IInv'
<1>1. CASE Connected(s)
  <2>1. /\ task' \in [Requests -> States]
        /\ \A r \in Requests : task'[r] = IF r \in AwaitedBy(s) THEN "working" ELSE task[r]
    BY <1>1 DEF Connected, Move, IInv, Typed, States
  <2>2. Underway' = Underway
    BY <2>1, Awaiting DEF Underway
  <2>3. SessionsMatch'
    BY <1>1, <2>1, Awaiting DEF Connected, SessionsMatch, Underway, IInv
  <2>. QED
    BY <1>1, <2>1, <2>2, <2>3 DEF Connected, IInv, Typed, SlotsComeBack, Underway
<1>2. CASE ConnectFailed(s)
  BY <1>2, Awaiting, Leave DEF ConnectFailed, Ended
<1>3. CASE Handshake(s)
  BY <1>3, Stay DEF Handshake
<1>4. CASE Closed(s)
  BY <1>4, Sessions, Leave DEF Closed, Ended
<1>. QED
  BY <1>1, <1>2, <1>3, <1>4

LEMMA Step == IInv /\ [Next]_vars => IInv'
<1>. SUFFICES ASSUME IInv, [Next]_vars PROVE IInv'
  OBVIOUS
<1>1. CASE \E r \in Requests : Refuse(r) \/ HandleTaskSend(r) \/ Answered(r) \/ SessionTimer(r)
  BY <1>1, RequestSteps
<1>2. CASE \E s \in Sockets : Connected(s) \/ ConnectFailed(s) \/ Handshake(s) \/ Closed(s)
  BY <1>2, SocketSteps
<1>3. CASE ForgetAttempt
  BY <1>3, Stay DEF ForgetAttempt
<1>4. CASE Close
  BY <1>4, Sessions, Leave DEF Close, Ended
<1>5. CASE UNCHANGED vars
  BY <1>5, Stay DEF vars
<1>. QED
  BY <1>1, <1>2, <1>3, <1>4, <1>5 DEF Next

\* Every way out of handleTaskSend gives its slot back once (a2a/handler.ts:52): the
\* count that refuses requests is always that of the requests under way.
THEOREM Slots == Spec => []SlotsComeBack
<1>1. IInv => SlotsComeBack
  BY DEF IInv
<1>. QED
  BY Initially, Step, <1>1, PTL DEF Spec

\* The sessions map holds exactly the requests that are sent and not answered: none is
\* left waiting that nobody will answer, and none is answered twice.
THEOREM OpenSessions == Spec => [](SessionsMatch /\ Typed)
<1>1. IInv => SessionsMatch /\ Typed
  BY DEF IInv
<1>. QED
  BY Initially, Step, <1>1, PTL DEF Spec

-----------------------------------------------------------------------------
(* The requests and their connections.                                     *)

Gone == {s \in Sockets : sock[s] = "gone"}

\* Every request under way hangs on an attempt that can still settle (or on one that the
\* gateway closed before its challenge, and that never will) or on a connection that has
\* not ended.
Attached ==
  \A r \in Requests :
    /\ task[r] = "submitted" => attempt[r] \in Sockets /\ sock[attempt[r]] \in Link!Waiting \cup {"silent"}
    /\ task[r] = "working"   => attempt[r] \in Sockets /\ sock[attempt[r]] \in {"open", "closing"}

Offered == connecting # NoSocket => sock[connecting] \in Link!Waiting \cup {"silent"}

ConnInv ==
  /\ TypeOK /\ Attached /\ Offered
  /\ retries <= Cardinality(Gone)

\* A step moves one socket at most, and none that is gone.
LEMMA OneSocketMoves ==
  ASSUME TypeOK, NEW s \in Sockets, NEW p \in Link!Phase, sock[s] # "gone", Link!To(s, p)
  PROVE  /\ sock' \in [Sockets -> Link!Phase]
         /\ \A z \in Sockets : sock'[z] = IF z = s THEN p ELSE sock[z]
         /\ Gone' = IF p = "gone" THEN Gone \cup {s} ELSE Gone
<1>1. sock' = [sock EXCEPT ![s] = p] /\ sock \in [Sockets -> Link!Phase]
  BY DEF Link!To, TypeOK
<1>2. \A z \in Sockets : sock'[z] = IF z = s THEN p ELSE sock[z]
  BY <1>1
<1>. QED
  BY <1>1, <1>2 DEF Gone

LEMMA GoneGrows ==
  ASSUME NEW s \in Sockets, s \notin Gone
  PROVE  Cardinality(Gone) \in Nat /\ Cardinality(Gone \cup {s}) = Cardinality(Gone) + 1
<1>1. IsFiniteSet(Gone)
  BY A2AAssumption, FS_Subset DEF A2AAssumption, Gone
<1>. QED
  BY <1>1, FS_AddElement, FS_CardinalityType

LEMMA FewRetries ==
  ASSUME ConnInv
  PROVE  retries \in Nat /\ Cardinality(Gone) \in Nat /\ Cardinality(Gone) <= Cardinality(Sockets)
                         /\ Cardinality(Sockets) \in Nat
<1>1. IsFiniteSet(Sockets) /\ Gone \in SUBSET Sockets
  BY A2AAssumption DEF A2AAssumption, Gone
<1>2. Cardinality(Sockets) \in Nat /\ Cardinality(Gone) \in Nat /\ Cardinality(Gone) <= Cardinality(Sockets)
  BY <1>1, FS_Subset, FS_CardinalityType
<1>. QED
  BY <1>2 DEF ConnInv, TypeOK

\* What ConnInv says, from what a step leaves of requests and sockets.
LEMMA ConnNow ==
  ASSUME IInv', sock' \in [Sockets -> Link!Phase], attempt' \in [Requests -> Sockets \cup {NoSocket}],
         conn' \in Sockets \cup {NoSocket}, connecting' \in Sockets \cup {NoSocket}, stopped' \in BOOLEAN,
         retries' \in Nat, retries' <= Cardinality(Gone'), Attached', Offered'
  PROVE  ConnInv'
<1>1. Gone' \in SUBSET Sockets /\ IsFiniteSet(Sockets)
  BY A2AAssumption DEF A2AAssumption, Gone
<1>2. Cardinality(Sockets) \in Nat /\ Cardinality(Gone') \in Nat /\ Cardinality(Gone') <= Cardinality(Sockets)
  BY <1>1, FS_Subset, FS_CardinalityType
<1>3. sessions' \subseteq Requests /\ task' \in [Requests -> States] /\ activeTasks' \in 0 .. MaxConcurrent
  BY DEF IInv, SessionsMatch, Typed
<1>. QED
  BY <1>2, <1>3 DEF ConnInv, TypeOK, States

LEMMA ConnInit == Init => ConnInv
<1>. SUFFICES ASSUME Init PROVE ConnInv
  OBVIOUS
<1>1. sock = [s \in Sockets |-> "unused"] /\ "unused" \in Link!Phase
  BY DEF Init, Link!GatewayInit, Link!Phase
<1>2. Cardinality(Gone) \in Nat /\ Cardinality(Sockets) \in Nat
  BY A2AAssumption, FS_Subset, FS_CardinalityType DEF A2AAssumption, Gone
<1>3. TypeOK
  <2>1. /\ task \in [Requests -> {"none", "refused", "submitted", "working"} \cup Ended]
        /\ activeTasks \in 0 .. MaxConcurrent /\ sessions \subseteq Requests
    BY Initially DEF IInv, Typed, States, SessionsMatch
  <2>2. sock \in [Sockets -> Link!Phase]
    BY <1>1
  <2>3. attempt \in [Requests -> Sockets \cup {NoSocket}] /\ retries \in 0 .. Cardinality(Sockets)
    BY <1>2 DEF Init
  <2>. QED
    BY <2>1, <2>2, <2>3 DEF Init, TypeOK
<1>4. Attached /\ Offered
  BY DEF Init, Attached, Offered
<1>. QED
  BY <1>2, <1>3, <1>4 DEF Init, ConnInv

\* The handler's requests.
LEMMA ConnRequests ==
  ASSUME IInv, IInv', ConnInv, NEW r \in Requests,
         Refuse(r) \/ HandleTaskSend(r) \/ Answered(r) \/ SessionTimer(r)
  PROVE  ConnInv'
<1>1. /\ \A q \in Requests \ {r} : task'[q] = task[q]
      /\ task'[r] \in {"refused", "working", "submitted"} \cup Ended
      /\ UNCHANGED <<conn, retries, stopped>>
  BY DEF Refuse, HandleTaskSend, Answered, SessionTimer, End, Move, connVars, Ended
<1>2. CASE UNCHANGED <<attempt, connecting, sock>>
      /\ task'[r] \notin {"working", "submitted"}
  <2>1. Gone' = Gone
    BY <1>2 DEF Gone
  <2>2. Attached' /\ Offered'
    BY <1>1, <1>2 DEF ConnInv, Attached, Offered
  <2>. QED
    BY <1>1, <1>2, <2>1, <2>2, FewRetries, ConnNow DEF ConnInv, TypeOK
<1>3. ASSUME NEW s \in Sockets, attempt' = [attempt EXCEPT ![r] = s],
             sock' = sock \/ Link!Dial(s), connecting' \in {connecting, s},
             connecting' = s => sock'[s] \in Link!Waiting \cup {"silent"},
             \/ task'[r] = "working" /\ sock'[s] = "open"
             \/ task'[r] = "submitted" /\ sock'[s] \in Link!Waiting \cup {"silent"}
      PROVE  ConnInv'
  <2>1. sock \in [Sockets -> Link!Phase] /\ attempt \in [Requests -> Sockets \cup {NoSocket}]
    BY DEF ConnInv, TypeOK
  <2>2. /\ sock' \in [Sockets -> Link!Phase] /\ Gone' = Gone
        /\ \A z \in Sockets : sock'[z] = sock[z] \/ (z = s /\ sock[z] = "unused" /\ sock'[z] = "dialling")
    <3>1. CASE sock' = sock
      BY <2>1, <3>1 DEF Gone
    <3>2. CASE Link!Dial(s)
      <4>1. Link!To(s, "dialling") /\ sock[s] = "unused" /\ "dialling" \in Link!Phase
        BY <3>2 DEF Link!Dial, Link!Phase, Link!Waiting
      <4>. QED
        BY <4>1, OneSocketMoves DEF ConnInv
    <3>. QED
      BY <1>3, <3>1, <3>2
  <2>3. attempt' \in [Requests -> Sockets \cup {NoSocket}] /\ attempt'[r] = s
        /\ \A q \in Requests \ {r} : attempt'[q] = attempt[q]
    BY <1>3, <2>1
  <2>4. Attached'
    BY <1>1, <1>3, <2>2, <2>3 DEF ConnInv, Attached, Link!Waiting
  <2>5. Offered'
    BY <1>3, <2>2 DEF ConnInv, TypeOK, Offered, Link!Waiting
  <2>. QED
    BY <1>1, <1>3, <2>2, <2>3, <2>4, <2>5, FewRetries, ConnNow DEF ConnInv, TypeOK
<1>4. CASE HandleTaskSend(r)
  <2>1. CASE Usable /\ Move({r}, "working") /\ attempt' = [attempt EXCEPT ![r] = conn]
             /\ UNCHANGED <<connecting, sock>>
    <3>1. conn \in Sockets /\ sock[conn] = "open" /\ task'[r] = "working"
      BY <2>1 DEF Usable, Move, ConnInv, TypeOK
    <3>2. connecting' = conn => conn # connecting
      BY <3>1, A2AAssumption DEF A2AAssumption, ConnInv, Offered, Link!Waiting
    <3>. QED
      BY <1>3, <2>1, <3>1, <3>2
  <2>2. CASE connecting # NoSocket /\ Move({r}, "submitted") /\ attempt' = [attempt EXCEPT ![r] = connecting]
             /\ UNCHANGED <<connecting, sock>>
    <3>1. connecting \in Sockets /\ task'[r] = "submitted" /\ sock[connecting] \in Link!Waiting \cup {"silent"}
      BY <2>2 DEF Move, ConnInv, TypeOK, Offered
    <3>. QED
      BY <1>3, <2>2, <3>1
  <2>3. CASE \E s \in Sockets : Link!Dial(s) /\ connecting' = s /\ attempt' = [attempt EXCEPT ![r] = s]
                                /\ Move({r}, "submitted")
    <3>1. PICK s \in Sockets : Link!Dial(s) /\ connecting' = s /\ attempt' = [attempt EXCEPT ![r] = s]
                                /\ Move({r}, "submitted")
      BY <2>3
    <3>2. task'[r] = "submitted" /\ sock'[s] \in Link!Waiting \cup {"silent"}
      BY <3>1 DEF Move, Link!Dial, Link!To, Link!Waiting, ConnInv, TypeOK
    <3>. QED
      BY <1>3, <3>1, <3>2
  <2>. QED
    BY <1>4, <2>1, <2>2, <2>3 DEF HandleTaskSend
<1>5. ASSUME Refuse(r) \/ Answered(r) \/ SessionTimer(r)
      PROVE  UNCHANGED <<attempt, connecting, sock>> /\ task'[r] \notin {"working", "submitted"}
  BY <1>5 DEF Refuse, Answered, SessionTimer, End, Move, connVars, Ended
<1>. QED
  BY <1>2, <1>4, <1>5

LEMMA ConnSockets ==
  ASSUME IInv, IInv', ConnInv, NEW s \in Sockets,
         Connected(s) \/ ConnectFailed(s) \/ Handshake(s) \/ Closed(s)
  PROVE  ConnInv'
<1>. DEFINE W == Link!Waiting \cup {"silent"}
<1>1. attempt' = attempt /\ stopped' = stopped
  BY DEF Connected, ConnectFailed, Handshake, Closed
<1>2. CASE Connected(s)
  <2>1. /\ sock[s] = "challenged" /\ Link!To(s, "open") /\ "open" \in Link!Phase
        /\ conn' = s /\ connecting' = NoSocket /\ retries' = retries
        /\ \A r \in Requests : task'[r] = IF r \in AwaitedBy(s) THEN "working" ELSE task[r]
    BY <1>2 DEF Connected, Link!HelloOk, Link!Phase, Move
  <2>2. /\ sock' \in [Sockets -> Link!Phase] /\ Gone' = Gone
        /\ \A z \in Sockets : sock'[z] = IF z = s THEN "open" ELSE sock[z]
    BY <2>1, OneSocketMoves DEF ConnInv
  <2>3. Attached' /\ Offered'
    BY <1>1, <2>1, <2>2 DEF ConnInv, Attached, Offered, AwaitedBy, Link!Waiting
  <2>. QED
    BY <1>1, <2>1, <2>2, <2>3, FewRetries, ConnNow DEF ConnInv, TypeOK
<1>3. CASE ConnectFailed(s)
  <2>1. /\ sock[s] \in Link!Waiting /\ Link!To(s, "gone") /\ "gone" \in Link!Phase
        /\ conn' = conn /\ connecting' = NoSocket /\ retries' = retries
        /\ \A r \in Requests : task'[r] = IF r \in AwaitedBy(s) THEN "failed" ELSE task[r]
    BY <1>3 DEF ConnectFailed, Link!Rejects, Link!Phase, End, Move
  <2>2. /\ sock' \in [Sockets -> Link!Phase] /\ Gone' = Gone \cup {s} /\ s \notin Gone
        /\ \A z \in Sockets : sock'[z] = IF z = s THEN "gone" ELSE sock[z]
    BY <2>1, OneSocketMoves DEF ConnInv, Link!Waiting, Gone
  <2>3. Attached' /\ Offered'
    BY <1>1, <2>1, <2>2 DEF ConnInv, Attached, Offered, AwaitedBy, Link!Waiting
  <2>4. retries' <= Cardinality(Gone')
    BY <2>1, <2>2, FewRetries, GoneGrows DEF ConnInv
  <2>. QED
    BY <1>1, <2>1, <2>2, <2>3, <2>4, FewRetries, ConnNow DEF ConnInv, TypeOK
<1>4. CASE Handshake(s)
  <2>1. UNCHANGED <<task, conn, connecting, retries>>
    BY <1>4 DEF Handshake
  <2>2. PICK p \in {"challenged", "silent", "closing"} :
          /\ Link!To(s, p) /\ sock[s] \in {"dialling", "open"}
          /\ sock[s] = "open" <=> p = "closing"
    BY <1>4 DEF Handshake, Link!Challenge, Link!SilentClose, Link!Closing
  <2>3. /\ sock' \in [Sockets -> Link!Phase] /\ Gone' = Gone
        /\ \A z \in Sockets : sock'[z] = IF z = s THEN p ELSE sock[z]
    BY <2>2, OneSocketMoves DEF ConnInv, Link!Phase, Link!Waiting
  <2>4. Attached' /\ Offered'
    BY <1>1, <2>1, <2>2, <2>3 DEF ConnInv, TypeOK, Attached, Offered, Link!Waiting
  <2>. QED
    BY <1>1, <2>1, <2>3, <2>4, FewRetries, ConnNow DEF ConnInv, TypeOK
<1>5. CASE Closed(s)
  <2>1. /\ sock[s] = "closing" /\ Link!To(s, "gone") /\ "gone" \in Link!Phase
        /\ conn' = NoSocket /\ connecting' = connecting /\ retries' = retries + 1
        /\ \A r \in Requests : task'[r] = IF r \in sessions THEN "failed" ELSE task[r]
    BY <1>5 DEF Closed, Link!CloseEvent, Link!Phase, End, Move
  <2>2. /\ sock' \in [Sockets -> Link!Phase] /\ Gone' = Gone \cup {s} /\ s \notin Gone
        /\ \A z \in Sockets : sock'[z] = IF z = s THEN "gone" ELSE sock[z]
    BY <2>1, OneSocketMoves DEF ConnInv, Gone
  <2>3. Attached' /\ Offered'
    BY <1>1, <2>1, <2>2 DEF ConnInv, TypeOK, Attached, Offered, Link!Waiting, IInv, SessionsMatch
  <2>4. retries' <= Cardinality(Gone')
    BY <2>1, <2>2, FewRetries, GoneGrows DEF ConnInv
  <2>. QED
    BY <1>1, <2>1, <2>2, <2>3, <2>4, FewRetries, ConnNow DEF ConnInv, TypeOK
<1>. QED
  BY <1>2, <1>3, <1>4, <1>5

LEMMA ConnStep == IInv /\ IInv' /\ ConnInv /\ [Next]_vars => ConnInv'
<1>. SUFFICES ASSUME IInv, IInv', ConnInv, [Next]_vars PROVE ConnInv'
  OBVIOUS
<1>1. CASE ForgetAttempt
  <2>1. /\ retries > 0 /\ retries' = retries - 1 /\ connecting' = NoSocket
        /\ UNCHANGED <<task, attempt, conn, stopped, sock>>
    BY <1>1 DEF ForgetAttempt
  <2>2. Gone' = Gone /\ Attached' /\ Offered'
    BY <2>1 DEF Gone, ConnInv, Attached, Offered
  <2>3. retries' \in Nat /\ retries' <= Cardinality(Gone')
    BY <2>1, <2>2, FewRetries DEF ConnInv
  <2>. QED
    BY <2>1, <2>2, <2>3, ConnNow DEF ConnInv, TypeOK
<1>2. CASE Close
  <2>1. /\ stopped' = TRUE /\ conn' = NoSocket /\ connecting' = NoSocket
        /\ UNCHANGED <<attempt, retries>>
        /\ \A r \in Requests : task'[r] = IF r \in sessions THEN "failed" ELSE task[r]
    BY <1>2 DEF Close, End, Move
  <2>2. /\ sock' \in [Sockets -> Link!Phase] /\ Gone' = Gone
        /\ \A z \in Sockets : sock[z] # "open" => sock'[z] = sock[z]
    <3>1. CASE Usable
      <4>1. conn \in Sockets /\ sock[conn] = "open" /\ Link!To(conn, "closing") /\ "closing" \in Link!Phase
        BY <1>2, <3>1 DEF Close, Usable, Link!Closing, Link!Phase, ConnInv, TypeOK
      <4>. QED
        BY <4>1, OneSocketMoves DEF ConnInv
    <3>2. CASE ~Usable
      BY <1>2, <3>2 DEF Close, ConnInv, TypeOK, Gone
    <3>. QED
      BY <3>1, <3>2
  <2>3. Attached' /\ Offered'
    BY <2>1, <2>2 DEF ConnInv, Attached, Offered, Link!Waiting, IInv, SessionsMatch
  <2>. QED
    BY <2>1, <2>2, <2>3, FewRetries, ConnNow DEF ConnInv, TypeOK
<1>3. CASE UNCHANGED vars
  <2>1. UNCHANGED <<task, attempt, conn, connecting, retries, stopped, sock>>
    BY <1>3 DEF vars, connVars
  <2>2. Gone' = Gone /\ Attached' /\ Offered'
    BY <2>1 DEF Gone, ConnInv, Attached, Offered
  <2>. QED
    BY <2>1, <2>2, FewRetries, ConnNow DEF ConnInv, TypeOK
<1>. QED
  BY <1>1, <1>2, <1>3, ConnRequests, ConnSockets DEF Next

\* No request is left to an attempt that has settled or to a connection that has ended
\* (a2a/handler.ts:182-260): whatever attempts fail, connections close and timers forget
\* them, each request under way can still be answered, but on an attempt closed before its
\* challenge. And no more reconnect timers are armed than connections have ended.
THEOREM NobodyLeft == Spec => [](TypeOK /\ Attached /\ retries <= Cardinality(Gone))
<1>1. ConnInv => TypeOK /\ Attached /\ retries <= Cardinality(Gone)
  BY DEF ConnInv
<1>. QED
  BY <1>1, Initially, Step, ConnInit, ConnStep, PTL DEF Spec

-----------------------------------------------------------------------------
(* The file of a debounced store.                                          *)

\* The one flush under way: what it writes is no older than the file, and is in tmp, a file
\* of its own, until it is renamed.
Flushing(f) ==
  /\ \A g \in Flights : pc[g] # "idle" => g = f
  /\ OnDisk <= snap[f] /\ snap[f] <= mem
  /\ pc[f] = "write"  => ino[f] = tmp /\ tmp # NoInode /\ content[tmp] = Empty
  /\ pc[f] = "rename" => ino[f] = tmp /\ tmp # NoInode /\ content[tmp] = snap[f]
  /\ closing # "deciding" /\ (closing = "no" => f = inProgress)

\* Until two flushes may overlap, there is one at a time.
OneFlush == ~Exposed => OnDisk <= mem /\ \A f \in Busy : Flushing(f)

StoreInv ==
  /\ StoreTypeOK
  /\ file = tmp => file = NoInode
  /\ OneFlush

LEMMA DiskType == StoreTypeOK => OnDisk \in Version /\ mem \in Version /\ Version \subseteq Nat
BY StoreAssumption DEF StoreAssumption, StoreTypeOK, OnDisk, Stored, Version

LEMMA StoreInvInit == StoreInit => StoreInv
<1> SUFFICES ASSUME StoreInit PROVE StoreInv
  OBVIOUS
<1>1. StoreTypeOK
  <2>1. 0 \in Version
    BY StoreAssumption DEF StoreAssumption, Version
  <2>. QED
    BY <2>1 DEF StoreInit, StoreTypeOK
<1>2. OnDisk = 0 /\ Busy = {}
  BY DEF StoreInit, OnDisk, Stored, Busy
<1>. QED
  <2>1. mem = 0 /\ file = NoInode
    BY DEF StoreInit
  <2>2. OneFlush
    BY <1>2, <2>1 DEF OneFlush
  <2>. QED
    BY <1>1, <2>1, <2>2 DEF StoreInv

\* A new process has what was on disk.
LEMMA RestartKeepsStore ==
  ASSUME StoreInv, Restart
  PROVE  StoreInv'
<1>1. OnDisk' = OnDisk /\ OnDisk \in Version /\ Version \subseteq Nat
  BY DiskType DEF StoreInv, Restart, fileVars, OnDisk, Stored
<1>2. StoreTypeOK'
  <2>1. 0 \in Version
    BY StoreAssumption DEF StoreAssumption, Version
  <2>2. /\ mem' \in Version /\ dirty' = FALSE /\ timer' = FALSE /\ inProgress' = NoFlight
        /\ closing' = "no" /\ closeOn' = NoFlight /\ pc' = [f \in Flights |-> "idle"]
        /\ snap' = [f \in Flights |-> 0] /\ ino' = [f \in Flights |-> NoInode]
        /\ awaits' = awaits /\ content' = content /\ file' = file /\ tmp' = tmp
    BY <1>1 DEF Restart, fileVars
  <2>. QED
    BY <2>1, <2>2 DEF StoreInv, StoreTypeOK
<1>3. OneFlush'
  <2>1. mem' = OnDisk /\ Busy' = {}
    BY DEF Restart, Busy
  <2>. QED
    BY <1>1, <2>1 DEF OneFlush, Exposed
<1>. QED
  BY <1>2, <1>3 DEF StoreInv, Restart, fileVars

\* What does not touch the files or a flush keeps them, if the map grows only.
LEMMA MapChanges ==
  ASSUME StoreInv, Change
  PROVE  StoreInv'
<1>1. OnDisk' = OnDisk /\ OnDisk \in Version /\ mem \in Version /\ mem' \in Version /\ Version \subseteq Nat /\ mem' = mem + 1
  BY DiskType, StoreAssumption DEF StoreAssumption, StoreInv, Change, fileVars, OnDisk, Stored, Version
<1>2. StoreTypeOK'
  BY <1>1 DEF StoreInv, StoreTypeOK, Change, fileVars, flightVars, closeVars
<1>3. UNCHANGED <<awaits, inProgress, closing, closeOn, pc, snap, ino, content, file, tmp>>
  BY DEF Change, fileVars, flightVars, closeVars
<1>4. Exposed' <=> Exposed
  BY <1>3 DEF Exposed
<1>5. ASSUME ~Exposed PROVE OnDisk' <= mem' /\ \A f \in Busy' : Flushing(f)'
  <2>1. OnDisk <= mem /\ \A f \in Busy : Flushing(f)
    BY <1>5 DEF StoreInv, OneFlush
  <2>2. \A f \in Flights : snap[f] \in Version
    BY DEF StoreInv, StoreTypeOK
  <2>. QED
    <3>1. Busy' = Busy
      BY <1>3 DEF Busy
    <3>2. ASSUME NEW f \in Busy, Flushing(f) PROVE Flushing(f)'
      <4>1. snap[f] \in Nat /\ mem \in Nat /\ mem' = mem + 1
        BY <1>1, <2>2 DEF Busy
      <4>2. OnDisk' <= snap'[f] /\ snap'[f] <= mem'
        BY <1>1, <1>3, <3>2, <4>1 DEF Flushing
      <4>. QED
        BY <1>3, <3>2, <4>2 DEF Flushing
    <3>. QED
      BY <1>1, <2>1, <3>1, <3>2
<1>. QED
  BY <1>2, <1>3, <1>4, <1>5 DEF StoreInv, OneFlush

\* A flush starts with the map as it is.
LEMMA FlushStarts ==
  ASSUME StoreInv, NEW f \in Flights, StartFlush(f), UNCHANGED <<awaits, mem, fileVars>>,
         StoreTypeOK', ~Exposed' => ~Exposed /\ Busy = {},
         closing' # "deciding" /\ (closing' = "no" => inProgress' = f)
  PROVE  StoreInv'
<1>1. OnDisk' = OnDisk /\ mem' = mem /\ file' = file /\ tmp' = tmp
  BY DEF fileVars, OnDisk, Stored
<1>2. pc' = [pc EXCEPT ![f] = "open"] /\ snap' = [snap EXCEPT ![f] = mem]
  BY DEF StartFlush
<1>3. pc'[f] = "open" /\ snap'[f] = mem
  BY <1>2 DEF StoreInv, StoreTypeOK
<1>4. mem \in Nat
  BY DiskType DEF StoreInv
<1>5. ASSUME ~Exposed' PROVE OnDisk' <= mem' /\ \A g \in Busy' : Flushing(g)'
  <2>1. \A g \in Flights : pc[g] = "idle"
    BY <1>5 DEF Busy
  <2>2. \A g \in Flights : pc'[g] # "idle" => g = f
    BY <1>2, <2>1 DEF StoreInv, StoreTypeOK
  <2>3. OnDisk <= mem
    BY <1>5 DEF StoreInv, OneFlush
  <2>. QED
    BY <1>1, <1>3, <1>4, <2>2, <2>3 DEF Flushing, Busy
<1>. QED
  BY <1>1, <1>5 DEF StoreInv, OneFlush

LEMMA TimerStep ==
  ASSUME StoreInv, NEW f \in Flights, TimerFires(f)
  PROVE  StoreInv'
<1>1. /\ StartFlush(f) /\ UNCHANGED <<awaits, mem, fileVars>> /\ closing' = closing /\ inProgress' = f
      /\ closing # "deciding"
  BY DEF TimerFires, closeVars, Quiet
<1>2. StoreTypeOK'
  BY DEF TimerFires, StartFlush, StoreInv, StoreTypeOK, closeVars, fileVars
<1>3. ~Exposed' => ~Exposed /\ Busy = {}
  BY DEF TimerFires, Exposed, closeVars
<1>. QED
  BY <1>1, <1>2, <1>3, FlushStarts

LEMMA CloseStep ==
  ASSUME StoreInv, CloseStore
  PROVE  StoreInv'
<1>1. UNCHANGED <<awaits, mem, dirty, inProgress, pc, snap, ino, content, file, tmp>> /\ closing = "no"
  BY DEF CloseStore, flightVars, fileVars
<1>2. OnDisk' = OnDisk /\ Busy' = Busy
  BY <1>1 DEF OnDisk, Stored, Busy
<1>3. closing' \in {"deciding", "waiting"} /\ (closing' = "deciding" /\ awaits => inProgress = NoFlight)
  BY DEF CloseStore
<1>4. StoreTypeOK'
  BY <1>1, <1>3 DEF StoreInv, StoreTypeOK, CloseStore
<1>5. ASSUME ~Exposed' PROVE OnDisk' <= mem' /\ \A f \in Busy' : Flushing(f)'
  <2>1. awaits /\ ~Exposed
    BY <1>1, <1>3, <1>5 DEF Exposed
  <2>2. \A f \in Busy : f = inProgress /\ f \in Flights
    BY <1>1, <2>1 DEF StoreInv, OneFlush, Flushing, Busy
  <2>3. \A f \in Busy : closing' # "deciding"
    BY <1>3, <2>1, <2>2, StoreAssumption DEF StoreAssumption
  <2>. QED
    BY <1>1, <1>2, <1>3, <2>1, <2>3 DEF StoreInv, OneFlush, Flushing
<1>. QED
  BY <1>1, <1>4, <1>5 DEF StoreInv, OneFlush

LEMMA DecideStep ==
  ASSUME StoreInv, CloseDecides
  PROVE  StoreInv'
<1>1. UNCHANGED <<awaits, mem, dirty, timer, inProgress, content, file, tmp>> /\ closing = "deciding"
      /\ closing' \in {"returned", "flushing"}
  BY DEF CloseDecides, fileVars
<1>2. ~Exposed => Busy = {}
  BY <1>1 DEF StoreInv, OneFlush, Flushing
<1>3. Exposed' <=> Exposed
  BY <1>1 DEF Exposed
<1>4. CASE UNCHANGED <<closeOn, flightVars>>
  <2>1. OnDisk' = OnDisk /\ Busy' = Busy
    BY <1>1, <1>4 DEF OnDisk, Stored, Busy, flightVars
  <2>2. StoreTypeOK'
    BY <1>1, <1>4 DEF StoreInv, StoreTypeOK, flightVars
  <2>. QED
    BY <1>1, <1>2, <1>3, <2>1, <2>2 DEF StoreInv, OneFlush
<1>5. CASE \E f \in Flights : StartFlush(f) /\ closeOn' = f
  <2>1. PICK f \in Flights : StartFlush(f) /\ closeOn' = f
    BY <1>5
  <2>2. StoreTypeOK'
    BY <1>1, <2>1 DEF StoreInv, StoreTypeOK, StartFlush
  <2>. QED
    BY <1>1, <1>2, <1>3, <2>1, <2>2, FlushStarts DEF fileVars
<1>. QED
  BY <1>4, <1>5 DEF CloseDecides

\* tmp is a file of its own, which the flush under way has opened alone.
LEMMA OpenStep ==
  ASSUME StoreInv, NEW f \in Flights, OpenTmp(f)
  PROVE  StoreInv' /\ OnDisk' = OnDisk
<1>1. PICK i \in IF tmp = NoInode THEN Free ELSE {tmp} :
        /\ ino' = [ino EXCEPT ![f] = i] /\ content' = [content EXCEPT ![i] = Empty] /\ tmp' = i
  BY DEF OpenTmp
<1>2. i \in Inodes /\ i # file /\ i # NoInode
  BY <1>1, StoreAssumption DEF StoreAssumption, Free, StoreInv, StoreTypeOK
<1>3. /\ pc[f] = "open" /\ closing # "deciding" /\ pc' = [pc EXCEPT ![f] = "write"]
      /\ UNCHANGED <<awaits, mem, dirty, timer, inProgress, closing, closeOn, snap, file>>
  BY DEF OpenTmp, closeVars, Quiet
<1>4. StoreTypeOK'
  BY <1>1, <1>2, <1>3 DEF StoreInv, StoreTypeOK
<1>5. OnDisk' = OnDisk
  BY <1>1, <1>2, <1>3 DEF StoreInv, StoreTypeOK, OnDisk, Stored
<1>6. /\ pc'[f] = "write" /\ ino'[f] = tmp' /\ content'[tmp'] = Empty
      /\ \A g \in Flights \ {f} : pc'[g] = pc[g]
  BY <1>1, <1>2, <1>3 DEF StoreInv, StoreTypeOK
<1>7. ASSUME ~Exposed PROVE OnDisk' <= mem' /\ \A g \in Busy' : Flushing(g)'
  <2>1. Flushing(f) /\ OnDisk <= mem
    BY <1>3, <1>7 DEF StoreInv, OneFlush, Busy
  <2>2. \A g \in Flights : pc'[g] # "idle" => g = f
    BY <1>6, <2>1 DEF Flushing
  <2>3. Flushing(f)'
    BY <1>1, <1>2, <1>3, <1>5, <1>6, <2>1, <2>2 DEF Flushing
  <2>. QED
    BY <1>3, <1>5, <2>1, <2>2, <2>3 DEF Busy
<1>8. Exposed' <=> Exposed
  BY <1>3 DEF Exposed
<1>. QED
  BY <1>1, <1>2, <1>3, <1>4, <1>5, <1>7, <1>8 DEF StoreInv, OneFlush

LEMMA WriteStep ==
  ASSUME StoreInv, NEW f \in Flights, WriteTmp(f)
  PROVE  StoreInv' /\ (~Exposed => OnDisk' = OnDisk)
<1>1. PICK c \in {snap[f]} \cup (IF content[ino[f]] = Empty THEN {} ELSE {Torn}) :
        content' = [content EXCEPT ![ino[f]] = c]
  BY DEF WriteTmp
<1>2. /\ pc[f] = "write" /\ closing # "deciding" /\ pc' = [pc EXCEPT ![f] = "rename"]
      /\ UNCHANGED <<awaits, mem, dirty, timer, inProgress, closing, closeOn, snap, ino, file, tmp>>
  BY DEF WriteTmp, closeVars, Quiet
<1>3. ASSUME ~Exposed PROVE OnDisk' = OnDisk /\ OnDisk' <= mem' /\ \A g \in Busy' : Flushing(g)'
  <2>1. Flushing(f) /\ OnDisk <= mem
    BY <1>2, <1>3 DEF StoreInv, OneFlush, Busy
  <2>2. c = snap[f] /\ ino[f] = tmp /\ tmp \in Inodes /\ tmp # file
    BY <1>1, <1>2, <2>1 DEF Flushing, StoreInv, StoreTypeOK
  <2>3. content'[tmp] = snap[f] /\ OnDisk' = OnDisk
    BY <1>1, <1>2, <2>2 DEF StoreInv, StoreTypeOK, OnDisk, Stored
  <2>4. pc'[f] = "rename" /\ \A g \in Flights : pc'[g] # "idle" => g = f
    BY <1>2, <2>1 DEF Flushing, StoreInv, StoreTypeOK
  <2>5. Flushing(f)'
    BY <1>2, <2>1, <2>2, <2>3, <2>4 DEF Flushing
  <2>. QED
    BY <1>2, <2>1, <2>3, <2>4, <2>5 DEF Busy
<1>4. Exposed' <=> Exposed
  BY <1>2 DEF Exposed
<1>5. StoreTypeOK'
  BY <1>1, <1>2 DEF StoreInv, StoreTypeOK
<1>. QED
  BY <1>2, <1>3, <1>4, <1>5 DEF StoreInv, OneFlush

\* A flush that ends, renamed or not, leaves none under way and close() to go on.
LEMMA FlushEnds ==
  ASSUME StoreInv, NEW f \in Flights, pc[f] # "idle", NEW result, FlushEnded(f, result),
         dirty' \in BOOLEAN, content' = content, file' \in Inodes \cup {NoInode},
         tmp' \in Inodes \cup {NoInode}, file' = tmp' => file' = NoInode,
         ~Exposed => OnDisk' <= mem
  PROVE  StoreInv'
<1>1. /\ pc' = [pc EXCEPT ![f] = "idle"] /\ ino' = [ino EXCEPT ![f] = NoInode]
      /\ inProgress' \in {inProgress, NoFlight} /\ closeOn' \in {closeOn, NoFlight}
      /\ closing' \in {closing, "failed", "deciding", "returned"}
      /\ UNCHANGED <<awaits, mem, timer, snap>> /\ (closing' = "no" => closing = "no")
      /\ closing' # closing => closing # "no" \/ closeOn = f
  BY DEF FlushEnded
<1>2. StoreTypeOK'
  BY <1>1 DEF StoreInv, StoreTypeOK
<1>3. ASSUME ~Exposed' PROVE OnDisk' <= mem' /\ Busy' = {}
  <2>1. ~Exposed
    BY <1>1, <1>3 DEF Exposed
  <2>2. \A g \in Flights : pc[g] # "idle" => g = f
    BY <2>1 DEF StoreInv, OneFlush, Flushing, Busy
  <2>. QED
    BY <1>1, <2>1, <2>2 DEF Busy, StoreInv, StoreTypeOK
<1>. QED
  BY <1>2, <1>3 DEF StoreInv, OneFlush

LEMMA RenameStep ==
  ASSUME StoreInv, NEW f \in Flights, Rename(f)
  PROVE  StoreInv' /\ (~Exposed => OnDisk' \in {OnDisk} \cup (OnDisk + 1 .. mem))
<1>1. /\ pc[f] = "rename" /\ tmp # NoInode /\ file' = tmp /\ tmp' = NoInode /\ dirty' = FALSE
      /\ FlushEnded(f, "ok") /\ content' = content
  BY DEF Rename
<1>2. OnDisk \in Nat /\ mem \in Nat /\ \A g \in Flights : snap[g] \in Nat /\ snap[g] \notin {Empty, Torn}
  BY DiskType DEF StoreInv, StoreTypeOK, Empty, Torn
<1>3. ASSUME ~Exposed PROVE OnDisk' = snap[f] /\ OnDisk <= snap[f] /\ snap[f] <= mem
  <2>1. Flushing(f)
    BY <1>1, <1>3 DEF StoreInv, OneFlush, Busy
  <2>2. content[tmp] = snap[f] /\ OnDisk <= snap[f] /\ snap[f] <= mem
    BY <1>1, <2>1 DEF Flushing
  <2>. QED
    BY <1>1, <1>2, <2>2 DEF OnDisk, Stored
<1>4. StoreInv'
  BY <1>1, <1>3, FlushEnds DEF StoreInv, StoreTypeOK
<1>. QED
  BY <1>2, <1>3, <1>4

LEMMA FailStep ==
  ASSUME StoreInv, NEW f \in Flights, FlushFails(f)
  PROVE  StoreInv' /\ OnDisk' = OnDisk
<1>1. pc[f] # "idle"
  BY DEF FlushFails
<1>2. CASE FlushEnded(f, "failed") /\ UNCHANGED <<dirty, fileVars>>
  <2>1. OnDisk' = OnDisk /\ UNCHANGED <<dirty, content, file, tmp>>
    BY <1>2 DEF fileVars, OnDisk, Stored
  <2>2. /\ dirty' \in BOOLEAN /\ file' \in Inodes \cup {NoInode} /\ tmp' \in Inodes \cup {NoInode}
        /\ file' = tmp' => file' = NoInode
        /\ ~Exposed => OnDisk' <= mem
    BY <2>1 DEF StoreInv, StoreTypeOK, OneFlush
  <2>. QED
    BY <1>1, <1>2, <2>1, <2>2, FlushEnds
<1>3. CASE Restart
  BY <1>3, RestartKeepsStore DEF Restart, fileVars, OnDisk, Stored
<1>. QED
  BY <1>2, <1>3 DEF FlushFails

LEMMA StoreStep ==
  ASSUME StoreInv, [StoreNext]_storeVars
  PROVE  StoreInv' /\ (~Exposed => OnDisk' \in {OnDisk} \cup (OnDisk + 1 .. mem))
<1>1. CASE Change \/ CloseStore \/ CloseDecides \/ Restart
  <2>1. OnDisk' = OnDisk
    BY <1>1 DEF Change, CloseStore, CloseDecides, Restart, fileVars, OnDisk, Stored
  <2>. QED
    BY <1>1, <2>1, MapChanges, CloseStep, DecideStep, RestartKeepsStore
<1>2. ASSUME NEW f \in Flights, TimerFires(f)
      PROVE  StoreInv' /\ OnDisk' = OnDisk
  BY <1>2, TimerStep DEF TimerFires, fileVars, OnDisk, Stored
<1>3. ASSUME NEW f \in Flights, Flush(f) \/ FlushFails(f)
      PROVE  StoreInv' /\ (~Exposed => OnDisk' \in {OnDisk} \cup (OnDisk + 1 .. mem))
  BY <1>3, OpenStep, WriteStep, RenameStep, FailStep DEF Flush
<1>4. CASE UNCHANGED storeVars
  <2>1. UNCHANGED <<awaits, mem, dirty, timer, inProgress, closing, closeOn, pc, snap, ino, content, file, tmp>>
    BY <1>4 DEF storeVars, closeVars, flightVars, fileVars
  <2>2. OnDisk' = OnDisk /\ Busy' = Busy /\ (Exposed' <=> Exposed) /\ StoreTypeOK'
    BY <2>1 DEF OnDisk, Stored, Busy, Exposed, StoreInv, StoreTypeOK
  <2>3. ASSUME NEW f \in Busy, Flushing(f) PROVE Flushing(f)'
    BY <2>1, <2>2, <2>3 DEF Flushing
  <2>. QED
    BY <2>1, <2>2, <2>3 DEF StoreInv, OneFlush
<1>. QED
  BY <1>1, <1>2, <1>3, <1>4 DEF StoreNext

\* The store's versions, flushes and inodes are well typed, whatever fails or crashes
\* (a2a/store.ts, agent/tasks.ts, registry/store.ts).
THEOREM StoreTypes == StoreSpec => []StoreTypeOK
<1>1. StoreInv /\ [StoreNext]_storeVars => StoreInv'
  BY StoreStep
<1>2. StoreInv => StoreTypeOK
  BY DEF StoreInv
<1>. QED
  BY <1>1, <1>2, StoreInvInit, PTL DEF StoreSpec

\* Whenever the file changes it holds a newer version of the map than before, and a whole
\* one, through failed flushes and crashes at any step, while two flushes do not overlap
\* (a2a/store.ts flushNow, agent/tasks.ts flushNow, registry/store.ts flush).
THEOREM Atomic == StoreSpec => ReplacedByNewer
<1>1. StoreInv /\ [StoreNext]_storeVars => StoreInv'
  BY StoreStep
<1>2. StoreInv /\ [StoreNext]_storeVars =>
        [~Exposed => OnDisk' \in {OnDisk} \cup (OnDisk + 1 .. mem)]_storeVars
  BY StoreStep
<1>. QED
  BY <1>1, <1>2, StoreInvInit, PTL DEF StoreSpec, ReplacedByNewer
=============================================================================
