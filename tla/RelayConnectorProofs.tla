-------------------------- MODULE RelayConnectorProofs --------------------------
(* Machine-checked properties of RelayConnector, for any number of connectors,  *)
(* sockets, rooms and faults and any finite set of peers, however late close     *)
(* events come.                                                                 *)
EXTENDS RelayConnector, FiniteSetTheorems, SequenceTheorems, TLAPS

-----------------------------------------------------------------------------
(* The record of a connector, whatever its rooms and its target.           *)

IsConn(x) ==
  x \in [state : {"disconnected", "connecting", "registered"}, closed : BOOLEAN, ws : {x.ws},
         rooms : {x.rooms}, target : {x.target}, timer : BOOLEAN, expired : {x.expired}]

\* A connector that was disconnected waits for nothing.
Rests(x) == x.closed => ~x.timer /\ x.state # "connecting"

LEMMA OnCloseConn ==
  ASSUME NEW x, IsConn(x), Rests(x)
  PROVE  IsConn(OnClose(x)) /\ Rests(OnClose(x)) /\ OnClose(x).closed = x.closed
BY DEF OnClose, Cleanup, IsConn, Rests

LEMMA DisconnectConn ==
  ASSUME NEW x, IsConn(x)
  PROVE  IsConn(Disconnect(x)) /\ Rests(Disconnect(x)) /\ Disconnect(x).closed
BY DEF Disconnect, Cleanup, IsConn, Rests

LEMMA RoomsConn ==
  ASSUME NEW x, NEW R, IsConn(x), Rests(x)
  PROVE  /\ IsConn([x EXCEPT !.rooms = R]) /\ Rests([x EXCEPT !.rooms = R])
         /\ [x EXCEPT !.rooms = R].closed = x.closed
         /\ [x EXCEPT !.rooms = R].timer = x.timer
BY DEF IsConn, Rests

LEMMA ExpiredConn ==
  ASSUME NEW x, NEW e, IsConn(x), Rests(x)
  PROVE  /\ IsConn([x EXCEPT !.expired = e]) /\ Rests([x EXCEPT !.expired = e])
         /\ [x EXCEPT !.expired = e].closed = x.closed
         /\ [x EXCEPT !.expired = e].timer = x.timer
BY DEF IsConn, Rests

LEMMA ConnectConn ==
  ASSUME NEW x, NEW s, IsConn(x)
  PROVE  /\ IsConn([x EXCEPT !.closed = FALSE, !.state = "connecting", !.ws = s])
         /\ Rests([x EXCEPT !.closed = FALSE, !.state = "connecting", !.ws = s])
         /\ [x EXCEPT !.closed = FALSE, !.state = "connecting", !.ws = s].timer = x.timer
BY DEF IsConn, Rests

LEMMA TimerConn ==
  ASSUME NEW x, IsConn(x), Rests(x)
  PROVE  /\ IsConn([x EXCEPT !.timer = FALSE]) /\ Rests([x EXCEPT !.timer = FALSE])
         /\ [x EXCEPT !.timer = FALSE].closed = x.closed /\ ~[x EXCEPT !.timer = FALSE].timer
BY DEF IsConn, Rests

-----------------------------------------------------------------------------
(* The invariant.                                                          *)

Conns == /\ conn = [c \in Connectors |-> conn[c]]
         /\ \A c \in Connectors : IsConn(conn[c]) /\ Rests(conn[c])

Socket == [state : {"connecting", "open", "erred", "ended", "closing", "closed"},
           owner : 0 .. MaxConnectors]

\* Connectors that are not yet made are as new, and every socket in use is of one made.
Made == /\ current \in 0 .. MaxConnectors
        /\ \A c \in Connectors : c > current => ~conn[c].closed /\ ~conn[c].timer

Owned == /\ sock \in [Sockets -> Socket]
         /\ \A s \in Sockets : sock[s].state # "closed" => sock[s].owner \in 1 .. current

Inv == Conns /\ Made /\ Owned

\* A connector once disconnected stays so.
Closed == \A c \in Connectors : conn[c].closed => conn'[c].closed

\* A step that changes one connector made, and opens it no more.
LEMMA OneConn ==
  ASSUME Inv, NEW c \in Connectors, c <= current, NEW x, IsConn(x), Rests(x),
         conn[c].closed => x.closed, conn' = [conn EXCEPT ![c] = x], current' = current
  PROVE  Conns' /\ Made' /\ Closed
<1>1. conn'[c] = x /\ \A d \in Connectors \ {c} : conn'[d] = conn[d]
  BY DEF Inv, Conns
<1>2. conn' = [d \in Connectors |-> conn'[d]]
  BY DEF Inv, Conns
<1>3. \A d \in Connectors : IsConn(conn'[d]) /\ Rests(conn'[d])
  BY <1>1 DEF Inv, Conns
<1>4. Made'
  BY <1>1 DEF Inv, Made, Connectors
<1>5. Closed
  BY <1>1 DEF Closed
<1>. QED
  BY <1>2, <1>3, <1>4, <1>5 DEF Conns

LEMMA OwnerMade ==
  ASSUME Inv, NEW s \in Sockets, sock[s].state # "closed"
  PROVE  sock[s].owner \in Connectors /\ sock[s].owner <= current
BY RelayAssumption DEF Inv, Owned, Made, Connectors

-----------------------------------------------------------------------------
(* Steps.                                                                  *)

\* Connecting c, whose record is x.
LEMMA Connecting ==
  ASSUME Inv, NEW c \in Connectors, NEW s \in Sockets, NEW cn, NEW x, IsConn(x),
         ~conn[c].closed, cn = [conn EXCEPT ![c] = x], Connect(cn, c, s),
         \/ c <= current /\ current' = current
         \/ c = current + 1 /\ current' = c
  PROVE  Inv' /\ Closed
<1> DEFINE y == [x EXCEPT !.closed = FALSE, !.state = "connecting", !.ws = s]
<1>1. IsConn(y) /\ Rests(y) /\ y.timer = x.timer
  BY ConnectConn
<1>2. conn' = [conn EXCEPT ![c] = y]
  <2>1. conn' = [cn EXCEPT ![c] = [cn[c] EXCEPT !.closed = FALSE, !.state = "connecting", !.ws = s]]
    BY DEF Connect
  <2>2. c \in DOMAIN conn /\ cn[c] = x
    BY DEF Inv, Conns
  <2>3. conn' = [cn EXCEPT ![c] = y]
    BY <2>1, <2>2
  <2> HIDE DEF y
  <2>. QED
    BY <2>2, <2>3
<1>3. /\ sock' \in [Sockets -> Socket]
      /\ \A z \in Sockets : sock'[z].state # "closed" =>
           (z = s /\ sock'[z].owner = c) \/ (z # s /\ sock'[z] = sock[z])
  BY DEF Connect, Slot, Connectors, Socket, Inv, Owned
<1>4. c \in Nat /\ 1 <= c /\ current \in Nat /\ c <= MaxConnectors
  BY RelayAssumption DEF Inv, Made, Connectors
<1>5. Conns'
  BY <1>1, <1>2 DEF Inv, Conns
<1>6. Made' /\ Closed
  <2>1. \A d \in Connectors \ {c} : conn'[d] = conn[d]
    BY <1>2 DEF Inv, Conns
  <2>2. c <= current' /\ current <= current' /\ current' \in 0 .. MaxConnectors
    BY <1>4 DEF Inv, Made
  <2>. QED
    BY <1>4, <2>1, <2>2 DEF Inv, Made, Closed, Connectors
<1>7. Owned'
  BY <1>3, <1>4 DEF Inv, Made, Owned
<1>. QED
  BY <1>5, <1>6, <1>7 DEF Inv

LEMMA NewStep ==
  ASSUME Inv, NewConnector
  PROVE  Inv' /\ Closed
<1> DEFINE c == current + 1
<1>1. c \in Connectors /\ c > current /\ current' = c
  BY RelayAssumption DEF NewConnector, Inv, Made, Connectors
<1>2. ~conn[c].closed /\ ~conn[c].timer /\ IsConn(conn[c])
  BY <1>1 DEF Inv, Made, Conns
<1>3. conn = [conn EXCEPT ![c] = conn[c]]
  BY <1>1 DEF Inv, Conns
<1>4. PICK s \in Sockets : Connect(conn, c, s)
  BY DEF NewConnector
<1>. QED
  BY <1>1, <1>2, <1>3, <1>4, Connecting

LEMMA ReconnectStep ==
  ASSUME Inv, NEW c \in Connectors, Reconnect(c)
  PROVE  Inv' /\ Closed
<1> DEFINE x  == [conn[c] EXCEPT !.timer = FALSE]
           cn == [conn EXCEPT ![c].timer = FALSE]
<1>1. IsConn(conn[c]) /\ Rests(conn[c]) /\ conn[c].timer
  BY DEF Reconnect, Inv, Conns
<1>2. IsConn(x) /\ Rests(x) /\ x.closed = conn[c].closed
  BY <1>1, TimerConn
<1>3. ~conn[c].closed /\ c <= current
  BY <1>1 DEF Rests, Inv, Made, Connectors
<1>4. cn = [conn EXCEPT ![c] = x] /\ current' = current
  BY DEF Reconnect
<1>5. ASSUME NEW s \in Sockets, Connect(cn, c, s) PROVE Inv' /\ Closed
  BY <1>2, <1>3, <1>4, <1>5, Connecting
<1>6. CASE conn' = cn /\ UNCHANGED sock
  <2>1. Owned'
    BY <1>4, <1>6 DEF Inv, Owned
  <2>. QED
    BY <1>2, <1>3, <1>4, <1>6, <2>1, OneConn DEF Inv
<1>. QED
  BY <1>5, <1>6 DEF Reconnect

LEMMA RecordStep ==
  ASSUME Inv, \/ \E c \in Connectors : Expire(c)
              \/ \E c \in Connectors, p \in Peers : JoinAsked(c, p)
              \/ \E r \in Rooms : DisconnectRoom(r)
  PROVE  Inv' /\ Closed
<1>1. UNCHANGED <<sock, current>>
  BY DEF Expire, JoinAsked, DisconnectRoom
<1>2. Owned'
  BY <1>1 DEF Inv, Owned
<1>3. ASSUME NEW c \in Connectors, Expire(c) PROVE Conns' /\ Made' /\ Closed
  <2>1. IsConn(conn[c]) /\ Rests(conn[c])
    BY DEF Inv, Conns
  <2>2. c <= current /\ conn' = [conn EXCEPT ![c] = [conn[c] EXCEPT !.expired = TRUE]]
    BY <1>3 DEF Expire
  <2>. QED
    BY <1>1, <2>1, <2>2, ExpiredConn, OneConn
<1>4. ASSUME NEW c \in Connectors, NEW p \in Peers, JoinAsked(c, p)
      PROVE  Conns' /\ Made' /\ Closed
  <2>1. PICK e \in {FALSE, conn[c].expired} :
          conn' = [conn EXCEPT ![c] = [conn[c] EXCEPT !.target = p, !.expired = e]]
    BY <1>4 DEF JoinAsked
  <2>2. IsConn(conn[c]) /\ Rests(conn[c])
    BY DEF Inv, Conns
  <2>3. ASSUME NEW y, y = [conn[c] EXCEPT !.target = p, !.expired = e]
        PROVE  IsConn(y) /\ Rests(y) /\ y.closed = conn[c].closed /\ y.timer = conn[c].timer
    BY <2>2, <2>3 DEF IsConn, Rests
  <2>4. ASSUME NEW y, y = [conn[c] EXCEPT !.target = p, !.expired = e]
        PROVE  Conns' /\ Made' /\ Closed
    BY <1>1, <2>1, <2>3, <2>4 DEF Inv, Conns, Made, Closed
  <2>. QED
    BY <2>4
<1>5. ASSUME NEW r \in Rooms, DisconnectRoom(r) PROVE Conns' /\ Made' /\ Closed
  <2>1. current \in Connectors /\ current <= current
    BY <1>5, RelayAssumption DEF DisconnectRoom, Inv, Made, Connectors
  <2>2. IsConn(conn[current]) /\ Rests(conn[current])
    BY <2>1 DEF Inv, Conns
  <2>3. conn' = [conn EXCEPT ![current] =
                   [conn[current] EXCEPT !.rooms = PeerLeft(conn[current], r)]]
    BY <1>5 DEF DisconnectRoom
  <2>. QED
    BY <1>1, <2>1, <2>2, <2>3, RoomsConn, OneConn
<1>. QED
  BY <1>2, <1>3, <1>4, <1>5 DEF Inv

\* The close or error event of a socket, in use or abandoned.
LEMMA CloseStep ==
  ASSUME Inv, NEW s \in Sockets, Close(s) \/ ConnectFails(s) \/ FrameError(s)
  PROVE  Inv' /\ Closed
<1>1. sock[s].state # "closed" /\ current' = current
  BY DEF Close, ConnectFails, FrameError
<1> DEFINE c == sock[s].owner
<1>2. c \in Connectors /\ c <= current
  BY <1>1, OwnerMade
<1>3. conn' = [conn EXCEPT ![c] = OnClose(conn[c])]
  BY DEF Close, ConnectFails, FrameError
<1>4. Conns' /\ Made' /\ Closed
  BY <1>1, <1>2, <1>3, OnCloseConn, OneConn DEF Inv, Conns
<1>5. Owned'
  <2>1. CASE FrameError(s)
    BY <1>1, <2>1 DEF FrameError, Socket, Inv, Owned
  <2>2. CASE Close(s) \/ ConnectFails(s)
    <3>1. sock' = [sock EXCEPT ![s] = FreeSocket]
      BY <2>2 DEF Close, ConnectFails, Over
    <3>2. FreeSocket \in Socket /\ FreeSocket.state = "closed"
      BY RelayAssumption DEF FreeSocket, Socket
    <3>. QED
      BY <1>1, <3>1, <3>2 DEF Inv, Owned
  <2>. QED
    BY <2>1, <2>2
<1>. QED
  BY <1>4, <1>5 DEF Inv

\* The sockets change, and no connector does.
LEMMA SocketStep ==
  ASSUME Inv, \/ \E s \in Sockets : Open(s) \/ Drop(s) \/ RelayHandles(s)
              \/ \E p \in Peers : AskJoin(p) \/ PeerJoins(p)
              \/ \E r \in Rooms : PeerAnswers(r) \/ PeerLeaves(r)
  PROVE  Inv' /\ Closed
<1>1. UNCHANGED <<conn, current>>
  BY DEF Open, Drop, RelayHandles, AskJoin, PeerJoins, PeerAnswers, PeerLeaves
<1>2. Conns' /\ Made' /\ Closed
  BY <1>1 DEF Inv, Conns, Made, Closed
<1>3. ASSUME NEW s \in Sockets, Open(s) \/ Drop(s) PROVE Owned'
  <2>1. PICK st \in {"open", "ended"} : sock' = [sock EXCEPT ![s] = [sock[s] EXCEPT !.state = st]]
    BY <1>3 DEF Open, Drop
  <2>2. sock[s].state # "closed"
    BY <1>3 DEF Open, Drop
  <2>3. \A z \in Sockets : z # s => sock'[z] = sock[z]
    BY <2>1 DEF Inv, Owned
  <2>4. sock'[s] = [sock[s] EXCEPT !.state = st]
    BY <2>1 DEF Inv, Owned
  <2>5. sock[s].owner \in 1 .. current
    BY <2>2 DEF Inv, Owned
  <2>6. sock'[s].owner = sock[s].owner
    BY <2>4 DEF Inv, Owned, Socket
  <2>7. sock' \in [Sockets -> Socket]
    BY <2>1 DEF Inv, Owned, Socket
  <2>. QED
    BY <1>1, <2>3, <2>5, <2>6, <2>7 DEF Inv, Owned
<1>4. ASSUME NEW s \in Sockets, RelayHandles(s) PROVE Owned'
  <2>1. sock' = sock \/ sock' = [z \in Sockets |->
          IF z = at /\ z # s /\ sock[z].state = "open"
          THEN [sock[z] EXCEPT !.state = "ended"] ELSE sock[z]]
    BY <1>4 DEF RelayHandles
  <2>2. sock' \in [Sockets -> Socket]
    <3>1. \A z \in Sockets : [sock[z] EXCEPT !.state = "ended"] \in Socket
      BY DEF Inv, Owned, Socket
    <3>. QED
      BY <2>1, <3>1 DEF Inv, Owned
  <2>3. \A z \in Sockets : /\ sock'[z].owner = sock[z].owner
                           /\ sock'[z].state # "closed" => sock[z].state # "closed"
    BY <2>1 DEF Inv, Owned, Socket
  <2>. QED
    BY <1>1, <2>2, <2>3 DEF Inv, Owned
<1>5. ASSUME UNCHANGED sock PROVE Owned'
  BY <1>1, <1>5 DEF Inv, Owned
<1>6. Owned'
  BY <1>3, <1>4, <1>5 DEF AskJoin, PeerJoins, PeerAnswers, PeerLeaves
<1>. QED
  BY <1>2, <1>6 DEF Inv

\* "registered" reaches c, and the connector before it is disconnected for good.
LEMMA RegisteredStep ==
  ASSUME Inv, NEW c \in Connectors, c <= current, Registered(c), current' = current
  PROVE  Inv' /\ Closed
<1> DEFINE old  == IF c = 1 THEN {} ELSE {c - 1}
           last == IF previous[c] = {} THEN conn[c].target ELSE Last(SetToSeq(previous[c]))
           new  == [conn[c] EXCEPT !.state = "registered", !.target = last]
           ws   == {conn[d].ws : d \in old}
<1>1. conn' = [d \in Connectors |-> IF d = c THEN [conn[d] EXCEPT !.state = "registered", !.target = last]
                                   ELSE IF d \in old THEN Disconnect(conn[d]) ELSE conn[d]]
  BY DEF Registered
<1>2. \A d \in Connectors : conn'[d] = IF d = c THEN new
                                       ELSE IF d \in old THEN Disconnect(conn[d]) ELSE conn[d]
  BY <1>1
<1>3. c \in Nat /\ \A d \in old : d <= current
  BY DEF Connectors, Inv, Made
<1> HIDE DEF old, last
<1>4. ASSUME NEW d \in Connectors
      PROVE  /\ IsConn(conn'[d]) /\ Rests(conn'[d])
             /\ conn[d].closed => conn'[d].closed
             /\ d > current => conn'[d] = conn[d]
  <2>1. IsConn(conn[d]) /\ Rests(conn[d])
    BY DEF Inv, Conns
  <2>2. CASE d = c
    <3>1. conn'[d] = [conn[d] EXCEPT !.state = "registered", !.target = last]
      BY <1>1, <2>2
    <3>2. ~(d > current)
      BY <2>2, <1>3 DEF Inv, Made
    <3>. QED
      BY <2>1, <3>1, <3>2 DEF IsConn, Rests
  <2>3. CASE d # c /\ d \in old
    <3>1. conn'[d] = Disconnect(conn[d])
      BY <1>1, <2>3
    <3>2. ~(d > current)
      BY <2>3, <1>3 DEF Inv, Made, Connectors
    <3>. QED
      BY <2>1, <3>1, <3>2, DisconnectConn
  <2>4. CASE d # c /\ d \notin old
    BY <1>1, <2>1, <2>4
  <2>. QED
    BY <2>2, <2>3, <2>4
<1>5. Conns'
  BY <1>1, <1>4 DEF Conns
<1>6. Made' /\ Closed
  BY <1>4 DEF Inv, Made, Closed
<1>7. sock' = [s \in Sockets |-> IF s \in ws /\ sock[s].state \in {"connecting", "open"}
                                THEN [sock[s] EXCEPT !.state = "closing"] ELSE sock[s]]
  BY DEF Registered, old
<1> HIDE DEF ws
<1>8. Owned'
  <2>1. \A s \in Sockets : /\ [sock[s] EXCEPT !.state = "closing"] \in Socket
                           /\ [sock[s] EXCEPT !.state = "closing"].owner = sock[s].owner
    BY DEF Inv, Owned, Socket
  <2>2. sock' \in [Sockets -> Socket]
    BY <1>7, <2>1 DEF Inv, Owned
  <2>3. \A s \in Sockets : /\ sock'[s].owner = sock[s].owner
                           /\ sock'[s].state # "closed" => sock[s].state # "closed"
    BY <1>7, <2>1
  <2>. QED
    BY <2>2, <2>3 DEF Inv, Owned
<1>. QED
  BY <1>5, <1>6, <1>8 DEF Inv

\* A message of the relay.
LEMMA ReceiveStep ==
  ASSUME Inv, NEW s \in Sockets, Receive(s)
  PROVE  Inv' /\ Closed
<1> DEFINE c == sock[s].owner
<1>1. sock[s].state # "closed" /\ current' = current
  BY DEF Receive
<1>2. c \in Connectors /\ c <= current
  BY <1>1, OwnerMade
<1>3. CASE Registered(c)
  BY <1>1, <1>2, <1>3, RegisteredStep
<1>4. ASSUME NEW R, conn' = [conn EXCEPT ![c].rooms = R], UNCHANGED sock
      PROVE  Inv' /\ Closed
  <2>1. IsConn(conn[c]) /\ Rests(conn[c])
    BY <1>2 DEF Inv, Conns
  <2>2. conn' = [conn EXCEPT ![c] = [conn[c] EXCEPT !.rooms = R]]
    BY <1>4
  <2>3. Conns' /\ Made' /\ Closed
    BY <1>1, <1>2, <2>1, <2>2, RoomsConn, OneConn
  <2>4. Owned'
    BY <1>1, <1>4 DEF Inv, Owned
  <2>. QED
    BY <2>3, <2>4 DEF Inv
<1>5. \/ Registered(c)
      \/ UNCHANGED sock /\ \E R \in {Incoming(conn[c], Head(inq[s]).room, Head(inq[s]).peer),
           Joined(conn[c], Head(inq[s]).room), KeyExchange(conn[c], Head(inq[s]).room),
           PeerLeft(conn[c], Head(inq[s]).room)} : conn' = [conn EXCEPT ![c].rooms = R]
  BY DEF Receive
<1>. QED
  BY <1>3, <1>4, <1>5

LEMMA InvStep ==
  ASSUME Inv, [Next]_vars
  PROVE  Inv' /\ Closed
<1>1. CASE UNCHANGED vars
  BY <1>1 DEF vars, Inv, Conns, Made, Owned, Closed
<1>2. CASE Next
  BY <1>2, NewStep, ReconnectStep, RecordStep, CloseStep, SocketStep, ReceiveStep DEF Next
<1>. QED
  BY <1>1, <1>2

LEMMA InvInit == Init => Inv
<1>1. Init => Conns
  <2>1. IsConn(Fresh) /\ Rests(Fresh)
    BY DEF Fresh, IsConn, Rests
  <2>. QED
    BY <2>1 DEF Init, Conns
<1>2. Init => Made
  BY RelayAssumption DEF Init, Fresh, Made, Connectors
<1>3. Init => Owned
  BY RelayAssumption DEF Init, FreeSocket, Socket, Owned
<1>. QED
  BY <1>1, <1>2, <1>3 DEF Inv

\* A connector that its successor disconnected (connector.ts disconnect) stays closed: no
\* later event of its sockets arms a timer, and no timer of it connects again.
THEOREM Retired == Spec => StaysClosed
<1> DEFINE Stays == \A c \in Connectors : conn[c].closed =>
                      /\ conn'[c].closed /\ ~conn'[c].timer
                      /\ conn'[c].state # "connecting"
<1>1. Init => Inv
  BY InvInit
<1>2. Inv /\ [Next]_vars => Inv'
  BY InvStep
<1>3. Inv /\ [Next]_vars => [Stays]_vars
  <2>1. ASSUME Inv, [Next]_vars PROVE Stays
    <3>1. Inv' /\ Closed
      BY <2>1, InvStep
    <3>. QED
      BY <3>1 DEF Inv, Conns, Rests, Closed
  <2>. QED
    BY <2>1
<1>. QED
  BY <1>1, <1>2, <1>3, PTL DEF Spec, StaysClosed

-----------------------------------------------------------------------------
(* What the steps do to the sockets of a connector and to its rooms.       *)

LEMMA OnCloseFields ==
  ASSUME NEW x, IsConn(x)
  PROVE  /\ OnClose(x).state = "disconnected" /\ OnClose(x).ws = NoSocket
         /\ OnClose(x).rooms = {} /\ OnClose(x).closed = x.closed
BY DEF OnClose, Cleanup, IsConn

LEMMA DisconnectFields ==
  ASSUME NEW x, IsConn(x)
  PROVE  Disconnect(x).closed /\ Disconnect(x).ws = NoSocket /\ Disconnect(x).rooms = {}
BY DEF Disconnect, Cleanup, IsConn

\* connect(): a fresh socket, and the record of the connector it is for.
LEMMA ConnectEffect ==
  ASSUME Inv, NEW c \in Connectors, NEW s \in Sockets, NEW cn, NEW x, IsConn(x),
         x.rooms = conn[c].rooms, cn = [conn EXCEPT ![c] = x], Connect(cn, c, s)
  PROVE  /\ sock[s] = FreeSocket /\ sock'[s] = [state |-> "connecting", owner |-> c]
         /\ \A z \in Sockets : z # s => sock'[z] = sock[z]
         /\ conn'[c].ws = s /\ conn'[c].state = "connecting" /\ ~conn'[c].closed
         /\ conn'[c].rooms = conn[c].rooms
         /\ \A d \in Connectors : d # c => conn'[d] = conn[d]
<1> DEFINE y == [x EXCEPT !.closed = FALSE, !.state = "connecting", !.ws = s]
<1>1. /\ y.ws = s /\ y.state = "connecting" /\ ~y.closed /\ y.rooms = x.rooms
  BY DEF IsConn
<1>2. conn' = [conn EXCEPT ![c] = y]
  <2>1. conn' = [cn EXCEPT ![c] = [cn[c] EXCEPT !.closed = FALSE, !.state = "connecting", !.ws = s]]
    BY DEF Connect
  <2>2. c \in DOMAIN conn /\ cn[c] = x
    BY DEF Inv, Conns
  <2>3. conn' = [cn EXCEPT ![c] = y]
    BY <2>1, <2>2
  <2> HIDE DEF y
  <2>. QED
    BY <2>2, <2>3
<1> HIDE DEF y
<1>3. conn'[c] = y /\ \A d \in Connectors : d # c => conn'[d] = conn[d]
  BY <1>2 DEF Inv, Conns
<1>4. /\ sock[s] = FreeSocket /\ sock'[s] = [state |-> "connecting", owner |-> c]
      /\ \A z \in Sockets : z # s => sock'[z] = sock[z]
  BY DEF Connect, Slot, Inv, Owned
<1>. QED
  BY <1>1, <1>3, <1>4

\* The close or error event of a socket.
LEMMA CloseEffect ==
  ASSUME Inv, NEW s \in Sockets, Close(s) \/ ConnectFails(s) \/ FrameError(s)
  PROVE  LET c == sock[s].owner IN
         /\ c \in Connectors
         /\ conn'[c].state = "disconnected" /\ conn'[c].ws = NoSocket /\ conn'[c].rooms = {}
         /\ conn'[c].closed = conn[c].closed
         /\ \A d \in Connectors : d # c => conn'[d] = conn[d]
         /\ \A z \in Sockets : z # s => sock'[z] = sock[z]
         /\ \/ sock[s].state = "open" /\ sock'[s] = [state |-> "erred", owner |-> c]
            \/ sock[s].state \in {"connecting", "ended", "closing", "erred"} /\ sock'[s] = FreeSocket
<1> DEFINE c == sock[s].owner
<1>1. sock[s].state # "closed"
  BY DEF Close, ConnectFails, FrameError
<1>2. c \in Connectors
  BY <1>1, OwnerMade
<1>3. conn' = [conn EXCEPT ![c] = OnClose(conn[c])]
  BY DEF Close, ConnectFails, FrameError
<1>4. conn'[c] = OnClose(conn[c]) /\ \A d \in Connectors : d # c => conn'[d] = conn[d]
  BY <1>2, <1>3 DEF Inv, Conns
<1>5. IsConn(conn[c])
  BY <1>2 DEF Inv, Conns
<1>6. CASE Close(s) \/ ConnectFails(s)
  <2>1. /\ sock' = [sock EXCEPT ![s] = FreeSocket]
        /\ sock[s].state \in {"connecting", "ended", "closing", "erred"}
    BY <1>6 DEF Close, ConnectFails, Over
  <2>2. sock'[s] = FreeSocket /\ \A z \in Sockets : z # s => sock'[z] = sock[z]
    BY <2>1 DEF Inv, Owned
  <2>. QED
    BY <1>2, <1>4, <1>5, <2>1, <2>2, OnCloseFields
<1>7. CASE FrameError(s)
  <2>1. sock' = [sock EXCEPT ![s].state = "erred"] /\ sock[s].state = "open"
    BY <1>7 DEF FrameError
  <2>2. sock'[s] = [sock[s] EXCEPT !.state = "erred"] /\ \A z \in Sockets : z # s => sock'[z] = sock[z]
    BY <2>1 DEF Inv, Owned
  <2>3. [sock[s] EXCEPT !.state = "erred"] = [state |-> "erred", owner |-> c]
    BY DEF Inv, Owned, Socket
  <2>. QED
    BY <1>2, <1>4, <1>5, <2>1, <2>2, <2>3, OnCloseFields
<1>. QED
  BY <1>6, <1>7

\* A socket opens, or its end is on the way: nothing else changes.
LEMMA SocketEffect ==
  ASSUME Inv, \/ \E s \in Sockets : Open(s) \/ Drop(s) \/ RelayHandles(s)
              \/ \E p \in Peers : AskJoin(p) \/ PeerJoins(p)
              \/ \E r \in Rooms : PeerAnswers(r) \/ PeerLeaves(r)
  PROVE  /\ UNCHANGED <<conn, current>>
         /\ \A z \in Sockets :
              /\ sock'[z].owner = sock[z].owner
              /\ \/ sock'[z].state = sock[z].state
                 \/ sock[z].state = "connecting" /\ sock'[z].state = "open"
                 \/ sock[z].state = "open" /\ sock'[z].state = "ended"
<1>1. UNCHANGED <<conn, current>>
  BY DEF Open, Drop, RelayHandles, AskJoin, PeerJoins, PeerAnswers, PeerLeaves
<1> DEFINE P(z) == /\ sock'[z].owner = sock[z].owner
                   /\ \/ sock'[z].state = sock[z].state
                      \/ sock[z].state = "connecting" /\ sock'[z].state = "open"
                      \/ sock[z].state = "open" /\ sock'[z].state = "ended"
<1>2. ASSUME NEW s \in Sockets, Open(s) \/ Drop(s), NEW z \in Sockets PROVE P(z)
  <2>1. \/ sock[s].state = "connecting" /\ sock' = [sock EXCEPT ![s].state = "open"]
        \/ sock[s].state = "open" /\ sock' = [sock EXCEPT ![s].state = "ended"]
    BY <1>2 DEF Open, Drop
  <2>. QED
    BY <2>1 DEF Inv, Owned, Socket
<1>3. ASSUME NEW s \in Sockets, RelayHandles(s), NEW z \in Sockets PROVE P(z)
  <2>1. sock' = sock \/ sock' = [y \in Sockets |->
          IF y = at /\ y # s /\ sock[y].state = "open"
          THEN [sock[y] EXCEPT !.state = "ended"] ELSE sock[y]]
    BY <1>3 DEF RelayHandles
  <2>. QED
    BY <2>1 DEF Inv, Owned, Socket
<1>4. ASSUME UNCHANGED sock, NEW z \in Sockets PROVE P(z)
  BY <1>4
<1>. QED
  BY <1>1, <1>2, <1>3, <1>4 DEF AskJoin, PeerJoins, PeerAnswers, PeerLeaves

\* The steps that only write the token, the target, the timer or the rooms of a connector:
\* a room appears in handleMessage alone, on a socket that still delivers.
LEMMA RecordEffect ==
  ASSUME Inv, \/ \E c \in Connectors : Expire(c)
              \/ \E c \in Connectors, p \in Peers : JoinAsked(c, p)
              \/ \E r \in Rooms : DisconnectRoom(r)
              \/ \E c \in Connectors : Reconnect(c) /\ UNCHANGED sock
              \/ \E s \in Sockets : Receive(s) /\ ~Registered(sock[s].owner)
  PROVE  /\ UNCHANGED <<sock, current>>
         /\ \A d \in Connectors :
              /\ conn'[d].closed = conn[d].closed /\ conn'[d].ws = conn[d].ws
              /\ conn'[d].state = conn[d].state
              /\ \/ conn[d].rooms = {} => conn'[d].rooms = {}
                 \/ \E s \in Sockets : sock[s].owner = d /\ sock[s].state \in {"open", "ended", "closing"}
<1> DEFINE P(d) == /\ conn'[d].closed = conn[d].closed /\ conn'[d].ws = conn[d].ws
                   /\ conn'[d].state = conn[d].state
           Q(d) == \/ conn[d].rooms = {} => conn'[d].rooms = {}
                   \/ \E s \in Sockets : sock[s].owner = d /\ sock[s].state \in {"open", "ended", "closing"}
<1>0. \A d \in Connectors : IsConn(conn[d])
  BY DEF Inv, Conns
<1>f. conn = [d \in Connectors |-> conn[d]]
  BY DEF Inv, Conns
<1>1. ASSUME NEW c \in Connectors, NEW y,
             conn' = [conn EXCEPT ![c] = y], y.closed = conn[c].closed, y.ws = conn[c].ws,
             y.state = conn[c].state, y.rooms = conn[c].rooms
      PROVE  \A d \in Connectors : P(d) /\ Q(d)
  BY <1>1, <1>f
<1>2. ASSUME NEW c \in Connectors, Expire(c) PROVE UNCHANGED <<sock, current>> /\ \A d \in Connectors : P(d) /\ Q(d)
  <2>1. PICK y : y = [conn[c] EXCEPT !.expired = TRUE]
    OBVIOUS
  <2>2. y.closed = conn[c].closed /\ y.ws = conn[c].ws /\ y.state = conn[c].state /\ y.rooms = conn[c].rooms
    BY <1>0, <2>1 DEF IsConn
  <2>3. conn' = [conn EXCEPT ![c] = y] /\ UNCHANGED <<sock, current>>
    BY <1>2, <2>1 DEF Expire
  <2>. QED
    BY <1>1, <2>2, <2>3
<1>3. ASSUME NEW c \in Connectors, NEW p \in Peers, JoinAsked(c, p)
      PROVE  UNCHANGED <<sock, current>> /\ \A d \in Connectors : P(d) /\ Q(d)
  <2>1. PICK e \in {FALSE, conn[c].expired} :
          conn' = [conn EXCEPT ![c] = [conn[c] EXCEPT !.target = p, !.expired = e]]
    BY <1>3 DEF JoinAsked
  <2>2. PICK y : y = [conn[c] EXCEPT !.target = p, !.expired = e]
    OBVIOUS
  <2>3. y.closed = conn[c].closed /\ y.ws = conn[c].ws /\ y.state = conn[c].state /\ y.rooms = conn[c].rooms
    BY <1>0, <2>2 DEF IsConn
  <2>4. conn' = [conn EXCEPT ![c] = y] /\ UNCHANGED <<sock, current>>
    BY <1>3, <2>1, <2>2 DEF JoinAsked
  <2>. QED
    BY <1>1, <2>3, <2>4
<1>4. ASSUME NEW c \in Connectors, Reconnect(c), UNCHANGED sock
      PROVE  UNCHANGED <<sock, current>> /\ \A d \in Connectors : P(d) /\ Q(d)
  <2>1. PICK y : y = [conn[c] EXCEPT !.timer = FALSE]
    OBVIOUS
  <2>2. y.closed = conn[c].closed /\ y.ws = conn[c].ws /\ y.state = conn[c].state /\ y.rooms = conn[c].rooms
    BY <1>0, <2>1 DEF IsConn
  <2>3. ASSUME NEW cn, NEW s \in Sockets, Connect(cn, c, s) PROVE FALSE
    <3>1. sock'[s].state = "connecting" /\ sock[s].state = "closed"
      BY <2>3 DEF Connect, Slot, FreeSocket, Inv, Owned
    <3>. QED
      BY <1>4, <3>1
  <2>4. conn' = [conn EXCEPT ![c] = y] /\ UNCHANGED <<sock, current>>
    BY <1>4, <2>1, <2>3 DEF Reconnect
  <2>. QED
    BY <1>1, <2>2, <2>4
<1>5. ASSUME NEW c \in Connectors, NEW R, conn' = [conn EXCEPT ![c].rooms = R],
             conn[c].rooms = {} => R = {} \/ Q(c)
      PROVE  \A d \in Connectors : P(d) /\ Q(d)
  <2>1. PICK y : y = [conn[c] EXCEPT !.rooms = R]
    OBVIOUS
  <2>2. /\ y.closed = conn[c].closed /\ y.ws = conn[c].ws /\ y.state = conn[c].state /\ y.rooms = R
    BY <1>0, <2>1 DEF IsConn
  <2>3. conn'[c] = y /\ \A d \in Connectors : d # c => conn'[d] = conn[d]
    BY <1>5, <1>f, <2>1
  <2>. QED
    BY <1>5, <2>2, <2>3
<1>6. ASSUME NEW r \in Rooms, DisconnectRoom(r)
      PROVE  UNCHANGED <<sock, current>> /\ \A d \in Connectors : P(d) /\ Q(d)
  <2>1. current \in Connectors
    BY <1>6, RelayAssumption DEF DisconnectRoom, Inv, Made, Connectors
  <2>2. /\ conn' = [conn EXCEPT ![current].rooms = PeerLeft(conn[current], r)]
        /\ UNCHANGED <<sock, current>>
    BY <1>6 DEF DisconnectRoom
  <2>3. conn[current].rooms = {} => PeerLeft(conn[current], r) = {}
    BY DEF PeerLeft
  <2>. QED
    BY <1>5, <2>1, <2>2, <2>3
<1>7. ASSUME NEW s \in Sockets, Receive(s), ~Registered(sock[s].owner)
      PROVE  UNCHANGED <<sock, current>> /\ \A d \in Connectors : P(d) /\ Q(d)
  <2> DEFINE c == sock[s].owner
  <2>1. c \in Connectors
    BY <1>7, OwnerMade DEF Receive
  <2>2. Q(c)
    BY <1>7 DEF Receive
  <2>3. UNCHANGED <<sock, current>> /\ \E R : conn' = [conn EXCEPT ![c].rooms = R]
    BY <1>7 DEF Receive
  <2>. QED
    BY <1>5, <2>1, <2>2, <2>3
<1>. QED
  BY <1>2, <1>3, <1>4, <1>6, <1>7

\* "registered": what becomes of the connector c it reaches, of the one before it, and of
\* the socket that one had.
LEMMA RegisteredEffect ==
  ASSUME Inv, NEW c \in Connectors, Registered(c)
  PROVE  /\ conn'[c].closed = conn[c].closed /\ conn'[c].ws = conn[c].ws
         /\ conn'[c].state = "registered" /\ conn'[c].rooms = conn[c].rooms
         /\ \A d \in Connectors : d # c =>
              \/ conn'[d] = conn[d]
              \/ d = c - 1 /\ conn'[d].closed /\ conn'[d].ws = NoSocket /\ conn'[d].rooms = {}
         /\ c - 1 \in Connectors => conn'[c - 1].closed
         /\ \A z \in Sockets :
              /\ sock'[z].owner = sock[z].owner
              /\ sock'[z].state = IF /\ c # 1 /\ z = conn[c - 1].ws
                                     /\ sock[z].state \in {"connecting", "open"}
                                  THEN "closing" ELSE sock[z].state
<1> DEFINE old  == IF c = 1 THEN {} ELSE {c - 1}
           last == IF previous[c] = {} THEN conn[c].target ELSE Last(SetToSeq(previous[c]))
           ws   == {conn[d].ws : d \in old}
<1>1. conn' = [d \in Connectors |-> IF d = c THEN [conn[d] EXCEPT !.state = "registered", !.target = last]
                                   ELSE IF d \in old THEN Disconnect(conn[d]) ELSE conn[d]]
  BY DEF Registered
<1>2. c \in Nat /\ c # c - 1 /\ (c - 1 \in Connectors => c # 1)
  BY RelayAssumption DEF Connectors
<1>3. sock' = [z \in Sockets |-> IF z \in ws /\ sock[z].state \in {"connecting", "open"}
                                THEN [sock[z] EXCEPT !.state = "closing"] ELSE sock[z]]
  BY DEF Registered
<1>4. \A z \in Sockets : z \in ws <=> c # 1 /\ z = conn[c - 1].ws
  OBVIOUS
<1>5. \A d \in old : d = c - 1
  OBVIOUS
<1>6. c # 1 => c - 1 \in old
  OBVIOUS
<1> HIDE DEF old, last, ws
<1>7. \A d \in Connectors : IsConn(conn[d])
  BY DEF Inv, Conns
<1>8. /\ conn'[c].closed = conn[c].closed /\ conn'[c].ws = conn[c].ws
      /\ conn'[c].state = "registered" /\ conn'[c].rooms = conn[c].rooms
  <2>1. conn'[c] = [conn[c] EXCEPT !.state = "registered", !.target = last]
    BY <1>1
  <2>. QED
    BY <1>7, <2>1 DEF IsConn
<1>9. \A d \in Connectors : d # c => conn'[d] = IF d \in old THEN Disconnect(conn[d]) ELSE conn[d]
  BY <1>1
<1>10. ASSUME NEW z \in Sockets
       PROVE  /\ sock'[z].owner = sock[z].owner
              /\ sock'[z].state = IF /\ c # 1 /\ z = conn[c - 1].ws
                                     /\ sock[z].state \in {"connecting", "open"}
                                  THEN "closing" ELSE sock[z].state
  <2>1. /\ [sock[z] EXCEPT !.state = "closing"].owner = sock[z].owner
        /\ [sock[z] EXCEPT !.state = "closing"].state = "closing"
    BY DEF Inv, Owned, Socket
  <2>2. sock'[z] = IF z \in ws /\ sock[z].state \in {"connecting", "open"}
                   THEN [sock[z] EXCEPT !.state = "closing"] ELSE sock[z]
    BY <1>3
  <2>3. CASE z \in ws /\ sock[z].state \in {"connecting", "open"}
    BY <1>4, <2>1, <2>2, <2>3
  <2>4. CASE ~(z \in ws /\ sock[z].state \in {"connecting", "open"})
    BY <1>4, <2>2, <2>4
  <2>. QED
    BY <2>3, <2>4
<1>11. c - 1 \in Connectors => conn'[c - 1].closed
  BY <1>2, <1>6, <1>7, <1>9, DisconnectFields
<1>12. ASSUME NEW d \in Connectors, d # c
       PROVE  \/ conn'[d] = conn[d]
              \/ d = c - 1 /\ conn'[d].closed /\ conn'[d].ws = NoSocket /\ conn'[d].rooms = {}
  BY <1>5, <1>7, <1>9, <1>12, DisconnectFields
<1>. QED
  BY <1>8, <1>10, <1>11, <1>12

-----------------------------------------------------------------------------
(* One socket for a connector.                                             *)

\* The socket a connector knows is one of its own, and what the state of each of its
\* sockets says of it, unless a late close event has hit it: one that is connecting, open or
\* about to report its end is the one it knows.  (Of one whose error it knows, nothing:
\* there may be a new one by the time that one's close event comes.)
Known == \A d \in Connectors : conn[d].ws \in Sockets => sock[conn[d].ws].owner = d

Fits(st, x, s) ==
  /\ st \in {"connecting", "open"} => ~x.closed /\ x.ws = s /\ x.state # "disconnected"
  /\ st = "ended"   => x.closed \/ (x.ws = s /\ x.state # "disconnected")
  /\ st = "closing" => x.closed

Fit == \A s \in Sockets : sock[s].owner \notin hit => Fits(sock[s].state, conn[sock[s].owner], s)

\* A connector that was hit stays so, and a close event that does not hit one met no new socket.
LEMMA Hits ==
  ASSUME [Next]_vars
  PROVE  /\ hit \subseteq hit'
         /\ \A s \in Sockets : Close(s) /\ sock[s].state = "erred" /\ sock[s].owner \notin hit' =>
              conn[sock[s].owner].ws = NoSocket
<1>1. ASSUME NEW s \in Sockets, Close(s)
      PROVE  /\ hit \subseteq hit'
             /\ sock[s].state = "erred" /\ sock[s].owner \notin hit' => conn[sock[s].owner].ws = NoSocket
  BY <1>1 DEF Close
<1>2. \/ \E s \in Sockets : Close(s)
      \/ UNCHANGED hit
  BY DEF Next, NewConnector, Reconnect, Expire, JoinAsked, Open, Receive, RelayHandles, ConnectFails,
         Drop, FrameError, Fault, AskJoin, PeerJoins, DisconnectRoom, PeerAnswers, PeerLeaves, vars
<1>. QED
  BY <1>1, <1>2

\* The five shapes of a step.
LEMMA Shapes ==
  ASSUME Inv, [Next]_vars
  PROVE  \/ \E c \in Connectors, s \in Sockets :
              /\ c = current + 1 \/ Reconnect(c)
              /\ c = current + 1 => ~conn[c].closed
              /\ c = current + 1 \/ conn[c].state = "disconnected"
              /\ sock[s] = FreeSocket /\ sock'[s] = [state |-> "connecting", owner |-> c]
              /\ \A z \in Sockets : z # s => sock'[z] = sock[z]
              /\ conn'[c].ws = s /\ conn'[c].state = "connecting" /\ ~conn'[c].closed
              /\ conn'[c].rooms = conn[c].rooms
              /\ \A d \in Connectors : d # c => conn'[d] = conn[d]
         \/ \E s \in Sockets : Close(s) \/ ConnectFails(s) \/ FrameError(s)
         \/ \/ \E s \in Sockets : Open(s) \/ Drop(s) \/ RelayHandles(s)
            \/ \E p \in Peers : AskJoin(p) \/ PeerJoins(p)
            \/ \E r \in Rooms : PeerAnswers(r) \/ PeerLeaves(r)
         \/ \/ \E c \in Connectors : Expire(c)
            \/ \E c \in Connectors, p \in Peers : JoinAsked(c, p)
            \/ \E r \in Rooms : DisconnectRoom(r)
            \/ \E c \in Connectors : Reconnect(c) /\ UNCHANGED sock
            \/ \E s \in Sockets : Receive(s) /\ ~Registered(sock[s].owner)
         \/ \E s \in Sockets : Receive(s) /\ Registered(sock[s].owner)
         \/ UNCHANGED <<conn, current, sock>>
<1> DEFINE Made1 == \E c \in Connectors, s \in Sockets :
              /\ c = current + 1 \/ Reconnect(c)
              /\ c = current + 1 => ~conn[c].closed
              /\ c = current + 1 \/ conn[c].state = "disconnected"
              /\ sock[s] = FreeSocket /\ sock'[s] = [state |-> "connecting", owner |-> c]
              /\ \A z \in Sockets : z # s => sock'[z] = sock[z]
              /\ conn'[c].ws = s /\ conn'[c].state = "connecting" /\ ~conn'[c].closed
              /\ conn'[c].rooms = conn[c].rooms
              /\ \A d \in Connectors : d # c => conn'[d] = conn[d]
<1>1. ASSUME NewConnector PROVE Made1
  <2> DEFINE c == current + 1
  <2>1. c \in Connectors /\ c > current
    BY <1>1, RelayAssumption DEF NewConnector, Inv, Made, Connectors
  <2>2. ~conn[c].closed /\ IsConn(conn[c]) /\ conn = [conn EXCEPT ![c] = conn[c]]
    BY <2>1 DEF Inv, Made, Conns
  <2>3. PICK s \in Sockets : Connect(conn, c, s)
    BY <1>1 DEF NewConnector
  <2>. QED
    BY <2>1, <2>2, <2>3, ConnectEffect
<1>2. ASSUME NEW c \in Connectors, Reconnect(c) PROVE Made1 \/ UNCHANGED sock
  <2> DEFINE x  == [conn[c] EXCEPT !.timer = FALSE]
             cn == [conn EXCEPT ![c].timer = FALSE]
  <2>1. IsConn(conn[c]) /\ Rests(conn[c]) /\ conn[c].timer
    BY <1>2 DEF Reconnect, Inv, Conns
  <2>2. IsConn(x) /\ x.rooms = conn[c].rooms /\ ~conn[c].closed
    BY <2>1 DEF IsConn, Rests
  <2>3. cn = [conn EXCEPT ![c] = x]
    OBVIOUS
  <2> HIDE DEF x, cn
  <2>4. ASSUME NEW s \in Sockets, Connect(cn, c, s), conn[c].state = "disconnected" PROVE Made1
    <3>1. /\ sock[s] = FreeSocket /\ sock'[s] = [state |-> "connecting", owner |-> c]
          /\ \A z \in Sockets : z # s => sock'[z] = sock[z]
          /\ conn'[c].ws = s /\ conn'[c].state = "connecting" /\ ~conn'[c].closed
          /\ conn'[c].rooms = conn[c].rooms
          /\ \A d \in Connectors : d # c => conn'[d] = conn[d]
      BY <2>2, <2>3, <2>4, ConnectEffect
    <3>. QED
      BY <1>2, <2>2, <2>4, <3>1
  <2>. QED
    BY <1>2, <2>4 DEF Reconnect, cn
<1>3. UNCHANGED vars => UNCHANGED <<conn, current, sock>>
  BY DEF vars
<1>. QED
  BY <1>1, <1>2, <1>3 DEF Next

LEMMA KnownStep ==
  ASSUME Inv, Known, [Next]_vars
  PROVE  Known'
<1> SUFFICES ASSUME NEW d \in Connectors, conn'[d].ws \in Sockets
             PROVE  sock'[conn'[d].ws].owner = d
  BY DEF Known
<1>0. conn[d].ws \in Sockets => sock[conn[d].ws].owner = d
  BY DEF Known
<1>d. NoSocket \notin Sockets /\ d # 0
  BY RelayAssumption DEF Connectors
<1>1. ASSUME NEW c \in Connectors, NEW s \in Sockets,
             sock[s] = FreeSocket, sock'[s] = [state |-> "connecting", owner |-> c],
             \A z \in Sockets : z # s => sock'[z] = sock[z],
             conn'[c].ws = s, d # c => conn'[d] = conn[d]
      PROVE  sock'[conn'[d].ws].owner = d
  <2>1. CASE d = c
    BY <1>1, <2>1
  <2>2. CASE d # c
    <3>1. sock[s].owner = 0
      BY <1>1 DEF FreeSocket
    <3>2. conn[d].ws # s
      BY <1>0, <1>1, <1>d, <3>1
    <3>. QED
      BY <1>0, <1>1, <2>2, <3>2
  <2>. QED
    BY <2>1, <2>2
<1>2. ASSUME NEW s \in Sockets, Close(s) \/ ConnectFails(s) \/ FrameError(s)
      PROVE  sock'[conn'[d].ws].owner = d
  <2>1. PICK c : c = sock[s].owner
    OBVIOUS
  <2>2. /\ c \in Connectors /\ conn'[c].ws = NoSocket
        /\ d # c => conn'[d] = conn[d]
        /\ \A z \in Sockets : z # s => sock'[z] = sock[z]
    BY <1>2, <2>1, CloseEffect
  <2>3. d # c /\ conn'[d] = conn[d]
    BY <1>d, <2>2
  <2>4. conn[d].ws \in Sockets /\ conn[d].ws # s
    BY <1>0, <2>1, <2>3
  <2>. QED
    BY <1>0, <2>2, <2>3, <2>4
<1>3. ASSUME \A z \in Sockets : sock'[z].owner = sock[z].owner, conn'[d].ws \in {conn[d].ws, NoSocket}
      PROVE  sock'[conn'[d].ws].owner = d
  BY <1>0, <1>3, <1>d
<1>4. ASSUME NEW s \in Sockets, Receive(s), Registered(sock[s].owner)
      PROVE  sock'[conn'[d].ws].owner = d
  <2>1. sock[s].owner \in Connectors
    BY <1>4, OwnerMade DEF Receive
  <2>. QED
    BY <1>3, <1>4, <2>1, RegisteredEffect
<1>. QED
  BY <1>1, <1>2, <1>3, <1>4, Shapes, SocketEffect, RecordEffect

LEMMA FitStep ==
  ASSUME Inv, Known, Fit, [Next]_vars
  PROVE  Fit'
<1> SUFFICES ASSUME NEW z \in Sockets, sock'[z].owner \notin hit'
             PROVE  Fits(sock'[z].state, conn'[sock'[z].owner], z)
  BY DEF Fit
<1>0. \A y \in Sockets : sock[y].owner = sock'[z].owner => Fits(sock[y].state, conn[sock[y].owner], y)
  BY Hits DEF Fit
<1>f. FreeSocket.state = "closed" /\ \A x, y : Fits("closed", x, y)
  BY DEF FreeSocket, Fits
<1>s. sock[z].state \in {"connecting", "open", "erred", "ended", "closing", "closed"}
  BY DEF Inv, Owned, Socket
<1>o. sock[z].state # "closed" => sock[z].owner \in Connectors /\ sock[z].owner <= current
  BY OwnerMade
\* A new socket: the connector had none that still reports to it.
<1>1. ASSUME NEW c \in Connectors, NEW s \in Sockets,
             c = current + 1 \/ Reconnect(c),
             c = current + 1 \/ conn[c].state = "disconnected",
             sock[s] = FreeSocket, sock'[s] = [state |-> "connecting", owner |-> c],
             \A y \in Sockets : y # s => sock'[y] = sock[y],
             conn'[c].ws = s, conn'[c].state = "connecting", ~conn'[c].closed,
             \A d \in Connectors : d # c => conn'[d] = conn[d]
      PROVE  Fits(sock'[z].state, conn'[sock'[z].owner], z)
  <2>1. CASE z = s
    BY <1>1, <2>1 DEF Fits
  <2>2. CASE z # s /\ (sock[z].state = "closed" \/ sock[z].owner # c)
    BY <1>0, <1>1, <1>f, <1>o, <2>2
  <2>3. CASE z # s /\ sock[z].state # "closed" /\ sock[z].owner = c
    <3>1. c # current + 1
      BY <1>o, <2>3 DEF Inv, Made
    <3>2. conn[c].state = "disconnected" /\ ~conn[c].closed
      BY <1>1, <3>1 DEF Reconnect, Inv, Conns, Rests
    <3>3. sock[z].state = "erred"
      BY <1>0, <1>1, <1>s, <2>3, <3>2 DEF Fits
    <3>. QED
      BY <1>1, <2>3, <3>3 DEF Fits
  <2>. QED
    BY <2>1, <2>2, <2>3
\* A socket reports its end: it was the one the connector knew, or of no account.
<1>2. ASSUME NEW s \in Sockets, Close(s) \/ ConnectFails(s) \/ FrameError(s)
      PROVE  Fits(sock'[z].state, conn'[sock'[z].owner], z)
  <2>1. PICK c : c = sock[s].owner
    OBVIOUS
  <2>2. /\ c \in Connectors
        /\ conn'[c].state = "disconnected" /\ conn'[c].closed = conn[c].closed
        /\ \A d \in Connectors : d # c => conn'[d] = conn[d]
        /\ \A y \in Sockets : y # s => sock'[y] = sock[y]
        /\ \/ sock[s].state = "open" /\ sock'[s] = [state |-> "erred", owner |-> c]
           \/ sock[s].state \in {"connecting", "ended", "closing", "erred"} /\ sock'[s] = FreeSocket
    BY <1>2, <2>1, CloseEffect
  <2>3. CASE z = s
    BY <1>f, <2>2, <2>3 DEF Fits
  <2>4. CASE z # s /\ (sock[z].state = "closed" \/ sock[z].owner # c)
    BY <1>0, <1>f, <1>o, <2>2, <2>4
  <2>5. CASE z # s /\ sock[z].state # "closed" /\ sock[z].owner = c
    <3>1. sock'[z] = sock[z]
      BY <2>2, <2>5
    <3>2. Fits(sock[s].state, conn[c], s) /\ Fits(sock[z].state, conn[c], z)
      BY <1>0, <2>1, <2>5, <3>1
    <3>3. CASE sock[s].state # "erred"
      BY <1>s, <2>2, <2>5, <3>1, <3>2, <3>3 DEF Fits
    <3>4. CASE sock[s].state = "erred"
      <4>1. conn[c].ws = NoSocket
        BY <1>2, <2>1, <2>5, <3>1, <3>4, Hits DEF ConnectFails, FrameError
      <4>. QED
        BY <1>s, <2>2, <2>5, <3>1, <3>2, <3>4, <4>1, RelayAssumption DEF Fits
    <3>. QED
      BY <3>3, <3>4
  <2>. QED
    BY <2>3, <2>4, <2>5
<1>3. ASSUME UNCHANGED conn, sock'[z].owner = sock[z].owner,
             \/ sock'[z].state = sock[z].state
             \/ sock[z].state = "connecting" /\ sock'[z].state = "open"
             \/ sock[z].state = "open" /\ sock'[z].state = "ended"
      PROVE  Fits(sock'[z].state, conn'[sock'[z].owner], z)
  BY <1>0, <1>3 DEF Fits
<1>4. ASSUME UNCHANGED sock,
             \A d \in Connectors : /\ conn'[d].closed = conn[d].closed /\ conn'[d].ws = conn[d].ws
                                   /\ conn'[d].state = conn[d].state
      PROVE  Fits(sock'[z].state, conn'[sock'[z].owner], z)
  <2>1. CASE sock[z].state = "closed"
    BY <1>4, <1>f, <2>1
  <2>2. CASE sock[z].state # "closed"
    BY <1>0, <1>4, <1>o, <2>2 DEF Fits
  <2>. QED
    BY <2>1, <2>2
\* "registered": the one before goes, with its socket.
<1>5. ASSUME NEW s \in Sockets, Receive(s), Registered(sock[s].owner)
      PROVE  Fits(sock'[z].state, conn'[sock'[z].owner], z)
  <2>1. PICK c : c = sock[s].owner
    OBVIOUS
  <2>2. c \in Connectors /\ sock[s].state \in {"open", "ended", "closing"} /\ Registered(c)
    BY <1>5, <2>1, OwnerMade DEF Receive
  <2>3. c # c - 1 /\ c \in Nat
    BY <2>2, RelayAssumption DEF Connectors
  <2>4. /\ conn'[c].closed = conn[c].closed /\ conn'[c].ws = conn[c].ws
        /\ conn'[c].state = "registered"
        /\ \A d \in Connectors : d # c /\ d # c - 1 => conn'[d] = conn[d]
        /\ c - 1 \in Connectors => conn'[c - 1].closed
        /\ sock'[z].owner = sock[z].owner
        /\ sock'[z].state = IF /\ c # 1 /\ z = conn[c - 1].ws
                               /\ sock[z].state \in {"connecting", "open"}
                            THEN "closing" ELSE sock[z].state
    BY <2>2, RegisteredEffect
  <2>5. CASE sock[z].state = "closed"
    BY <1>f, <2>4, <2>5
  <2>6. CASE sock[z].state # "closed" /\ sock[z].owner = c
    <3>1. Fits(sock[s].state, conn[c], s) /\ Fits(sock[z].state, conn[c], z)
      BY <1>0, <2>1, <2>4, <2>6
    <3>2. z = conn[c - 1].ws /\ c # 1 => FALSE
      <4>1. c # 1 => c - 1 \in Connectors
        BY <2>2, RelayAssumption DEF Connectors
      <4>. QED
        BY <2>3, <2>6, <4>1 DEF Known
    <3>3. sock'[z].state = sock[z].state
      BY <2>4, <3>2
    <3>. QED
      BY <1>s, <2>2, <2>4, <2>6, <3>1, <3>3 DEF Fits
  <2>7. CASE sock[z].state # "closed" /\ sock[z].owner = c - 1
    <3>1. c - 1 \in Connectors /\ c # 1 /\ conn'[c - 1].closed
      BY <1>o, <2>2, <2>4, <2>7, RelayAssumption DEF Connectors
    <3>2. Fits(sock[z].state, conn[c - 1], z)
      BY <1>0, <2>4, <2>7
    <3>3. sock'[z].state \notin {"connecting", "open"}
      BY <2>4, <3>1, <3>2 DEF Fits
    <3>. QED
      BY <2>4, <2>7, <3>1, <3>3 DEF Fits
  <2>8. CASE sock[z].state # "closed" /\ sock[z].owner # c /\ sock[z].owner # c - 1
    <3>1. z = conn[c - 1].ws /\ c # 1 => FALSE
      <4>1. c # 1 => c - 1 \in Connectors
        BY <2>2, RelayAssumption DEF Connectors
      <4>. QED
        BY <2>3, <2>8, <4>1 DEF Known
    <3>2. sock'[z].state = sock[z].state
      BY <2>4, <3>1
    <3>. QED
      BY <1>0, <1>o, <2>4, <2>8, <3>2
  <2>. QED
    BY <2>5, <2>6, <2>7, <2>8
<1>. QED
  BY <1>1, <1>2, <1>3, <1>4, <1>5, Shapes, SocketEffect, RecordEffect

LEMMA KnownInit == Init => Known
BY RelayAssumption DEF Init, Known, Fresh

\* A connector never has two WebSockets that are connecting or open, and never forgets the
\* one it has, until it has made a new one before the close event of one that reported an
\* error has come (connector.ts:64-72, 265-279): no other event of a former socket, and no
\* refresh, reconnect or join, meets a newer socket.
THEOREM Single == Spec => []OneSocket
<1>1. Init => Inv /\ Known
  BY InvInit, KnownInit
<1>2. Init => Fit
  BY DEF Init, Fit, Fits, FreeSocket
<1>3. Inv /\ [Next]_vars => Inv'
  BY InvStep
<1>4. Inv /\ Known /\ [Next]_vars => Known'
  BY KnownStep
<1>5. Inv /\ Known /\ Fit /\ [Next]_vars => Fit'
  BY FitStep
<1>6. Fit => OneSocket
  BY DEF Fit, Fits, OneSocket
<1>. QED
  BY <1>1, <1>2, <1>3, <1>4, <1>5, <1>6, PTL DEF Spec

-----------------------------------------------------------------------------
(* Rooms, and the keys in them.                                            *)

LEMMA RoomsStep ==
  ASSUME Inv, RoomsDieWithSocket, [Next]_vars
  PROVE  RoomsDieWithSocket'
<1> DEFINE Live(s, d) == sock[s].owner = d /\ sock[s].state \in {"open", "ended", "closing"}
<1> SUFFICES ASSUME NEW d \in Connectors, conn'[d].rooms # {}
             PROVE  \E s \in Sockets : sock'[s].owner = d /\ sock'[s].state \in {"open", "ended", "closing"}
  BY DEF RoomsDieWithSocket
<1>0. conn[d].rooms # {} => \E s \in Sockets : Live(s, d)
  BY DEF RoomsDieWithSocket
<1>1. ASSUME NEW c \in Connectors, NEW s \in Sockets, sock[s] = FreeSocket,
             \A z \in Sockets : z # s => sock'[z] = sock[z],
             conn'[d].rooms = conn[d].rooms
      PROVE  \E z \in Sockets : Live(z, d)'
  <2>1. PICK z \in Sockets : Live(z, d)
    BY <1>0, <1>1
  <2>2. z # s
    BY <1>1, <2>1 DEF FreeSocket
  <2>. QED
    BY <1>1, <2>1, <2>2
<1>2. ASSUME NEW s \in Sockets, Close(s) \/ ConnectFails(s) \/ FrameError(s)
      PROVE  \E z \in Sockets : Live(z, d)'
  <2>1. d # sock[s].owner /\ conn'[d] = conn[d] /\ \A z \in Sockets : z # s => sock'[z] = sock[z]
    BY <1>2, CloseEffect
  <2>2. PICK z \in Sockets : Live(z, d)
    BY <1>0, <2>1
  <2>. QED
    BY <2>1, <2>2
<1>3. ASSUME conn[d].rooms # {} \/ \E s \in Sockets : Live(s, d),
             \A z \in Sockets : Live(z, d) => Live(z, d)'
      PROVE  \E z \in Sockets : Live(z, d)'
  BY <1>0, <1>3
<1>4. ASSUME NEW s \in Sockets, Receive(s), Registered(sock[s].owner)
      PROVE  \E z \in Sockets : Live(z, d)'
  <2>1. sock[s].owner \in Connectors
    BY <1>4, OwnerMade DEF Receive
  <2>2. conn[d].rooms # {}
    BY <1>4, <2>1, RegisteredEffect
  <2>3. \A z \in Sockets : Live(z, d) => Live(z, d)'
    BY <1>4, <2>1, RegisteredEffect
  <2>. QED
    BY <1>3, <2>2, <2>3
<1>. QED
  BY <1>1, <1>2, <1>3, <1>4, Shapes, SocketEffect, RecordEffect

\* No room, and so no session key, is kept longer than the socket it came over: each way
\* a socket ends clears the table of its connector, also when the event comes from one
\* that was replaced (connector.ts:64-72, 83, 265).
THEOREM RoomsEnd == Spec => []RoomsDieWithSocket
<1>1. Init => RoomsDieWithSocket
  BY DEF Init, Fresh, RoomsDieWithSocket
<1>2. Inv /\ [Next]_vars => Inv'
  BY InvStep
<1>3. Inv /\ RoomsDieWithSocket /\ [Next]_vars => RoomsDieWithSocket'
  BY RoomsStep
<1>. QED
  BY <1>1, <1>2, <1>3, InvInit, PTL DEF Spec

-----------------------------------------------------------------------------
(* Types.  The routes take a room of a connector by its id, so the table   *)
(* of each holds an id once.                                               *)

Whole(x) == x \in Connector /\ \A y, z \in x.rooms : y.id = z.id => y = z

LEMMA WholeClosed ==
  ASSUME NEW x, Whole(x)
  PROVE  Whole(OnClose(x)) /\ Whole(Disconnect(x)) /\ Whole([x EXCEPT !.timer = FALSE])
BY DEF Whole, Connector, OnClose, Disconnect, Cleanup

LEMMA WholeConnected ==
  ASSUME NEW x, Whole(x), NEW s \in Sockets
  PROVE  Whole([x EXCEPT !.closed = FALSE, !.state = "connecting", !.ws = s])
BY DEF Whole, Connector

LEMMA WholeTold ==
  ASSUME NEW x, Whole(x), NEW p \in Peers \cup {NoPeer}, NEW e \in BOOLEAN
  PROVE  /\ Whole([x EXCEPT !.state = "registered", !.target = p])
         /\ Whole([x EXCEPT !.target = p, !.expired = e])
         /\ Whole([x EXCEPT !.expired = e])
BY DEF Whole, Connector

\* A table that is written whole.
LEMMA WholeRooms ==
  ASSUME NEW x, Whole(x), NEW R, R \subseteq RoomEntry, \A y, z \in R : y.id = z.id => y = z
  PROVE  Whole([x EXCEPT !.rooms = R])
<1> DEFINE w == [x EXCEPT !.rooms = R]
<1>1. w \in Connector /\ w.rooms = R
  <2> HIDE DEF RoomEntry
  <2>. QED
    BY DEF Whole, Connector
<1>. QED
  BY <1>1 DEF Whole

\* handleMessage on the table, and disconnectRoom.
LEMMA RoomTables ==
  ASSUME NEW x, Whole(x), NEW r \in Rooms
  PROVE  /\ \A p \in Peers : Whole([x EXCEPT !.rooms = Incoming(x, r, p)])
         /\ Whole([x EXCEPT !.rooms = Joined(x, r)])
         /\ Whole([x EXCEPT !.rooms = KeyExchange(x, r)])
         /\ Whole([x EXCEPT !.rooms = PeerLeft(x, r)])
<1>0. /\ x.rooms \subseteq RoomEntry /\ x.target \in Peers \cup {NoPeer}
      /\ \A y, z \in x.rooms : y.id = z.id => y = z
  BY DEF Whole, Connector
<1>1. Whole([x EXCEPT !.rooms = PeerLeft(x, r)])
  <2>1. /\ PeerLeft(x, r) \subseteq RoomEntry
        /\ \A y, z \in PeerLeft(x, r) : y.id = z.id => y = z
    BY <1>0 DEF PeerLeft
  <2>. QED
    BY <2>1, WholeRooms
<1>2. ASSUME NEW v \in RoomEntry, v.id = r, NEW R \in SUBSET x.rooms, \A y \in R : y.id # r
      PROVE  R \cup {v} \subseteq RoomEntry /\ \A y, z \in R \cup {v} : y.id = z.id => y = z
  BY <1>0, <1>2
<1>3. ASSUME NEW p \in Peers PROVE Whole([x EXCEPT !.rooms = Incoming(x, r, p)])
  <2>1. PICK v : v = [id |-> r, peer |-> p, state |-> "pending", key |-> FALSE]
    OBVIOUS
  <2>2. v \in RoomEntry /\ v.id = r
    BY <2>1 DEF RoomEntry
  <2>3. Incoming(x, r, p) = {y \in x.rooms : y.id # r} \cup {v}
    BY <2>1 DEF Incoming
  <2>4. /\ Incoming(x, r, p) \subseteq RoomEntry
        /\ \A y, z \in Incoming(x, r, p) : y.id = z.id => y = z
    <3> DEFINE R == {y \in x.rooms : y.id # r}
    <3>1. R \in SUBSET x.rooms /\ \A y \in R : y.id # r
      OBVIOUS
    <3> HIDE DEF R
    <3>2. R \cup {v} \subseteq RoomEntry /\ \A y, z \in R \cup {v} : y.id = z.id => y = z
      BY <1>2, <2>2, <3>1
    <3>. QED
      BY <2>3, <3>2 DEF R
  <2>. QED
    BY <2>4, WholeRooms
<1>4. ASSUME NEW f, f \in [x.rooms -> RoomEntry], \A y \in x.rooms : f[y].id = y.id
      PROVE  Whole([x EXCEPT !.rooms = {f[y] : y \in x.rooms}])
  <2>1. {f[y] : y \in x.rooms} \subseteq RoomEntry
    BY <1>4
  <2>2. \A y, z \in {f[u] : u \in x.rooms} : y.id = z.id => y = z
    BY <1>0, <1>4
  <2>. QED
    BY <2>1, <2>2, WholeRooms
<1>5. \A y \in x.rooms :
        /\ [y EXCEPT !.key = TRUE] \in RoomEntry /\ [y EXCEPT !.key = TRUE].id = y.id
        /\ [y EXCEPT !.state = "active"] \in RoomEntry /\ [y EXCEPT !.state = "active"].id = y.id
  BY <1>0 DEF RoomEntry
<1>6. Whole([x EXCEPT !.rooms = KeyExchange(x, r)])
  <2> DEFINE f == [y \in x.rooms |-> IF y.id = r THEN [y EXCEPT !.key = TRUE] ELSE y]
  <2>1. f \in [x.rooms -> RoomEntry] /\ \A y \in x.rooms : f[y].id = y.id
    BY <1>0, <1>5
  <2>2. KeyExchange(x, r) = {f[y] : y \in x.rooms}
    BY DEF KeyExchange
  <2> HIDE DEF f
  <2>. QED
    BY <1>4, <2>1, <2>2
<1>7. Whole([x EXCEPT !.rooms = Joined(x, r)])
  <2>1. CASE \E y \in x.rooms : y.id = r
    <3> DEFINE f == [y \in x.rooms |-> IF y.id = r THEN [y EXCEPT !.state = "active"] ELSE y]
    <3>1. f \in [x.rooms -> RoomEntry] /\ \A y \in x.rooms : f[y].id = y.id
      BY <1>0, <1>5
    <3>2. Joined(x, r) = {f[y] : y \in x.rooms}
      BY <2>1 DEF Joined
    <3> HIDE DEF f
    <3>. QED
      BY <1>4, <3>1, <3>2
  <2>2. CASE ~\E y \in x.rooms : y.id = r
    <3>1. PICK v : v = [id |-> r, peer |-> x.target, state |-> "active", key |-> FALSE]
      OBVIOUS
    <3>2. v \in RoomEntry /\ v.id = r
      BY <1>0, <3>1 DEF RoomEntry
    <3>3. Joined(x, r) = x.rooms \cup {v}
      BY <2>2, <3>1 DEF Joined
    <3>4. /\ x.rooms \cup {v} \subseteq RoomEntry
          /\ \A y, z \in x.rooms \cup {v} : y.id = z.id => y = z
      BY <1>2, <2>2, <3>2
    <3>. QED
      BY <3>3, <3>4, WholeRooms
  <2>. QED
    BY <2>1, <2>2
<1>. QED
  BY <1>1, <1>3, <1>6, <1>7

-----------------------------------------------------------------------------
(* Messages on their way.                                                  *)

LEMMA Joins ==
  ASSUME NEW c \in Connectors, Whole(conn[c]), NEW p \in Peers
  PROVE  /\ Join(c, p) \in Request
         /\ \A e \in BOOLEAN : [Join(c, p) EXCEPT !.expired = e] \in Request
<1>1. conn[c].expired \in BOOLEAN
  BY DEF Whole, Connector
<1>2. \A e \in BOOLEAN : [type |-> "JOIN", peer |-> p, expired |-> e] \in Request
  BY DEF Request
<1>3. \A e \in BOOLEAN : [Join(c, p) EXCEPT !.expired = e] = [type |-> "JOIN", peer |-> p, expired |-> e]
  BY DEF Join
<1>. QED
  BY <1>1, <1>2, <1>3 DEF Join

\* The peers a refresh remembers, in some order.
LEMMA Remembered ==
  ASSUME NEW S \in SUBSET Peers
  PROVE  /\ Cardinality(S) \in Nat /\ SetToSeq(S) \in [1 .. Cardinality(S) -> S]
         /\ S # {} => Last(SetToSeq(S)) \in S
<1>1. IsFiniteSet(S)
  BY FS_Subset, RelayAssumption DEF RelayAssumption
<1> DEFINE n == Cardinality(S)
<1>2. n \in Nat /\ ExistsBijection(1 .. n, S)
  BY <1>1, FS_CardinalityType
<1>3. \E f \in [1 .. n -> S] : IsInjective(f)
  BY <1>2 DEF ExistsBijection, Bijection, Injection
<1>4. SetToSeq(S) \in [1 .. n -> S]
  BY <1>3 DEF SetToSeq
<1>5. S # {} => n # 0
  BY <1>1, FS_EmptySet
<1> HIDE DEF n
<1>6. SetToSeq(S) \in Seq(S) /\ Len(SetToSeq(S)) = n
  BY <1>2, <1>4
<1>7. S # {} => n \in 1 .. n
  BY <1>2, <1>5
<1>8. Last(SetToSeq(S)) = SetToSeq(S)[n]
  BY <1>6 DEF Last
<1>. QED
  BY <1>2, <1>4, <1>7, <1>8 DEF n

LEMMA Sendings ==
  ASSUME outq \in [Sockets -> Seq(Request)], NEW ws, NEW msgs \in Seq(Request), Send(ws, msgs)
  PROVE  outq' \in [Sockets -> Seq(Request)]
<1>1. \A s \in Sockets : outq[s] \o msgs \in Seq(Request)
  BY ConcatProperties
<1>. QED
  BY <1>1 DEF Send

-----------------------------------------------------------------------------
(* The steps keep the types.                                               *)

Records == \A c \in Connectors : Whole(conn[c])

HubRoom == [stage : {"none", "asked", "offered", "up"}, peer : Peers \cup {NoPeer},
            sock : Sockets \cup {NoSocket}]

Mail == /\ inq \in [Sockets -> Seq(Message)] /\ outq \in [Sockets -> Seq(Request)]
        /\ at \in Sockets \cup {NoSocket} /\ hub \in [Rooms -> HubRoom]

Asked == /\ previous \in [Connectors -> SUBSET Peers]
         /\ asks \in [Peers -> 0 .. MaxConnectors + 1]
         /\ faults \in 0 .. MaxFaults /\ hit \subseteq Connectors

\* One record is written.
LEMMA RecordsOne ==
  ASSUME Conns, Records, NEW c \in Connectors, NEW x, Whole(x), conn' = [conn EXCEPT ![c] = x]
  PROVE  Records'
<1>1. conn'[c] = x /\ \A d \in Connectors \ {c} : conn'[d] = conn[d]
  BY DEF Conns
<1>. QED
  BY <1>1 DEF Records

LEMMA RecordsConnect ==
  ASSUME Conns, Records, NEW c \in Connectors, NEW cn, NEW x, Whole(x), cn = [conn EXCEPT ![c] = x],
         NEW s \in Sockets, Connect(cn, c, s)
  PROVE  Records'
<1> DEFINE y == [x EXCEPT !.closed = FALSE, !.state = "connecting", !.ws = s]
<1>1. Whole(y)
  BY WholeConnected
<1>2. conn' = [conn EXCEPT ![c] = y]
  <2>1. conn' = [cn EXCEPT ![c] = [cn[c] EXCEPT !.closed = FALSE, !.state = "connecting", !.ws = s]]
    BY DEF Connect
  <2>2. c \in DOMAIN conn /\ cn[c] = x
    BY DEF Conns
  <2>3. conn' = [cn EXCEPT ![c] = y]
    BY <2>1, <2>2
  <2> HIDE DEF y
  <2>. QED
    BY <2>2, <2>3
<1> HIDE DEF y
<1>. QED
  BY <1>1, <1>2, RecordsOne

LEMMA MessageParts ==
  ASSUME NEW m \in Message
  PROVE  /\ m.type \in {"INCOMING", "JOINED", "KEY_EXCHANGE", "PEER_LEFT"} => m.room \in Rooms
         /\ m.type = "INCOMING" => m.peer \in Peers
BY DEF Message

LEMMA RecordsReceive ==
  ASSUME Inv, Records, Mail, Asked, NEW s \in Sockets, Receive(s)
  PROVE  Records' /\ Mail' /\ Asked'
<1>1. PICK c : c = sock[s].owner
  OBVIOUS
<1>2. c \in Connectors /\ Conns /\ Whole(conn[c])
  BY <1>1, OwnerMade DEF Receive, Inv, Records
<1>3. PICK m : m = Head(inq[s])
  OBVIOUS
<1>4. /\ inq[s] \in Seq(Message) /\ inq[s] # <<>> /\ inq' = [inq EXCEPT ![s] = Tail(@)]
      /\ UNCHANGED <<current, previous, asks, at, hub, faults, hit>>
  BY DEF Receive, Mail, relayVars
<1>5. m \in Message /\ Tail(inq[s]) \in Seq(Message)
  BY <1>3, <1>4, HeadTailProperties
<1>6. inq' \in [Sockets -> Seq(Message)]
  BY <1>4, <1>5 DEF Mail
<1>7. Asked'
  BY <1>4 DEF Asked
<1>8. ASSUME NEW R, conn' = [conn EXCEPT ![c].rooms = R], Whole([conn[c] EXCEPT !.rooms = R])
      PROVE  Records'
  BY <1>2, <1>8, RecordsOne
<1>9. CASE m.type = "INCOMING" /\ conn' = [conn EXCEPT ![c].rooms = Incoming(conn[c], m.room, m.peer)]
                              /\ Send(conn[c].ws, <<[type |-> "ACCEPT", room |-> m.room]>>)
  <2>1. m.room \in Rooms /\ m.peer \in Peers
    BY <1>5, <1>9, MessageParts
  <2>2. [type |-> "ACCEPT", room |-> m.room] \in Request
    BY <2>1 DEF Request
  <2>3. <<[type |-> "ACCEPT", room |-> m.room]>> \in Seq(Request)
    BY <2>2
  <2>4. outq' \in [Sockets -> Seq(Request)]
    BY <1>9, <2>3, Sendings DEF Mail
  <2>5. Records'
    BY <1>2, <1>8, <1>9, <2>1, RoomTables
  <2>. QED
    BY <1>4, <1>6, <1>7, <2>4, <2>5 DEF Mail
<1>10. CASE /\ m.type \in {"JOINED", "KEY_EXCHANGE", "PEER_LEFT"} /\ UNCHANGED outq
            /\ \/ conn' = [conn EXCEPT ![c].rooms = Joined(conn[c], m.room)]
               \/ conn' = [conn EXCEPT ![c].rooms = KeyExchange(conn[c], m.room)]
               \/ conn' = [conn EXCEPT ![c].rooms = PeerLeft(conn[c], m.room)]
  <2>1. m.room \in Rooms
    BY <1>5, <1>10, MessageParts
  <2>2. Records'
    <3>1. /\ Whole([conn[c] EXCEPT !.rooms = Joined(conn[c], m.room)])
          /\ Whole([conn[c] EXCEPT !.rooms = KeyExchange(conn[c], m.room)])
          /\ Whole([conn[c] EXCEPT !.rooms = PeerLeft(conn[c], m.room)])
      BY <1>2, <2>1, RoomTables
    <3>. QED
      BY <1>8, <1>10, <3>1
  <2>. QED
    BY <1>4, <1>6, <1>7, <1>10, <2>2 DEF Mail
<1>11. CASE Registered(c)
  <2> DEFINE old  == IF c = 1 THEN {} ELSE {c - 1}
             last == IF previous[c] = {} THEN conn[c].target ELSE Last(SetToSeq(previous[c]))
             msgs == [i \in 1 .. Cardinality(previous[c]) |-> Join(c, SetToSeq(previous[c])[i])]
  <2>1. previous[c] \in SUBSET Peers
    BY <1>2 DEF Asked
  <2>2. last \in Peers \cup {NoPeer}
    BY <1>2, <2>1, Remembered DEF Whole, Connector
  <2>3. msgs \in Seq(Request)
    <3>1. /\ Cardinality(previous[c]) \in Nat
          /\ \A i \in 1 .. Cardinality(previous[c]) : SetToSeq(previous[c])[i] \in Peers
      BY <2>1, Remembered
    <3>2. \A i \in 1 .. Cardinality(previous[c]) : Join(c, SetToSeq(previous[c])[i]) \in Request
      BY <1>2, <3>1, Joins
    <3>. QED
      BY <3>1, <3>2
  <2>4. /\ conn' = [d \in Connectors |->
               IF d = c THEN [conn[d] EXCEPT !.state = "registered", !.target = last]
               ELSE IF d \in old THEN Disconnect(conn[d]) ELSE conn[d]]
        /\ Send(conn[c].ws, msgs)
    BY <1>11 DEF Registered
  <2> HIDE DEF old, last, msgs
  <2>5. outq' \in [Sockets -> Seq(Request)]
    BY <2>3, <2>4, Sendings DEF Mail
  <2>6. Whole([conn[c] EXCEPT !.state = "registered", !.target = last])
    BY <1>2, <2>2, WholeTold
  <2>7. \A d \in Connectors : Whole(conn[d]) /\ Whole(Disconnect(conn[d]))
    BY WholeClosed DEF Records
  <2>8. Records'
    BY <2>4, <2>6, <2>7 DEF Records
  <2>. QED
    BY <1>4, <1>6, <1>7, <2>5, <2>8 DEF Mail
<1>. QED
  BY <1>1, <1>3, <1>9, <1>10, <1>11 DEF Receive

LEMMA RecordsOthers ==
  ASSUME Inv, Records, Asked, [Next]_vars, ~\E s \in Sockets : Receive(s)
  PROVE  Records'
<1>0. Conns /\ \A c \in Connectors : Whole(conn[c])
  BY DEF Inv, Records
<1>1. CASE NewConnector
  <2>1. current + 1 \in Connectors
    BY <1>1, RelayAssumption DEF NewConnector, Inv, Made, Connectors
  <2>2. PICK c : c = current + 1
    OBVIOUS
  <2>3. conn = [conn EXCEPT ![c] = conn[c]]
    BY <1>0 DEF Conns
  <2>4. PICK s \in Sockets : Connect(conn, c, s)
    BY <1>1, <2>2 DEF NewConnector
  <2>. QED
    BY <1>0, <2>1, <2>2, <2>3, <2>4, RecordsConnect
<1>2. ASSUME NEW c \in Connectors, Reconnect(c) PROVE Records'
  <2>1. PICK x : x = [conn[c] EXCEPT !.timer = FALSE]
    OBVIOUS
  <2>2. PICK cn : cn = [conn EXCEPT ![c] = x]
    OBVIOUS
  <2>3. Whole(x)
    BY <1>0, <2>1, WholeClosed
  <2>4. \/ \E s \in Sockets : Connect(cn, c, s)
        \/ conn' = cn
    BY <1>2, <2>1, <2>2 DEF Reconnect
  <2>. QED
    BY <1>0, <2>2, <2>3, <2>4, RecordsConnect, RecordsOne
<1>3. ASSUME NEW c \in Connectors, Expire(c) PROVE Records'
  <2>1. Whole([conn[c] EXCEPT !.expired = TRUE])
    BY <1>0, WholeTold
  <2>2. conn' = [conn EXCEPT ![c] = [conn[c] EXCEPT !.expired = TRUE]]
    BY <1>3 DEF Expire
  <2>. QED
    BY <1>0, <2>1, <2>2, RecordsOne
<1>4. ASSUME NEW c \in Connectors, NEW p \in Peers, JoinAsked(c, p) PROVE Records'
  <2>1. PICK e \in {FALSE, conn[c].expired} :
          conn' = [conn EXCEPT ![c] = [conn[c] EXCEPT !.target = p, !.expired = e]]
    BY <1>4 DEF JoinAsked
  <2>2. e \in BOOLEAN
    BY <1>0 DEF Whole, Connector
  <2>3. Whole([conn[c] EXCEPT !.target = p, !.expired = e])
    BY <1>0, <2>2, WholeTold
  <2>. QED
    BY <1>0, <2>1, <2>3, RecordsOne
<1>5. ASSUME NEW r \in Rooms, DisconnectRoom(r) PROVE Records'
  <2>1. PICK c : c = current
    OBVIOUS
  <2>2. c \in Connectors
    BY <1>5, <2>1, RelayAssumption DEF DisconnectRoom, Inv, Made, Connectors
  <2>3. conn' = [conn EXCEPT ![c] = [conn[c] EXCEPT !.rooms = PeerLeft(conn[c], r)]]
    BY <1>5, <2>1 DEF DisconnectRoom
  <2>. QED
    BY <1>0, <2>2, <2>3, RoomTables, RecordsOne
<1>6. ASSUME NEW s \in Sockets, Close(s) \/ ConnectFails(s) \/ FrameError(s) PROVE Records'
  <2>1. PICK c : c = sock[s].owner
    OBVIOUS
  <2>2. c \in Connectors
    BY <1>6, <2>1, OwnerMade DEF Close, ConnectFails, FrameError
  <2>3. conn' = [conn EXCEPT ![c] = OnClose(conn[c])]
    BY <1>6, <2>1 DEF Close, ConnectFails, FrameError
  <2>. QED
    BY <1>0, <2>2, <2>3, WholeClosed, RecordsOne
<1>7. CASE UNCHANGED conn
  BY <1>0, <1>7 DEF Records
<1>8. \/ \E s \in Sockets : Open(s) \/ RelayHandles(s) \/ Drop(s)
      \/ \E p \in Peers : AskJoin(p) \/ PeerJoins(p)
      \/ \E r \in Rooms : PeerAnswers(r) \/ PeerLeaves(r)
      \/ UNCHANGED vars
      => UNCHANGED conn
  BY DEF Open, RelayHandles, Drop, AskJoin, PeerJoins, PeerAnswers, PeerLeaves, vars
<1>. QED
  BY <1>1, <1>2, <1>3, <1>4, <1>5, <1>6, <1>7, <1>8 DEF Next

LEMMA AskedStep ==
  ASSUME Inv, Records, Asked, [Next]_vars
  PROVE  Asked'
<1>0. current \in 0 .. MaxConnectors /\ MaxConnectors \in Nat /\ MaxFaults \in Nat
  BY RelayAssumption DEF Inv, Made
<1>1. CASE NewConnector
  <2>1. ASSUME current # 0 PROVE {x.peer : x \in conn[current].rooms} \ {NoPeer} \subseteq Peers
    <3>1. current \in Connectors
      BY <1>0, <2>1 DEF Connectors
    <3>2. conn[current].rooms \subseteq RoomEntry
      BY <3>1 DEF Records, Whole, Connector
    <3>. QED
      BY <3>2 DEF RoomEntry
  <2>2. PICK P \in SUBSET Peers : previous' = [previous EXCEPT ![current + 1] = P]
    BY <1>1, <2>1 DEF NewConnector
  <2>. QED
    BY <1>1, <2>2 DEF NewConnector, Asked
<1>2. ASSUME NEW p \in Peers, AskJoin(p) PROVE Asked'
  BY <1>0, <1>2 DEF AskJoin, Asked
<1>3. ASSUME NEW c \in Connectors, NEW p \in Peers, JoinAsked(c, p) PROVE Asked'
  BY <1>0, <1>3 DEF JoinAsked, Asked, Done
<1>4. ASSUME NEW s \in Sockets, ConnectFails(s) \/ Drop(s) \/ FrameError(s) PROVE Asked'
  BY <1>0, <1>4 DEF ConnectFails, Drop, FrameError, Fault, Asked
<1>c. ASSUME NEW s \in Sockets, Close(s) PROVE Asked'
  BY <1>c, OwnerMade DEF Close, Asked
<1>5. CASE UNCHANGED <<previous, asks, faults, hit>>
  BY <1>5 DEF Asked
<1>6. \/ \E c \in Connectors : Reconnect(c) \/ Expire(c)
      \/ \E s \in Sockets : Open(s) \/ Receive(s) \/ RelayHandles(s)
      \/ \E p \in Peers : PeerJoins(p)
      \/ \E r \in Rooms : DisconnectRoom(r) \/ PeerAnswers(r) \/ PeerLeaves(r)
      \/ UNCHANGED vars
      => UNCHANGED <<previous, asks, faults, hit>>
  BY DEF Reconnect, Expire, Open, Receive, RelayHandles, PeerJoins, DisconnectRoom,
         PeerAnswers, PeerLeaves, vars
<1>. QED
  BY <1>1, <1>2, <1>3, <1>4, <1>c, <1>5, <1>6 DEF Next

LEMMA Telling ==
  ASSUME Mail, NEW s
  PROVE  /\ \A m \in Message : Tell(s, m) => inq' \in [Sockets -> Seq(Message)]
         /\ \A r \in Rooms : TellJoined(s, r) => inq' \in [Sockets -> Seq(Message)]
<1>1. ASSUME NEW ms \in Seq(Message), inq' = [inq EXCEPT ![s] = @ \o ms]
      PROVE  inq' \in [Sockets -> Seq(Message)]
  <2>1. s \in Sockets => inq[s] \o ms \in Seq(Message)
    BY ConcatProperties DEF Mail
  <2>. QED
    BY <1>1, <2>1 DEF Mail
<1>2. ASSUME NEW m \in Message, Tell(s, m) PROVE inq' \in [Sockets -> Seq(Message)]
  <2>1. s \in Sockets => Append(inq[s], m) \in Seq(Message)
    BY AppendProperties DEF Mail
  <2>. QED
    BY <1>2, <2>1 DEF Mail, Tell
<1>3. ASSUME NEW r \in Rooms, TellJoined(s, r) PROVE inq' \in [Sockets -> Seq(Message)]
  <2>1. [type |-> "JOINED", room |-> r] \in Message /\ [type |-> "KEY_EXCHANGE", room |-> r] \in Message
    BY DEF Message
  <2>2. <<[type |-> "JOINED", room |-> r], [type |-> "KEY_EXCHANGE", room |-> r]>> \in Seq(Message)
    BY <2>1
  <2>. QED
    BY <1>1, <1>3, <2>2 DEF TellJoined
<1>. QED
  BY <1>2, <1>3

\* A room at the relay.
LEMMA HubRooms ==
  ASSUME Mail
  PROVE  /\ NewRoom \in HubRoom
         /\ \A s : Without(s) \in [Rooms -> HubRoom]
         /\ \A p \in Peers, s \in Sockets, g \in {"asked", "offered"} :
              [stage |-> g, peer |-> p, sock |-> s] \in HubRoom
         /\ \A r \in Rooms : [hub[r] EXCEPT !.stage = "up"] \in HubRoom
<1>1. NewRoom \in HubRoom
  BY DEF NewRoom, HubRoom
<1>2. \A r \in Rooms : [hub[r] EXCEPT !.stage = "up"] \in HubRoom
  BY DEF Mail, HubRoom
<1>3. \A s : Without(s) \in [Rooms -> HubRoom]
  BY <1>1 DEF Mail, Without
<1>. QED
  BY <1>1, <1>2, <1>3 DEF HubRoom

LEMMA MailRelay ==
  ASSUME Mail, NEW s \in Sockets, RelayHandles(s)
  PROVE  Mail'
<1>1. PICK m : m = Head(outq[s])
  OBVIOUS
<1>2. outq[s] \in Seq(Request) /\ outq[s] # <<>> /\ outq' = [outq EXCEPT ![s] = Tail(@)]
  BY DEF Mail, RelayHandles
<1>3. m \in Request /\ Tail(outq[s]) \in Seq(Request)
  BY <1>1, <1>2, HeadTailProperties
<1>4. outq' \in [Sockets -> Seq(Request)]
  BY <1>2, <1>3 DEF Mail
<1>5. (m.type = "JOIN" => m.peer \in Peers) /\ (m.type = "ACCEPT" => m.room \in Rooms)
  BY <1>3 DEF Request
<1>6. CASE at' = s /\ Tell(s, [type |-> "REGISTERED"]) /\ hub' = IF at = s THEN hub ELSE Without(at)
  <2>1. [type |-> "REGISTERED"] \in Message
    BY DEF Message
  <2>2. inq' \in [Sockets -> Seq(Message)]
    BY <1>6, <2>1, Telling
  <2>. QED
    BY <1>4, <1>6, <2>2, HubRooms DEF Mail
<1>7. CASE /\ m.type = "JOIN" /\ UNCHANGED <<at, inq>>
           /\ \E r \in Rooms : hub' = [hub EXCEPT ![r] = [stage |-> "asked", peer |-> m.peer, sock |-> s]]
  <2>1. [stage |-> "asked", peer |-> m.peer, sock |-> s] \in HubRoom
    BY <1>5, <1>7, HubRooms
  <2>2. PICK x : x = [stage |-> "asked", peer |-> m.peer, sock |-> s]
    OBVIOUS
  <2>. QED
    BY <1>4, <1>7, <2>1, <2>2 DEF Mail
<1>8. CASE /\ m.type = "ACCEPT" /\ UNCHANGED at /\ TellJoined(s, m.room)
           /\ hub' = [hub EXCEPT ![m.room].stage = "up"]
  <2>1. m.room \in Rooms
    BY <1>5, <1>8
  <2>2. inq' \in [Sockets -> Seq(Message)]
    BY <1>8, <2>1, Telling
  <2>3. hub' \in [Rooms -> HubRoom]
    BY <1>8, <2>1, HubRooms DEF Mail
  <2>. QED
    BY <1>4, <1>8, <2>2, <2>3 DEF Mail
<1>9. CASE UNCHANGED <<at, hub, inq>>
  BY <1>4, <1>9 DEF Mail
<1>. QED
  BY <1>1, <1>6, <1>7, <1>8, <1>9 DEF RelayHandles

LEMMA MailStep ==
  ASSUME Inv, Records, Asked, Mail, [Next]_vars, ~\E s \in Sockets : Receive(s)
  PROVE  Mail'
<1>1. ASSUME NEW s \in Sockets, Open(s) PROVE Mail'
  <2>1. PICK c : c = sock[s].owner
    OBVIOUS
  <2>2. c \in Connectors
    BY <1>1, <2>1, OwnerMade DEF Open
  <2>3. PICK m : m = [type |-> "REGISTER", expired |-> conn[c].expired]
    OBVIOUS
  <2>4. m \in Request
    BY <2>2, <2>3 DEF Records, Whole, Connector, Request
  <2>5. \A z \in Sockets : Append(outq[z], m) \in Seq(Request) /\ outq[z] \in Seq(Request)
    BY <2>4, AppendProperties DEF Mail
  <2>6. outq' = [z \in Sockets |-> IF z = conn[c].ws /\ sock'[z].state = "open"
                                   THEN Append(outq[z], m) ELSE outq[z]]
    BY <1>1, <2>1, <2>3 DEF Open
  <2>7. outq' \in [Sockets -> Seq(Request)]
    BY <2>5, <2>6
  <2>. QED
    BY <1>1, <2>7 DEF Open, relayVars, Mail
<1>2. ASSUME NEW s \in Sockets, Close(s) \/ ConnectFails(s) PROVE Mail'
  <2>1. Over(s)
    BY <1>2 DEF Close, ConnectFails
  <2>2. hub' \in [Rooms -> HubRoom]
    BY <2>1, HubRooms DEF Over
  <2>3. inq' \in [Sockets -> Seq(Message)] /\ outq' \in [Sockets -> Seq(Request)]
    BY <2>1, EmptySeq DEF Over, Mail
  <2>4. at' \in Sockets \cup {NoSocket}
    BY <2>1 DEF Over, Mail
  <2>. QED
    BY <2>2, <2>3, <2>4 DEF Mail
<1>3. ASSUME NEW s \in Sockets, Drop(s) PROVE Mail'
  <2>1. inq' \in [Sockets -> Seq(Message)]
    BY <1>3, EmptySeq DEF Drop, Mail
  <2>. QED
    BY <1>3, <2>1 DEF Drop, relayVars, Mail
<1>4. ASSUME NEW c \in Connectors, NEW p \in Peers, JoinAsked(c, p) PROVE Mail'
  <2>1. PICK e \in {FALSE, conn[c].expired} :
          Send(conn[c].ws, <<[Join(c, p) EXCEPT !.expired = e]>>)
    BY <1>4 DEF JoinAsked
  <2>2. e \in BOOLEAN
    BY DEF Records, Whole, Connector
  <2>3. [Join(c, p) EXCEPT !.expired = e] \in Request
    BY <2>2, Joins DEF Records
  <2>4. <<[Join(c, p) EXCEPT !.expired = e]>> \in Seq(Request)
    BY <2>3
  <2>5. outq' \in [Sockets -> Seq(Request)]
    BY <2>1, <2>4, Sendings DEF Mail
  <2>. QED
    BY <1>4, <2>5 DEF JoinAsked, relayVars, Mail
<1>5. ASSUME NEW p \in Peers, PeerJoins(p) PROVE Mail'
  <2>1. PICK r \in Rooms :
          /\ hub' = [hub EXCEPT ![r] = [stage |-> "offered", peer |-> p, sock |-> at]]
          /\ Tell(at, [type |-> "INCOMING", room |-> r, peer |-> p])
    BY <1>5 DEF PeerJoins
  <2>2. at \in Sockets
    BY <1>5 DEF PeerJoins, Mail
  <2>3. [stage |-> "offered", peer |-> p, sock |-> at] \in HubRoom
    BY <2>2, HubRooms
  <2>4. [type |-> "INCOMING", room |-> r, peer |-> p] \in Message
    BY DEF Message
  <2>5. inq' \in [Sockets -> Seq(Message)]
    BY <2>1, <2>4, Telling
  <2>6. PICK x : x = [stage |-> "offered", peer |-> p, sock |-> at]
    OBVIOUS
  <2>7. hub' \in [Rooms -> HubRoom]
    BY <2>1, <2>3, <2>6 DEF Mail
  <2>. QED
    BY <1>5, <2>5, <2>7 DEF PeerJoins, Mail
<1>6. ASSUME NEW r \in Rooms, PeerAnswers(r) PROVE Mail'
  <2>1. hub' \in [Rooms -> HubRoom]
    BY <1>6, HubRooms DEF PeerAnswers, Mail
  <2>2. inq' \in [Sockets -> Seq(Message)]
    BY <1>6, Telling DEF PeerAnswers, Mail
  <2>. QED
    BY <1>6, <2>1, <2>2 DEF PeerAnswers, Mail
<1>7. ASSUME NEW r \in Rooms, PeerLeaves(r) PROVE Mail'
  <2>1. hub' \in [Rooms -> HubRoom]
    BY <1>7, HubRooms DEF PeerLeaves, Mail
  <2>2. [type |-> "PEER_LEFT", room |-> r] \in Message
    BY DEF Message
  <2>3. inq' \in [Sockets -> Seq(Message)]
    BY <1>7, <2>2, Telling DEF PeerLeaves
  <2>. QED
    BY <1>7, <2>1, <2>3 DEF PeerLeaves, Mail
<1>8. CASE UNCHANGED <<inq, outq, relayVars>>
  BY <1>8 DEF Mail, relayVars
<1>9. \/ NewConnector
      \/ \E c \in Connectors : Reconnect(c) \/ Expire(c)
      \/ \E s \in Sockets : FrameError(s)
      \/ \E p \in Peers : AskJoin(p)
      \/ \E r \in Rooms : DisconnectRoom(r)
      \/ UNCHANGED vars
      => UNCHANGED <<inq, outq, relayVars>>
  BY DEF NewConnector, Reconnect, Expire, FrameError, AskJoin, DisconnectRoom, vars
<1>. QED
  BY <1>1, <1>2, <1>3, <1>4, <1>5, <1>6, <1>7, <1>8, <1>9, MailRelay DEF Next

LEMMA TypesInit == Init => Records /\ Mail /\ Asked
<1>. SUFFICES ASSUME Init PROVE Records /\ Mail /\ Asked
  OBVIOUS
<1>1. Records
  BY RelayAssumption DEF Init, Records, Whole, Connector, Fresh
<1>2. Mail
  BY EmptySeq DEF Init, Mail, NewRoom, HubRoom
<1>3. Asked
  BY RelayAssumption DEF Init, Asked
<1>. QED
  BY <1>1, <1>2, <1>3

\* The connectors, the messages both ways and the rooms of the relay stay well typed, and a
\* connector's table holds a room once, which the routes that take one by its id rely on
\* (relay/connector.ts handleMessage, api/server.ts /relay).
THEOREM TypeCorrect == Spec => []TypeOK
<1>1. Init => Inv /\ Records /\ Mail /\ Asked
  BY InvInit, TypesInit
<1>2. Inv /\ Records /\ Mail /\ Asked /\ [Next]_vars => Inv' /\ Records' /\ Mail' /\ Asked'
  BY InvStep, RecordsReceive, RecordsOthers, MailStep, AskedStep
<1>3. Inv /\ Records /\ Mail /\ Asked => TypeOK
  BY DEF Inv, Conns, Made, Owned, Socket, Records, Whole, Mail, HubRoom, Asked, TypeOK
<1>. QED
  BY <1>1, <1>2, <1>3, PTL DEF Spec
=============================================================================
