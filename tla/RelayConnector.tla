--------------------------- MODULE RelayConnector ---------------------------
(***************************************************************************)
(* One daemon at the relay: its RelayConnector objects (relay/connector.ts *)
(* with the key derivation of relay/crypto.ts), the token refresh that     *)
(* replaces one by the next, and the /relay routes (api/server.ts).        *)
(*                                                                         *)
(* The relay and the peers are outside src/: a relay keeps one socket per  *)
(* claw_id, ends the socket a REGISTER replaces, drops the rooms of a      *)
(* socket that ends, refuses expired tokens, and delivers in order.        *)
(***************************************************************************)
EXTENDS Integers, Sequences, FiniteSets, SequencesExt

CONSTANTS Peers, NoPeer,
          Rooms, Sockets,   \* slots, used again once nobody names them
          NoSocket,
          MaxConnectors,    \* bound on token refreshes
          MaxFaults,        \* bound on sockets that fail
          PeersAfterHit     \* bound: whether peers still join once a late close event has
                            \* met a newer socket (see hit)

ASSUME RelayAssumption ==
  /\ IsFiniteSet(Peers) /\ NoPeer \notin Peers /\ NoSocket \notin Sockets
  /\ MaxConnectors \in Nat \ {0} /\ MaxFaults \in Nat /\ PeersAfterHit \in BOOLEAN

Connectors == 1 .. MaxConnectors
Done       == MaxConnectors + 1

VARIABLES
  conn,      \* the connectors ever made, conn[c] below
  current,   \* the one the routes and the router use, 0 before the first
  previous,  \* previousPeers of the refresh that made c
  asks,      \* asks[p]: the connector a POST /relay/connect for p took before it
             \* awaited a token, 0 before the request and Done after it
  sock,      \* [state, owner] of each WebSocket
  inq,       \* inq[s]: messages on their way from the relay on s
  outq,      \* outq[s]: messages on their way to the relay
  at,        \* relay: the socket registered under our claw_id
  hub,       \* relay: its rooms
  faults,
  hit        \* the connectors that had made a new socket when the close event of a former
             \* one came late, more than RECONNECT_DELAY after the error event of that one

relayVars == <<at, hub>>
vars == <<conn, current, previous, asks, sock, inq, outq, relayVars, faults, hit>>

Fresh == [state |-> "disconnected", closed |-> FALSE, ws |-> NoSocket, rooms |-> {},
          target |-> NoPeer, timer |-> FALSE, expired |-> FALSE]
FreeSocket == [state |-> "closed", owner |-> 0]
NewRoom    == [stage |-> "none", peer |-> NoPeer, sock |-> NoSocket]

RoomEntry == [id : Rooms, peer : Peers \cup {NoPeer}, state : {"pending", "active"},
              key : BOOLEAN]
Connector == [state : {"disconnected", "connecting", "registered"}, closed : BOOLEAN,
              ws : Sockets \cup {NoSocket}, rooms : SUBSET RoomEntry,
              target : Peers \cup {NoPeer}, timer : BOOLEAN, expired : BOOLEAN]
Message == [type : {"REGISTERED"}]
           \cup [type : {"INCOMING"}, room : Rooms, peer : Peers]
           \cup [type : {"JOINED", "KEY_EXCHANGE", "PEER_LEFT"}, room : Rooms]
Request == [type : {"REGISTER"}, expired : BOOLEAN]
           \cup [type : {"JOIN"}, peer : Peers, expired : BOOLEAN]
           \cup [type : {"ACCEPT"}, room : Rooms]

TypeOK ==
  /\ conn \in [Connectors -> Connector]
  /\ \A c \in Connectors : \A x, y \in conn[c].rooms : x.id = y.id => x = y
  /\ current \in 0 .. MaxConnectors
  /\ previous \in [Connectors -> SUBSET Peers]
  /\ asks \in [Peers -> 0 .. MaxConnectors + 1]
  /\ sock \in [Sockets -> [state : {"connecting", "open", "erred", "ended", "closing", "closed"},
                           owner : 0 .. MaxConnectors]]
  /\ inq \in [Sockets -> Seq(Message)] /\ outq \in [Sockets -> Seq(Request)]
  /\ at \in Sockets \cup {NoSocket}
  /\ hub \in [Rooms -> [stage : {"none", "asked", "offered", "up"},
                        peer : Peers \cup {NoPeer}, sock : Sockets \cup {NoSocket}]]
  /\ faults \in 0 .. MaxFaults /\ hit \subseteq Connectors

Init ==
  /\ conn = [c \in Connectors |-> Fresh] /\ current = 0
  /\ previous = [c \in Connectors |-> {}]
  /\ asks = [p \in Peers |-> 0]
  /\ sock = [s \in Sockets |-> FreeSocket] /\ inq = [s \in Sockets |-> <<>>]
  /\ outq = [s \in Sockets |-> <<>>]
  /\ at = NoSocket /\ hub = [r \in Rooms |-> NewRoom]
  /\ faults = 0 /\ hit = {}

-----------------------------------------------------------------------------
\* What the connector object does, on its own record x.

\* Mutant of Cleanup: the rooms stay.
CleanupSocket(x) == [x EXCEPT !.state = "disconnected", !.ws = NoSocket]

Cleanup(x) == [x EXCEPT !.state = "disconnected", !.rooms = {}, !.ws = NoSocket]

\* The close or the error event of any socket of it, past or present.
OnClose(x) == [Cleanup(x) EXCEPT !.timer = @ \/ ~x.closed]

\* Mutant of Disconnect: the timer goes on.
DisconnectNow(x) == [Cleanup(x) EXCEPT !.closed = TRUE]

Disconnect(x) == [Cleanup(x) EXCEPT !.closed = TRUE, !.timer = FALSE]

\* A slot for a new WebSocket, one being as good as another.
Slot(s) == sock[s] = FreeSocket /\ s = CHOOSE z \in Sockets : sock[z] = FreeSocket

\* connect(), whose new WebSocket is s.
Connect(cn, c, s) ==
  /\ Slot(s)
  /\ conn' = [cn EXCEPT ![c] = [@ EXCEPT !.closed = FALSE, !.state = "connecting", !.ws = s]]
  /\ sock' = [sock EXCEPT ![s] = [state |-> "connecting", owner |-> c]]

\* send(): nothing happens unless this.ws is open.
Send(ws, msgs) ==
  outq' = [s \in Sockets |-> IF s = ws /\ sock[s].state = "open" THEN outq[s] \o msgs ELSE outq[s]]

Join(c, p) == [type |-> "JOIN", peer |-> p, expired |-> conn[c].expired]

\* handleMessage on the room table.
Incoming(x, r, p) ==
  {y \in x.rooms : y.id # r} \cup {[id |-> r, peer |-> p, state |-> "pending", key |-> FALSE]}

Joined(x, r) ==
  IF \E y \in x.rooms : y.id = r
  THEN {IF y.id = r THEN [y EXCEPT !.state = "active"] ELSE y : y \in x.rooms}
  ELSE x.rooms \cup {[id |-> r, peer |-> x.target, state |-> "active", key |-> FALSE]}

KeyExchange(x, r) == {IF y.id = r THEN [y EXCEPT !.key = TRUE] ELSE y : y \in x.rooms}

PeerLeft(x, r) == {y \in x.rooms : y.id # r}

-----------------------------------------------------------------------------
\* Socket events.

Open(s) ==
  LET c == sock[s].owner IN
  /\ sock[s].state = "connecting"
  /\ sock' = [sock EXCEPT ![s].state = "open"]
  /\ outq' = [z \in Sockets |->
               IF z = conn[c].ws /\ sock'[z].state = "open"
               THEN Append(outq[z], [type |-> "REGISTER", expired |-> conn[c].expired])
               ELSE outq[z]]
  /\ UNCHANGED <<conn, current, previous, asks, inq, relayVars, faults, hit>>

Without(s) == [r \in Rooms |-> IF hub[r].sock = s /\ s # NoSocket THEN NewRoom ELSE hub[r]]

\* The socket s is over, for both ends.
Over(s) ==
  /\ sock' = [sock EXCEPT ![s] = FreeSocket]
  /\ inq' = [inq EXCEPT ![s] = <<>>] /\ outq' = [outq EXCEPT ![s] = <<>>]
  /\ at' = IF at = s THEN NoSocket ELSE at
  /\ hub' = Without(s)

\* What came before the end of the stream is delivered before its close event.
Close(s) ==
  LET c == sock[s].owner IN
  /\ sock[s].state \in {"ended", "closing", "erred"}
  /\ sock[s].state = "ended" => inq[s] = <<>>
  /\ conn' = [conn EXCEPT ![c] = OnClose(@)]
  /\ hit' = IF sock[s].state = "erred" /\ conn[c].ws # NoSocket THEN hit \cup {c} ELSE hit
  /\ Over(s)
  /\ UNCHANGED <<current, previous, asks, faults>>

Fault == faults < MaxFaults /\ faults' = faults + 1 /\ UNCHANGED hit

\* A connection is refused: error and close, one after the other.
ConnectFails(s) ==
  /\ Fault /\ sock[s].state = "connecting"
  /\ conn' = [conn EXCEPT ![sock[s].owner] = OnClose(@)]
  /\ Over(s)
  /\ UNCHANGED <<current, previous, asks>>

\* The network or the relay ends an open socket; its close event comes later.
Drop(s) ==
  /\ Fault /\ sock[s].state = "open"
  /\ sock' = [sock EXCEPT ![s].state = "ended"]
  /\ \E lost \in BOOLEAN : inq' = IF lost THEN [inq EXCEPT ![s] = <<>>] ELSE inq
  /\ UNCHANGED <<conn, current, previous, asks, outq, relayVars>>

\* An invalid frame: the error event, and ws waits up to 30 s for the other end before
\* the close event, ten times the RECONNECT_DELAY.
FrameError(s) ==
  /\ Fault /\ sock[s].state = "open"
  /\ sock' = [sock EXCEPT ![s].state = "erred"]
  /\ conn' = [conn EXCEPT ![sock[s].owner] = OnClose(@)]
  /\ UNCHANGED <<current, previous, asks, inq, outq, relayVars>>

\* The reconnect timer: connect() does nothing unless disconnected.
Reconnect(c) ==
  LET cn == [conn EXCEPT ![c].timer = FALSE] IN
  /\ conn[c].timer
  /\ IF conn[c].state = "disconnected" THEN \E s \in Sockets : Connect(cn, c, s)
                                       ELSE conn' = cn /\ UNCHANGED sock
  /\ UNCHANGED <<current, previous, asks, inq, outq, relayVars, faults, hit>>

\* Mutant of Registered: disconnect() forgets its socket before it closes it.
RegisteredForgets(c) ==
  LET last == IF previous[c] = {} THEN conn[c].target ELSE Last(SetToSeq(previous[c])) IN
  /\ conn' = [d \in Connectors |->
               IF d = c THEN [conn[d] EXCEPT !.state = "registered", !.target = last]
               ELSE IF d = c - 1 THEN Disconnect(conn[d]) ELSE conn[d]]
  /\ UNCHANGED sock
  /\ Send(conn[c].ws, [i \in 1 .. Cardinality(previous[c]) |-> Join(c, SetToSeq(previous[c])[i])])

\* Mutant of Registered: the connector before it is left to itself.
RegisteredAlone(c) ==
  conn' = [conn EXCEPT ![c].state = "registered"] /\ UNCHANGED <<sock, outq>>

\* "registered": a refreshed connector disconnects the one before it and joins that
\* one's peers again.
Registered(c) ==
  LET old  == IF c = 1 THEN {} ELSE {c - 1}
      ws   == {conn[d].ws : d \in old}
      last == IF previous[c] = {} THEN conn[c].target ELSE Last(SetToSeq(previous[c])) IN
  /\ conn' = [d \in Connectors |->
               IF d = c THEN [conn[d] EXCEPT !.state = "registered", !.target = last]
               ELSE IF d \in old THEN Disconnect(conn[d]) ELSE conn[d]]
  /\ sock' = [s \in Sockets |-> IF s \in ws /\ sock[s].state \in {"connecting", "open"}
                                THEN [sock[s] EXCEPT !.state = "closing"] ELSE sock[s]]
  /\ Send(conn[c].ws, [i \in 1 .. Cardinality(previous[c]) |-> Join(c, SetToSeq(previous[c])[i])])

\* handleMessage.
Receive(s) ==
  LET c == sock[s].owner
      m == Head(inq[s])
      WithRooms(R) == conn' = [conn EXCEPT ![c].rooms = R] IN
  /\ sock[s].state \in {"open", "ended", "closing"} /\ inq[s] # <<>>
  /\ inq' = [inq EXCEPT ![s] = Tail(@)]
  /\ \/ m.type = "REGISTERED" /\ Registered(c)
     \/ /\ m.type = "INCOMING"
        /\ WithRooms(Incoming(conn[c], m.room, m.peer))
        /\ Send(conn[c].ws, <<[type |-> "ACCEPT", room |-> m.room]>>)
        /\ UNCHANGED sock
     \/ /\ \/ m.type = "JOINED"       /\ WithRooms(Joined(conn[c], m.room))
           \/ m.type = "KEY_EXCHANGE" /\ WithRooms(KeyExchange(conn[c], m.room))
           \/ m.type = "PEER_LEFT"    /\ WithRooms(PeerLeft(conn[c], m.room))
        /\ UNCHANGED <<sock, outq>>
  /\ UNCHANGED <<current, previous, asks, relayVars, faults, hit>>

-----------------------------------------------------------------------------
\* The daemon: start, token refresh, routes.

\* The first connector, and each refresh: the new one connects and takes the place of
\* the current one, which is left to the new one's "registered".
NewConnector ==
  /\ current < MaxConnectors
  /\ \E s \in Sockets : Connect(conn, current + 1, s)
  /\ previous' = [previous EXCEPT ![current + 1] =
       IF current = 0 THEN {} ELSE {x.peer : x \in conn[current].rooms} \ {NoPeer}]
  /\ current' = current + 1
  /\ UNCHANGED <<asks, inq, outq, relayVars, faults, hit>>

\* Five minutes pass.  (The last refresh that is modelled stands for the next one.)
Expire(c) ==
  /\ c <= current /\ c < MaxConnectors /\ ~conn[c].expired
  /\ conn' = [conn EXCEPT ![c].expired = TRUE]
  /\ UNCHANGED <<current, previous, asks, sock, inq, outq, relayVars, faults, hit>>

\* POST /relay/connect takes the connector, awaits a token and joins.
AskJoin(p) ==
  /\ current # 0
  /\ asks[p] = 0                 \* bound: one request for each peer
  /\ asks' = [asks EXCEPT ![p] = current]
  /\ UNCHANGED <<conn, current, previous, sock, inq, outq, relayVars, faults, hit>>

JoinAsked(c, p) ==
  /\ asks[p] = c
  /\ asks' = [asks EXCEPT ![p] = Done]
  /\ \E e \in {FALSE, conn[c].expired} :
       /\ conn' = [conn EXCEPT ![c] = [@ EXCEPT !.target = p, !.expired = e]]
       /\ Send(conn[c].ws, <<[Join(c, p) EXCEPT !.expired = e]>>)
  /\ UNCHANGED <<current, previous, sock, inq, relayVars, faults, hit>>

\* DELETE /relay/disconnect/:room_id; the relay and the peer are not told.
DisconnectRoom(r) ==
  /\ current # 0 /\ \E x \in conn[current].rooms : x.id = r
  /\ conn' = [conn EXCEPT ![current].rooms = PeerLeft(conn[current], r)]
  /\ UNCHANGED <<current, previous, asks, sock, inq, outq, relayVars, faults, hit>>

-----------------------------------------------------------------------------
\* The relay and the peers.

Names(q, r) == \E i \in DOMAIN q : "room" \in DOMAIN q[i] /\ q[i].room = r

Unused(r) ==
  /\ hub[r].stage = "none"
  /\ \A c \in Connectors : \A x \in conn[c].rooms : x.id # r
  /\ \A s \in Sockets : ~Names(inq[s], r) /\ ~Names(outq[s], r)

Tell(s, m) == inq' = [inq EXCEPT ![s] = Append(@, m)]

\* Both ends are told, and each answers with its key.
TellJoined(s, r) ==
  inq' = [inq EXCEPT ![s] = @ \o <<[type |-> "JOINED", room |-> r],
                                    [type |-> "KEY_EXCHANGE", room |-> r]>>]

RelayHandles(s) ==
  LET m == Head(outq[s]) IN
  /\ sock[s].state = "open" /\ outq[s] # <<>>
  /\ outq' = [outq EXCEPT ![s] = Tail(@)]
  /\ \/ /\ m.type = "REGISTER" /\ ~m.expired
        /\ at' = s /\ Tell(s, [type |-> "REGISTERED"])
        /\ hub' = IF at = s THEN hub ELSE Without(at)
        /\ sock' = [z \in Sockets |-> IF z = at /\ z # s /\ sock[z].state = "open"
                                      THEN [sock[z] EXCEPT !.state = "ended"] ELSE sock[z]]
     \/ /\ m.type = "JOIN" /\ ~m.expired /\ at = s
        /\ \E r \in Rooms : Unused(r) /\ hub' = [hub EXCEPT ![r] =
             [stage |-> "asked", peer |-> m.peer, sock |-> s]]
        /\ UNCHANGED <<at, inq, sock>>
     \/ /\ m.type = "ACCEPT" /\ hub[m.room].stage = "offered" /\ hub[m.room].sock = s
        /\ hub' = [hub EXCEPT ![m.room].stage = "up"]
        /\ TellJoined(s, m.room)
        /\ UNCHANGED <<at, sock>>
     \/ /\ \/ m.type = "ACCEPT" /\ ~(hub[m.room].stage = "offered" /\ hub[m.room].sock = s)
           \/ m.type = "JOIN"                               \* ERROR
           \/ m.type = "REGISTER" /\ m.expired
        /\ UNCHANGED <<at, hub, inq, sock>>
  /\ UNCHANGED <<conn, current, previous, asks, faults, hit>>

PeerJoins(p) ==
  /\ at # NoSocket /\ sock[at].state = "open"
  /\ hit = {} \/ PeersAfterHit
  /\ \E r \in Rooms :
       /\ Unused(r)
       /\ hub' = [hub EXCEPT ![r] = [stage |-> "offered", peer |-> p, sock |-> at]]
       /\ Tell(at, [type |-> "INCOMING", room |-> r, peer |-> p])
  /\ UNCHANGED <<conn, current, previous, asks, sock, outq, at, faults, hit>>

PeerAnswers(r) ==
  /\ hub[r].stage = "asked"
  /\ \/ hub' = [hub EXCEPT ![r].stage = "up"] /\ TellJoined(hub[r].sock, r)
     \/ hub' = [hub EXCEPT ![r] = NewRoom] /\ UNCHANGED inq
  /\ UNCHANGED <<conn, current, previous, asks, sock, outq, at, faults, hit>>

PeerLeaves(r) ==
  /\ hub[r].stage \in {"offered", "up"}
  /\ hub' = [hub EXCEPT ![r] = NewRoom]
  /\ Tell(hub[r].sock, [type |-> "PEER_LEFT", room |-> r])
  /\ UNCHANGED <<conn, current, previous, asks, sock, outq, at, faults, hit>>

-----------------------------------------------------------------------------
Next ==
  \/ NewConnector
  \/ \E c \in Connectors : Reconnect(c) \/ Expire(c)
  \/ \E c \in Connectors, p \in Peers : JoinAsked(c, p)
  \/ \E s \in Sockets : \/ Open(s) \/ Close(s) \/ Receive(s) \/ RelayHandles(s)
                        \/ ConnectFails(s) \/ Drop(s) \/ FrameError(s)
  \/ \E p \in Peers : AskJoin(p) \/ PeerJoins(p)
  \/ \E r \in Rooms : DisconnectRoom(r) \/ PeerAnswers(r) \/ PeerLeaves(r)

Spec == Init /\ [][Next]_vars

\* Timers fire, sockets settle, the relay works through what it is sent.
FairSpec ==
  /\ Spec
  /\ WF_vars(NewConnector)
  /\ \A c \in Connectors : WF_vars(Reconnect(c))
  /\ \A s \in Sockets : WF_vars(Open(s)) /\ WF_vars(Close(s)) /\ WF_vars(Receive(s))
                        /\ WF_vars(RelayHandles(s))

-----------------------------------------------------------------------------
\* Properties.

\* A connector has one WebSocket that is connecting or open, the one it knows: whatever
\* its former sockets report in their end, it forgets none and makes no second one.
\* Excepted is a connector hit by a late close event: that one does forget its socket.
OneSocket ==
  \A s \in Sockets :
    sock[s].state \in {"connecting", "open"} /\ sock[s].owner \notin hit =>
      conn[sock[s].owner].ws = s

\* A room, and the key in it, is never kept beyond the connection it was made on.
RoomsDieWithSocket ==
  \A c \in Connectors :
    conn[c].rooms # {} =>
      \E s \in Sockets : sock[s].owner = c /\ sock[s].state \in {"open", "ended", "closing"}

\* A connector that was disconnected in favour of its successor stays so: no timer of it
\* is armed, and none that was armed brings it back to take the registration again.
StaysClosed ==
  [][\A c \in Connectors :
       conn[c].closed => /\ conn'[c].closed /\ ~conn'[c].timer
                         /\ conn'[c].state # "connecting"]_vars

\* Once the network holds, the connector in use ends up registered and remains so, also
\* when its token expired, or its registration was taken by the one it replaces, and
\* whatever that one's sockets go through.  Excepted is a connector itself hit by a late
\* close event: it forgets the new socket and makes another, the relay ends the forgotten
\* one when that registers, the close event of it clears that one in turn, and so on.
Recovers == <>[](current # 0 /\ (conn[current].state = "registered" \/ current \in hit))

\* A token refresh remembers every peer there is a room with, to join it again.
PeersRemembered ==
  [][current # 0 /\ current' # current =>
       \A x \in conn[current].rooms :
         x.peer # NoPeer /\ hub[x.id].stage = "up" => hub[x.id].peer \in previous'[current']]_vars
=============================================================================
