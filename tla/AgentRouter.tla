---------------------------- MODULE AgentRouter -----------------------------
(***************************************************************************)
(* Two daemons that delegate tasks to each other over relay rooms          *)
(* (agent/router.ts with agent/protocol.ts, tasks.handleResponse, and the  *)
(* /agent/propose, cancel and inbox routes of api/server.ts).              *)
(*                                                                         *)
(* A room is a pair of FIFO channels, one per direction, between the two   *)
(* connectors that know it.  An end that loses the room (its socket        *)
(* closes, the peer leaves, a token refresh replaces the connector) never  *)
(* gets it back, and with it goes the tail of what it had sent.            *)
(*                                                                         *)
(* PolicyEngine's verdict on a proposal is any of the three here, and the  *)
(* executor is reduced to what TaskExecutor shows of it: one report per    *)
(* task it runs.  query, capability and heartbeat messages change nothing  *)
(* that decides anything and are left out.                                 *)
(***************************************************************************)
EXTENDS Integers, Sequences, FiniteSets, SequencesExt

CONSTANTS Daemons, Tasks, Rooms, NoRoom,
          Proposer, Executor,   \* functions from Tasks to Daemons
          MaxRestarts           \* bound

ASSUME RouterAssumption ==
  /\ Proposer \in [Tasks -> Daemons] /\ Executor \in [Tasks -> Daemons]
  /\ \A t \in Tasks : Proposer[t] # Executor[t]
  /\ IsFiniteSet(Daemons) /\ Cardinality(Daemons) = 2
  /\ NoRoom \notin Rooms
  /\ MaxRestarts \in Nat

VARIABLES
  rec,       \* state of the proposer's record of each task (direction outbound)
  job,       \* state of the executor's record of it (direction inbound)
  room,      \* the room it was proposed in, which both records keep
  inbox,     \* each daemon's queued proposals
  running,   \* tasks some executor has asked its gateway to do
  known,     \* known[d][r]: "new", "open" (room and session key), "gone"
  chan,      \* chan[d][r]: messages of room r on their way to d
  skewed,    \* daemons whose clock makes every message look older than its ttl
  answers,   \* history: how often each proposal was answered
  fate,      \* history: what each executor decided and did
  restarts

roomVars    == <<known, chan>>
historyVars == <<answers, fate>>
vars == <<rec, job, room, inbox, running, roomVars, skewed, historyVars, restarts>>

Table == INSTANCE TaskLifecycle WITH Inbound <- {}, state <- rec
Jobs  == INSTANCE TaskLifecycle WITH Inbound <- Tasks, state <- job

\* What the two promise each other about a task.
Delegated == INSTANCE Delegation WITH view <- rec, fate <- fate

Terminal == Table!Terminal
Active   == Table!Active
Kind     == {"propose", "malformed", "accept", "reject", "completed", "failed"}
Message  == [kind : Kind, task : Tasks]

Msg(k, t) == [kind |-> k, task |-> t]

TypeOK ==
  /\ rec \in [Tasks -> Table!TaskState] /\ job \in [Tasks -> Table!TaskState]
  /\ room \in [Tasks -> Rooms \cup {NoRoom}]
  /\ inbox \in [Daemons -> SUBSET Tasks]
  /\ running \subseteq Tasks
  /\ known \in [Daemons -> [Rooms -> {"new", "open", "gone"}]]
  /\ chan \in [Daemons -> [Rooms -> Seq(Message)]]
  /\ skewed \subseteq Daemons
  /\ answers \in [Tasks -> Nat]
  /\ fate \in [Tasks -> SUBSET {"accepted", "rejected", "completed", "failed"}]
  /\ restarts \in 0 .. MaxRestarts

Peer(d) == CHOOSE e \in Daemons : e # d

Init ==
  /\ rec = [t \in Tasks |-> "none"] /\ job = [t \in Tasks |-> "none"]
  /\ room = [t \in Tasks |-> NoRoom]
  /\ inbox = [d \in Daemons |-> {}]
  /\ running = {}
  /\ known = [d \in Daemons |-> [r \in Rooms |-> "new"]]
  /\ chan = [d \in Daemons |-> [r \in Rooms |-> <<>>]]
  /\ skewed \in SUBSET Daemons
  /\ answers = [t \in Tasks |-> 0] /\ fate = [t \in Tasks |-> {}]
  /\ restarts = 0

-----------------------------------------------------------------------------
\* Rooms.

\* sendData: false without room and key; nobody looks at the result.  The relay has
\* nobody to forward to if the other end is gone.
Sent(c, d, r, m) ==
  IF known[d][r] = "open" /\ known[Peer(d)][r] # "gone"
  THEN [c EXCEPT ![Peer(d)][r] = Append(@, m)]
  ELSE c

\* An end has the peer's key.
OpenRoom(d, r) ==
  /\ known[d][r] = "new"
  /\ known' = [known EXCEPT ![d][r] = "open"]
  /\ UNCHANGED <<rec, job, room, inbox, running, chan, skewed, historyVars, restarts>>

\* The channels after d loses the rooms R: nothing to it arrives, and of what it sent
\* a prefix does.
Cut(d, R) ==
  \E kept \in [R -> 0 .. Max({Len(chan[Peer(d)][r]) : r \in Rooms})] :
    /\ \A r \in R : kept[r] <= Len(chan[Peer(d)][r])
    /\ chan' = [chan EXCEPT
         ![d] = [r \in Rooms |-> IF r \in R THEN <<>> ELSE @[r]],
         ![Peer(d)] = [r \in Rooms |-> IF r \in R THEN SubSeq(@[r], 1, kept[r]) ELSE @[r]]]

\* cleanup(), PEER_LEFT, disconnectRoom, or setConnector with another connector.
LoseRooms(d, R) ==
  /\ R # {}
  /\ \A r \in R : known[d][r] = "open"
  /\ known' = [known EXCEPT ![d] = [r \in Rooms |-> IF r \in R THEN "gone" ELSE @[r]]]
  /\ Cut(d, R)
  /\ UNCHANGED <<rec, job, room, inbox, running, skewed, historyVars, restarts>>

-----------------------------------------------------------------------------
\* Inbound messages.

\* Mutant of AcceptProposal: no answer.
AcceptSilently(t, c) ==
  /\ job' = [job EXCEPT ![t] = "accepted"]
  /\ chan' = c
  /\ answers' = [answers EXCEPT ![t] = @ + 1]
  /\ fate' = [fate EXCEPT ![t] = @ \cup {"accepted"}]

\* acceptProposal: the record, then the answer, whatever becomes of the answer.  The
\* executor, told of the record, goes on in a later callback.
AcceptProposal(t, c) ==
  LET d == Executor[t] IN
  /\ job' = [job EXCEPT ![t] = "accepted"]
  /\ chan' = Sent(c, d, room[t], Msg("accept", t))
  /\ answers' = [answers EXCEPT ![t] = @ + 1]
  /\ fate' = [fate EXCEPT ![t] = @ \cup {"accepted"}]

RejectProposal(t, c) ==
  LET d == Executor[t] IN
  /\ chan' = Sent(c, d, room[t], Msg("reject", t))
  /\ answers' = [answers EXCEPT ![t] = @ + 1]
  /\ fate' = [fate EXCEPT ![t] = @ \cup {"rejected"}]
  /\ UNCHANGED job

\* handleProposal with the policy's verdict.
HandleProposal(t, c) ==
  \/ AcceptProposal(t, c) /\ UNCHANGED inbox
  \/ RejectProposal(t, c) /\ UNCHANGED inbox
  \/ /\ inbox' = [inbox EXCEPT ![Executor[t]] = @ \cup {t}]
     /\ chan' = c
     /\ UNCHANGED <<job, historyVars>>

\* Mutant of StateOf: a reject falls through to the case of accept.
StateOfReply(kind) == IF kind \in {"accept", "reject"} THEN "accepted" ELSE kind

StateOf(kind) == CASE kind = "accept" -> "accepted"
                   [] kind = "reject" -> "rejected"
                   [] OTHER -> kind

\* parseEnvelope and isExpired drop a message silently.
Ignored(d, m) == d \in skewed \/ m.kind = "malformed"

\* handleData.
Receive(d, r) ==
  /\ known[d][r] = "open" /\ chan[d][r] # <<>>
  /\ LET m == Head(chan[d][r])
         c == [chan EXCEPT ![d][r] = Tail(@)] IN
     \/ /\ Ignored(d, m)
        /\ chan' = c
        /\ UNCHANGED <<rec, job, inbox, historyVars>>
     \/ /\ ~Ignored(d, m) /\ m.kind = "propose"
        /\ HandleProposal(m.task, c)
        /\ UNCHANGED rec
     \/ /\ ~Ignored(d, m) /\ m.kind # "propose"
        /\ Table!UpdateState(m.task, StateOf(m.kind))
        /\ chan' = c
        /\ UNCHANGED <<job, inbox, historyVars>>
  /\ UNCHANGED <<room, running, known, skewed, restarts>>

-----------------------------------------------------------------------------
\* Requests of the user.

\* POST /agent/propose, in a room of the user's choice.  Nothing checks the task: one
\* that the other end's validatePayload refuses is sent all the same.
Propose(t, r) ==
  /\ Table!Create(t) /\ room[t] = NoRoom
  /\ room' = [room EXCEPT ![t] = r]
  /\ \E k \in {"propose", "malformed"} : chan' = Sent(chan, Proposer[t], r, Msg(k, t))
  /\ UNCHANGED <<job, inbox, running, known, skewed, historyVars, restarts>>

\* Mutant of ApproveInbox: the entry stays.
ApproveAgain(t) ==
  /\ t \in inbox[Executor[t]]
  /\ AcceptProposal(t, chan)
  /\ UNCHANGED <<inbox, rec, room, running, known, skewed, restarts>>

ApproveInbox(t) ==
  /\ t \in inbox[Executor[t]]
  /\ inbox' = [inbox EXCEPT ![Executor[t]] = @ \ {t}]
  /\ AcceptProposal(t, chan)
  /\ UNCHANGED <<rec, room, running, known, skewed, restarts>>

DenyInbox(t) ==
  /\ t \in inbox[Executor[t]]
  /\ inbox' = [inbox EXCEPT ![Executor[t]] = @ \ {t}]
  /\ RejectProposal(t, chan)
  /\ UNCHANGED <<rec, room, running, known, skewed, restarts>>

\* POST /agent/tasks/:id/cancel, on either side; the peer is not told.
CancelTask(t) ==
  /\ \/ rec[t] \in Active /\ Table!UpdateState(t, "cancelled") /\ UNCHANGED job
     \/ job[t] \in Active /\ Jobs!UpdateState(t, "cancelled") /\ UNCHANGED rec
  /\ UNCHANGED <<room, inbox, running, roomVars, skewed, historyVars, restarts>>

\* The timeout checker of either daemon, on one record at a time.
TimeoutCheck(t) ==
  /\ \/ rec[t] \in Active /\ Table!UpdateState(t, "timeout") /\ UNCHANGED job
     \/ job[t] \in Active /\ Jobs!UpdateState(t, "timeout") /\ UNCHANGED rec
  /\ UNCHANGED <<room, inbox, running, roomVars, skewed, historyVars, restarts>>

-----------------------------------------------------------------------------
\* The executor.

Report(t, outcome) ==
  /\ chan' = Sent(chan, Executor[t], room[t], Msg(outcome, t))
  /\ fate' = [fate EXCEPT ![t] = @ \cup {outcome}]

\* executeTask with a gateway.
StartJob(t) ==
  /\ job[t] = "accepted"
  /\ running' = running \cup {t}
  /\ Jobs!UpdateState(t, "executing")
  /\ UNCHANGED <<rec, room, inbox, roomVars, skewed, historyVars, restarts>>

\* executeTask without one; the record may have ended during the handshake.
JobNotStarted(t) ==
  /\ job[t] = "accepted"
  /\ \E s \in {"failed", "cancelled", "timeout"} : Jobs!UpdateState(t, s)
  /\ Report(t, "failed")
  /\ UNCHANGED <<rec, room, inbox, running, known, skewed, answers, restarts>>

\* handleTaskFinal and handleTaskError report if they find the record, which a cancel
\* or the timeout checker has taken away; the task's timer reports in any case.
EndJob(t) ==
  /\ t \in running
  /\ running' = running \ {t}
  /\ \/ \E s \in {"completed", "failed"} :
          /\ Jobs!UpdateState(t, s)
          /\ IF job[t] \in Active THEN Report(t, s) ELSE UNCHANGED <<chan, fate>>
     \/ Jobs!UpdateState(t, "timeout") /\ Report(t, "failed")
  /\ UNCHANGED <<rec, room, inbox, known, skewed, answers, restarts>>

-----------------------------------------------------------------------------
\* The process of d ends anywhere.  The next one loads each record as some flush saved
\* it, has no inbox and no room, and runs what it finds accepted.
Restart(d) ==
  LET Saved(table, S) == {f \in [Tasks -> Table!TaskState] :
                            \A t \in Tasks : IF t \in S THEN Delegated!LeadsTo(f[t], table[t])
                                                        ELSE f[t] = table[t]}
      asked == {t \in Tasks : Proposer[t] = d}
      done  == {t \in Tasks : Executor[t] = d} IN
  /\ restarts < MaxRestarts
  /\ restarts' = restarts + 1
  /\ rec' \in Saved(rec, asked) /\ job' \in Saved(job, done)
  /\ inbox' = [inbox EXCEPT ![d] = {}]
  /\ running' = running \ done
  /\ known' = [known EXCEPT ![d] = [r \in Rooms |-> IF @[r] = "open" THEN "gone" ELSE @[r]]]
  /\ Cut(d, Rooms)
  /\ UNCHANGED <<room, skewed, historyVars>>

Next ==
  \/ \E d \in Daemons, r \in Rooms : OpenRoom(d, r) \/ Receive(d, r)
  \/ \E d \in Daemons, R \in SUBSET Rooms : LoseRooms(d, R)
  \/ \E d \in Daemons : Restart(d)
  \/ \E t \in Tasks, r \in Rooms : Propose(t, r)
  \/ \E t \in Tasks : \/ ApproveInbox(t) \/ DenyInbox(t) \/ CancelTask(t) \/ TimeoutCheck(t)
                      \/ StartJob(t) \/ JobNotStarted(t) \/ EndJob(t)

Spec == Init /\ [][Next]_vars

-----------------------------------------------------------------------------
\* Properties.

\* Whatever the relay loses and whoever restarts, the proposer's record says of a task
\* only what the executor did of it.
Delegates == Delegated!DelegationSpec

\* While neither end restarts or loses the room, a report that has left the executor and
\* is no longer on its way has ended the proposer's record: the accept is always there
\* first, and no report finds the record in a state it cannot end.
ReportsEndRecords ==
  \A t \in Tasks :
    LET d == Proposer[t] IN
    (/\ restarts = 0 /\ d \notin skewed /\ room[t] \in Rooms
     /\ fate[t] \cap Delegated!Outcomes # {}
     /\ \A e \in Daemons : known[e][room[t]] = "open"
     /\ \A i \in DOMAIN chan[d][room[t]] : chan[d][room[t]][i].task # t)
    => rec[t] \in Terminal

\* A proposal is answered once, by the policy or from the inbox, and not while it is
\* queued; an accepted task has one outcome, and another only after a restart.
AnsweredOnce ==
  \A t \in Tasks :
    /\ answers[t] <= IF \E d \in Daemons : t \in inbox[d] THEN 0 ELSE 1
    /\ Cardinality(fate[t] \cap Delegated!Outcomes) <= 1 + restarts

=============================================================================
