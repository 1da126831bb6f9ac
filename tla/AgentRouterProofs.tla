---------------------------- MODULE AgentRouterProofs ----------------------------
(* Machine-checked properties of AgentRouter, for any tasks and rooms, any      *)
(* two daemons and any number of restarts.                                      *)
EXTENDS AgentRouter, FiniteSetTheorems, SequenceTheorems, TLAPS

Chans == [Daemons -> [Rooms -> Seq(Message)]]

LEMMA PeerOf ==
  ASSUME NEW d \in Daemons
  PROVE  Peer(d) \in Daemons /\ Peer(d) # d
<1>1. \E e \in Daemons : e # d
  <2>1. SUFFICES ASSUME Daemons = {d} PROVE FALSE
    OBVIOUS
  <2>2. Cardinality(Daemons) = 1
    BY <2>1, FS_Singleton
  <2>. QED
    BY <2>2, RouterAssumption DEF RouterAssumption
<1>. QED
  BY <1>1 DEF Peer

-----------------------------------------------------------------------------
(* What a channel holds.                                                   *)

Holds(c, m) == \E e \in Daemons, q \in Rooms : \E i \in 1 .. Len(c[e][q]) : c[e][q][i] = m

\* A reply tells what the executor did.
Honest(c, f) == \A m \in Message : Holds(c, m) /\ m.kind \notin {"propose", "malformed"} =>
                  StateOf(m.kind) \in f[m.task]

\* A proposal is on its way once.
Once(c) ==
  \A t \in Tasks : \A d, e \in Daemons : \A q, r \in Rooms :
    \A i \in 1 .. Len(c[d][q]), j \in 1 .. Len(c[e][r]) :
      c[d][q][i] = Msg("propose", t) /\ c[e][r][j] = Msg("propose", t) =>
        d = e /\ q = r /\ i = j

\* Each channel of c2 is a part of that of c.
Part(c, c2) ==
  \A e \in Daemons, q \in Rooms : \E n \in Nat : \A i \in 1 .. Len(c2[e][q]) :
    i + n \in 1 .. Len(c[e][q]) /\ c2[e][q][i] = c[e][q][i + n]

LEMMA PartKeeps ==
  ASSUME NEW c \in Chans, NEW c2 \in Chans, Part(c, c2), Once(c)
  PROVE  (\A m : Holds(c2, m) => Holds(c, m)) /\ Once(c2)
<1>1. ASSUME NEW m, Holds(c2, m) PROVE Holds(c, m)
  <2>a. PICK e \in Daemons, q \in Rooms : \E i \in 1 .. Len(c2[e][q]) : c2[e][q][i] = m
    BY <1>1 DEF Holds
  <2>1. PICK i \in 1 .. Len(c2[e][q]) : c2[e][q][i] = m
    BY <2>a
  <2>2. PICK n \in Nat : i + n \in 1 .. Len(c[e][q]) /\ c2[e][q][i] = c[e][q][i + n]
    BY DEF Part
  <2>. QED
    BY <2>1, <2>2 DEF Holds
<1>2. ASSUME NEW t \in Tasks, NEW d \in Daemons, NEW e \in Daemons, NEW q \in Rooms, NEW r \in Rooms,
             NEW i \in 1 .. Len(c2[d][q]), NEW j \in 1 .. Len(c2[e][r]),
             c2[d][q][i] = Msg("propose", t), c2[e][r][j] = Msg("propose", t)
      PROVE  d = e /\ q = r /\ i = j
  <2>1. PICK n \in Nat : \A x \in 1 .. Len(c2[d][q]) :
          x + n \in 1 .. Len(c[d][q]) /\ c2[d][q][x] = c[d][q][x + n]
    BY DEF Part
  <2>2. PICK k \in Nat : \A x \in 1 .. Len(c2[e][r]) :
          x + k \in 1 .. Len(c[e][r]) /\ c2[e][r][x] = c[e][r][x + k]
    BY DEF Part
  <2>3. /\ i + n \in 1 .. Len(c[d][q]) /\ c[d][q][i + n] = Msg("propose", t)
        /\ j + k \in 1 .. Len(c[e][r]) /\ c[e][r][j + k] = Msg("propose", t)
    BY <1>2, <2>1, <2>2
  <2>4. d = e /\ q = r
    BY <2>3 DEF Once
  <2>5. j + n \in 1 .. Len(c[d][q]) /\ c[d][q][j + n] = Msg("propose", t)
    BY <1>2, <2>1, <2>4
  <2>6. i + n = j + n
    BY <2>3, <2>5 DEF Once
  <2>7. i \in Int /\ j \in Int
    OBVIOUS
  <2>. QED
    BY <2>4, <2>6, <2>7
<1>. QED
  BY <1>1, <1>2 DEF Once

\* A message taken from the head of a channel.
LEMMA TailPart ==
  ASSUME NEW c \in Chans, NEW d \in Daemons, NEW r \in Rooms, c[d][r] # <<>>, NEW c2,
         c2 = [c EXCEPT ![d][r] = Tail(@)]
  PROVE  /\ c2 \in Chans /\ Part(c, c2)
         /\ Head(c[d][r]) \in Message /\ Holds(c, Head(c[d][r]))
         /\ \A t \in Tasks : Head(c[d][r]) = Msg("propose", t) /\ Once(c) => ~Holds(c2, Msg("propose", t))
<1>1. /\ c[d][r] \in Seq(Message) /\ Tail(c[d][r]) \in Seq(Message) /\ Head(c[d][r]) \in Message
      /\ Len(Tail(c[d][r])) = Len(c[d][r]) - 1 /\ Len(c[d][r]) \in Nat /\ Len(c[d][r]) >= 1
      /\ Head(c[d][r]) = c[d][r][1]
      /\ \A i \in 1 .. Len(Tail(c[d][r])) : Tail(c[d][r])[i] = c[d][r][i + 1]
  BY HeadTailProperties DEF Chans
<1>2. \A i \in 1 .. Len(Tail(c[d][r])) :
        i + 1 \in 1 .. Len(c[d][r]) /\ Tail(c[d][r])[i] = c[d][r][i + 1] /\ i \in Int /\ i >= 1
  <2> DEFINE n == Len(c[d][r])
             k == Len(Tail(c[d][r]))
  <2>1. n \in Nat /\ k = n - 1
    BY <1>1
  <2> HIDE DEF n, k
  <2>2. \A i \in 1 .. k : i + 1 \in 1 .. n /\ i \in Int /\ i >= 1
    BY <2>1
  <2>. QED
    BY <1>1, <2>2 DEF n, k
<1>3. /\ c2 \in Chans
      /\ \A e \in Daemons, q \in Rooms : c2[e][q] = IF e = d /\ q = r THEN Tail(c[d][r]) ELSE c[e][q]
  BY <1>1 DEF Chans
<1>4. ASSUME NEW e \in Daemons, NEW q \in Rooms
      PROVE  \E n \in Nat : \A i \in 1 .. Len(c2[e][q]) :
               i + n \in 1 .. Len(c[e][q]) /\ c2[e][q][i] = c[e][q][i + n]
  <2>1. CASE e = d /\ q = r
    <3>1. c2[e][q] = Tail(c[d][r]) /\ c[e][q] = c[d][r]
      BY <1>3, <2>1
    <3>2. \A i \in 1 .. Len(c2[e][q]) : i + 1 \in 1 .. Len(c[e][q]) /\ c2[e][q][i] = c[e][q][i + 1]
      BY <1>2, <3>1, Zenon
    <3>. QED
      BY <3>2
  <2>2. CASE ~(e = d /\ q = r)
    <3>1. \A i \in 1 .. Len(c2[e][q]) : i + 0 \in 1 .. Len(c[e][q]) /\ c2[e][q][i] = c[e][q][i + 0]
      BY <1>3, <2>2
    <3>. QED
      BY <3>1
  <2>. QED
    BY <2>1, <2>2
<1>5. Holds(c, Head(c[d][r]))
  BY <1>1 DEF Holds
<1>6. ASSUME NEW t \in Tasks, Head(c[d][r]) = Msg("propose", t), Once(c), Holds(c2, Msg("propose", t))
      PROVE  FALSE
  <2>a. PICK e \in Daemons, q \in Rooms : \E i \in 1 .. Len(c2[e][q]) : c2[e][q][i] = Msg("propose", t)
    BY <1>6 DEF Holds
  <2>1. PICK i \in 1 .. Len(c2[e][q]) : c2[e][q][i] = Msg("propose", t)
    BY <2>a
  <2>2. 1 \in 1 .. Len(c[d][r]) /\ c[d][r][1] = Msg("propose", t)
    BY <1>1, <1>6
  <2>3. CASE e = d /\ q = r
    <3>1. c2[e][q] = Tail(c[d][r])
      BY <1>3, <2>3
    <3>2. i + 1 \in 1 .. Len(c[d][r]) /\ c[d][r][i + 1] = Msg("propose", t) /\ i \in Int /\ i >= 1
      BY <1>2, <2>1, <3>1, Zenon
    <3>3. 1 = i + 1
      BY <1>6, <2>2, <3>2 DEF Once
    <3>. QED
      BY <3>2, <3>3
  <2>4. CASE ~(e = d /\ q = r)
    <3>1. i \in 1 .. Len(c[e][q]) /\ c[e][q][i] = Msg("propose", t)
      BY <1>3, <2>1, <2>4
    <3>. QED
      BY <1>6, <2>2, <2>4, <3>1 DEF Once
  <2>. QED
    BY <2>3, <2>4
<1>. QED
  BY <1>1, <1>3, <1>4, <1>5, <1>6 DEF Part

\* Rooms an end loses.
LEMMA CutPart ==
  ASSUME chan \in Chans, NEW d \in Daemons, NEW R \in SUBSET Rooms, Cut(d, R)
  PROVE  /\ chan' \in Chans /\ Part(chan, chan')
         /\ \A e \in Daemons, q \in Rooms \ R : chan'[e][q] = chan[e][q]
<1> DEFINE p == Peer(d)
<1>1. p \in Daemons /\ p # d
  BY PeerOf
<1> HIDE DEF p
<1>2. PICK kept \in [R -> Int] :
        /\ \A r \in R : kept[r] <= Len(chan[p][r]) /\ 0 <= kept[r]
        /\ chan' = [chan EXCEPT
             ![d] = [r \in Rooms |-> IF r \in R THEN <<>> ELSE @[r]],
             ![p] = [r \in Rooms |-> IF r \in R THEN SubSeq(@[r], 1, kept[r]) ELSE @[r]]]
  <2> DEFINE M == Max({Len(chan[Peer(d)][r]) : r \in Rooms})
  <2>1. PICK kept \in [R -> 0 .. M] :
        /\ \A r \in R : kept[r] <= Len(chan[p][r])
        /\ chan' = [chan EXCEPT
             ![d] = [r \in Rooms |-> IF r \in R THEN <<>> ELSE @[r]],
             ![p] = [r \in Rooms |-> IF r \in R THEN SubSeq(@[r], 1, kept[r]) ELSE @[r]]]
    BY DEF Cut, p
  <2> HIDE DEF M
  <2>2. kept \in [R -> Int] /\ \A r \in R : 0 <= kept[r]
    OBVIOUS
  <2>. QED
    BY <2>1, <2>2
<1>3. \A q \in Rooms : /\ chan[d][q] \in Seq(Message) /\ chan[p][q] \in Seq(Message)
  BY <1>1 DEF Chans
<1>4. ASSUME NEW q \in R
      PROVE  /\ SubSeq(chan[p][q], 1, kept[q]) \in Seq(Message)
             /\ Len(SubSeq(chan[p][q], 1, kept[q])) = kept[q]
             /\ \A i \in 1 .. kept[q] : SubSeq(chan[p][q], 1, kept[q])[i] = chan[p][q][i]
  BY <1>2, <1>3, SubSeqProperties
<1>5. /\ chan' \in Chans
      /\ \A e \in Daemons, q \in Rooms :
           chan'[e][q] = IF q \notin R THEN chan[e][q]
                         ELSE IF e = d THEN <<>>
                         ELSE IF e = p THEN SubSeq(chan[p][q], 1, kept[q]) ELSE chan[e][q]
  <2>1. d \in Daemons /\ chan \in [Daemons -> [Rooms -> Seq(Message)]]
    BY DEF Chans
  <2>2. /\ chan' \in [Daemons -> [Rooms -> Seq(Message)]]
        /\ chan'[d] = [q \in Rooms |-> IF q \in R THEN <<>> ELSE chan[d][q]]
        /\ chan'[p] = [q \in Rooms |-> IF q \in R THEN SubSeq(chan[p][q], 1, kept[q]) ELSE chan[p][q]]
        /\ \A e \in Daemons \ {d, p} : chan'[e] = chan[e]
    <3> DEFINE fd == [q \in Rooms |-> IF q \in R THEN <<>> ELSE chan[d][q]]
               fp == [q \in Rooms |-> IF q \in R THEN SubSeq(chan[p][q], 1, kept[q]) ELSE chan[p][q]]
    <3>1. fd \in [Rooms -> Seq(Message)] /\ fp \in [Rooms -> Seq(Message)]
      BY <1>3, <1>4
    <3>2. chan' = [chan EXCEPT ![d] = fd, ![p] = fp]
      BY <1>1, <1>2
    <3> HIDE DEF fd, fp
    <3>3. /\ chan' \in [Daemons -> [Rooms -> Seq(Message)]]
          /\ chan'[d] = fd /\ chan'[p] = fp /\ \A e \in Daemons \ {d, p} : chan'[e] = chan[e]
      BY <1>1, <2>1, <3>1, <3>2
    <3>. QED
      BY <3>3 DEF fd, fp
  <2>. QED
    BY <1>1, <2>2 DEF Chans
<1>6. ASSUME NEW e \in Daemons, NEW q \in Rooms
      PROVE  \A i \in 1 .. Len(chan'[e][q]) :
               i + 0 \in 1 .. Len(chan[e][q]) /\ chan'[e][q][i] = chan[e][q][i + 0]
  <2>1. CASE q \notin R \/ (e # d /\ e # p)
    BY <1>5, <2>1
  <2>2. CASE q \in R /\ e = d
    BY <1>5, <2>2
  <2>3. CASE q \in R /\ e = p
    <3>1. chan'[e][q] = SubSeq(chan[p][q], 1, kept[q])
      BY <1>1, <1>5, <2>3
    <3>2. kept[q] <= Len(chan[p][q]) /\ kept[q] \in Int /\ Len(chan[p][q]) \in Nat
      BY <1>2, <1>3, <2>3
    <3>. QED
      BY <1>4, <2>3, <3>1, <3>2
  <2>. QED
    BY <2>1, <2>2, <2>3
<1>. QED
  BY <1>5, <1>6 DEF Part

\* A message sent, or lost at once.
LEMMA Sends ==
  ASSUME chan \in Chans, NEW c \in Chans, NEW d \in Daemons, NEW r, NEW m \in Message
  PROVE  /\ Sent(c, d, r, m) \in Chans
         /\ \A x : Holds(Sent(c, d, r, m), x) => x = m \/ Holds(c, x)
         /\ Once(c) /\ ((\E t \in Tasks : m = Msg("propose", t)) => ~Holds(c, m))
              => Once(Sent(c, d, r, m))
<1> DEFINE s == Sent(c, d, r, m)
           p == Peer(d)
<1>1. p \in Daemons
  BY PeerOf
<1>2. CASE s = c
  BY <1>2
<1>3. CASE s # c
  <2>1. s = [c EXCEPT ![p][r] = Append(@, m)]
    BY <1>3 DEF Sent
  <2> HIDE DEF s, p
  <2>2. r \in Rooms
    BY <1>1, <1>3, <2>1 DEF Chans
  <2>3. /\ c[p][r] \in Seq(Message) /\ Append(c[p][r], m) \in Seq(Message)
        /\ Len(Append(c[p][r], m)) = Len(c[p][r]) + 1 /\ Len(c[p][r]) \in Nat
        /\ \A i \in 1 .. Len(c[p][r]) : Append(c[p][r], m)[i] = c[p][r][i]
        /\ Append(c[p][r], m)[Len(c[p][r]) + 1] = m
    BY <1>1, <2>2, AppendProperties DEF Chans
  <2>4. /\ s \in Chans
        /\ \A e \in Daemons, q \in Rooms : s[e][q] = IF e = p /\ q = r THEN Append(c[p][r], m) ELSE c[e][q]
    BY <1>1, <2>1, <2>2, <2>3 DEF Chans
  <2>5. ASSUME NEW e \in Daemons, NEW q \in Rooms, NEW i \in 1 .. Len(s[e][q])
        PROVE  \/ e = p /\ q = r /\ i = Len(c[p][r]) + 1 /\ s[e][q][i] = m
               \/ i \in 1 .. Len(c[e][q]) /\ s[e][q][i] = c[e][q][i]
    <3>1. CASE e = p /\ q = r
      <4>1. i \in 1 .. Len(c[p][r]) + 1
        BY <2>3, <2>4, <3>1
      <4>2. i \in 1 .. Len(c[p][r]) \/ i = Len(c[p][r]) + 1
        BY <2>3, <4>1
      <4>. QED
        BY <2>3, <2>4, <3>1, <4>2
    <3>2. CASE ~(e = p /\ q = r)
      BY <2>4, <3>2
    <3>. QED
      BY <3>1, <3>2
  <2>6. ASSUME NEW x, Holds(s, x) PROVE x = m \/ Holds(c, x)
    <3>a. PICK e \in Daemons, q \in Rooms : \E i \in 1 .. Len(s[e][q]) : s[e][q][i] = x
      BY <2>6 DEF Holds
    <3>1. PICK i \in 1 .. Len(s[e][q]) : s[e][q][i] = x
      BY <3>a
    <3>. QED
      BY <2>5, <3>1 DEF Holds
  <2>7. ASSUME Once(c), (\E t \in Tasks : m = Msg("propose", t)) => ~Holds(c, m) PROVE Once(s)
    <3> SUFFICES ASSUME NEW t \in Tasks, NEW e \in Daemons, NEW f \in Daemons,
                        NEW q \in Rooms, NEW z \in Rooms,
                        NEW i \in 1 .. Len(s[e][q]), NEW j \in 1 .. Len(s[f][z]),
                        s[e][q][i] = Msg("propose", t), s[f][z][j] = Msg("propose", t)
                 PROVE  e = f /\ q = z /\ i = j
      BY DEF Once
    <3>1. CASE m = Msg("propose", t)
      <4>1. ~Holds(c, m)
        BY <2>7, <3>1
      <4>2. ~(i \in 1 .. Len(c[e][q]) /\ c[e][q][i] = m) /\ ~(j \in 1 .. Len(c[f][z]) /\ c[f][z][j] = m)
        BY <4>1 DEF Holds
      <4>. QED
        BY <2>5, <3>1, <4>2
    <3>2. CASE m # Msg("propose", t)
      <4>1. /\ i \in 1 .. Len(c[e][q]) /\ c[e][q][i] = Msg("propose", t)
            /\ j \in 1 .. Len(c[f][z]) /\ c[f][z][j] = Msg("propose", t)
        BY <2>5, <3>2
      <4>. QED
        BY <2>7, <4>1 DEF Once
    <3>. QED
      BY <3>1, <3>2
  <2>. QED
    BY <2>4, <2>6, <2>7 DEF s
<1>. QED
  BY <1>2, <1>3

-----------------------------------------------------------------------------
(* The task tables.                                                        *)

States  == Table!TaskState
Moves   == Table!TRANSITIONS

LEMMA SameTable ==
  /\ Jobs!TaskState = States /\ Delegated!Table!TaskState = States
  /\ Jobs!TRANSITIONS = Moves /\ Delegated!TRANSITIONS = Moves
BY DEF States, Moves, Table!TaskState, Table!TRANSITIONS, Table!Active, Table!Terminal,
       Jobs!TaskState, Jobs!TRANSITIONS, Jobs!Active, Jobs!Terminal, Delegated!TRANSITIONS,
       Delegated!Table!TaskState, Delegated!Table!TRANSITIONS, Delegated!Table!Active, Delegated!Table!Terminal

LEMMA MovesType ==
  /\ Moves \in [States -> SUBSET (States \ {"none", "pending"})]
  /\ {"none", "pending", "accepted", "executing", "completed", "failed", "rejected", "cancelled", "timeout"}
       = States
  /\ Moves["none"] = {} /\ Moves["executing"] = {"completed", "failed", "cancelled", "timeout"}
  /\ Moves["accepted"] = {"executing", "completed", "failed", "cancelled", "timeout"}
  /\ \A u \in States : "accepted" \in Moves[u] => u = "pending"
  /\ \A u \in States : u \in Table!Active => {"cancelled", "timeout"} \subseteq Moves[u]
BY DEF States, Moves, Table!TaskState, Table!TRANSITIONS, Table!Active, Table!Terminal

\* A record moves, or stays.
LEMMA RecMoves ==
  ASSUME rec \in [Tasks -> States], NEW t \in Tasks, NEW s, Table!UpdateState(t, s)
  PROVE  \/ s \in Moves[rec[t]] /\ rec' = [rec EXCEPT ![t] = s]
         \/ UNCHANGED rec
BY DEF Table!UpdateState, Table!CanMove, Moves

LEMMA JobMoves ==
  ASSUME job \in [Tasks -> States], NEW t \in Tasks, NEW s, Jobs!UpdateState(t, s)
  PROVE  \/ s \in Moves[job[t]] /\ job' = [job EXCEPT ![t] = s]
         \/ s \notin Moves[job[t]] /\ UNCHANGED job
BY SameTable DEF Jobs!UpdateState, Jobs!CanMove

LEMMA Leads ==
  ASSUME NEW u \in States, NEW s \in States, Delegated!LeadsTo(u, s)
  PROVE  s = "none" => u = "none"
BY SameTable, MovesType DEF Delegated!LeadsTo

-----------------------------------------------------------------------------
(* The invariant.                                                          *)

\* Without a restart, what runs or may yet run has no outcome, and nothing has two.
Stage(t) ==
  /\ job[t] \in {"none", "accepted"} => t \notin running
  /\ job[t] \in {"none", "accepted"} \/ t \in running =>
       "completed" \notin fate[t] /\ "failed" \notin fate[t]
  /\ "completed" \notin fate[t] \/ "failed" \notin fate[t]

\* A proposal is on its way or queued until it is answered, and executed once accepted.
Life(t) ==
  /\ Holds(chan, Msg("propose", t)) => t \notin inbox[Executor[t]]
  /\ Holds(chan, Msg("propose", t)) \/ t \in inbox[Executor[t]] => fate[t] = {} /\ room[t] # NoRoom
  /\ \A d \in Daemons : t \in inbox[d] => d = Executor[t]
  /\ room[t] = NoRoom => fate[t] = {}
  /\ job[t] # "none" \/ t \in running => "accepted" \in fate[t]
  /\ answers[t] = IF fate[t] = {} THEN 0 ELSE 1
  /\ restarts = 0 => Stage(t)

Typed ==
  /\ rec \in [Tasks -> States] /\ job \in [Tasks -> States]
  /\ room \in [Tasks -> Rooms \cup {NoRoom}]
  /\ inbox \in [Daemons -> SUBSET Tasks]
  /\ running \subseteq Tasks
  /\ chan \in Chans
  /\ answers \in [Tasks -> Nat]
  /\ fate \in [Tasks -> SUBSET {"accepted", "rejected", "completed", "failed"}]
  /\ restarts \in Nat

Inv == Typed /\ Honest(chan, fate) /\ Once(chan) /\ \A t \in Tasks : Life(t)

LEMMA Others ==
  ASSUME Inv, NEW t, restarts' = restarts,
         \A u \in Tasks \ {t} :
           /\ job'[u] = job[u] /\ room'[u] = room[u] /\ fate'[u] = fate[u] /\ answers'[u] = answers[u]
           /\ u \in running' => u \in running
           /\ \A d \in Daemons : u \in inbox'[d] => u \in inbox[d]
           /\ Holds(chan', Msg("propose", u)) => Holds(chan, Msg("propose", u))
  PROVE  \A u \in Tasks \ {t} : Life(u)'
<1> SUFFICES ASSUME NEW u \in Tasks, u # t PROVE Life(u)'
  OBVIOUS
<1>1. Executor[u] \in Daemons
  BY RouterAssumption DEF RouterAssumption
<1>. QED
  BY <1>1 DEF Inv, Life, Stage

\* What only moves messages leaves everything true.
LEMMA Quiet ==
  ASSUME Inv, chan' \in Chans, Part(chan, chan'),
         UNCHANGED <<rec, job, room, inbox, running, answers, fate, restarts>>
  PROVE  Inv'
<1>1. (\A m : Holds(chan', m) => Holds(chan, m)) /\ Once(chan')
  BY PartKeeps DEF Inv, Typed
<1>2. Typed' /\ Honest(chan', fate')
  BY <1>1 DEF Inv, Typed, Honest
<1>3. \A u \in Tasks : Life(u)'
  BY <1>1 DEF Inv, Life, Stage
<1>. QED
  BY <1>1, <1>2, <1>3 DEF Inv

\* The answer to a proposal that has left its channel and is not queued any more.
LEMMA Answer ==
  ASSUME Inv, NEW t \in Tasks, NEW c \in Chans, Part(chan, c), ~Holds(c, Msg("propose", t)),
         fate[t] = {}, room[t] # NoRoom, AcceptProposal(t, c) \/ RejectProposal(t, c),
         inbox' \in [Daemons -> SUBSET Tasks], \A d \in Daemons : inbox'[d] \subseteq inbox[d],
         t \notin inbox'[Executor[t]], UNCHANGED <<rec, room, running, restarts>>
  PROVE  Inv' /\ Delegated!DelegationNext
<1> DEFINE d == Executor[t]
           acc == AcceptProposal(t, c)
           word == IF acc THEN "accepted" ELSE "rejected"
           m == IF acc THEN Msg("accept", t) ELSE Msg("reject", t)
<1>1. d \in Daemons
  BY RouterAssumption DEF RouterAssumption
<1>2. /\ chan' = Sent(c, d, room[t], m)
      /\ fate' = [fate EXCEPT ![t] = {word}]
      /\ answers' = [answers EXCEPT ![t] = answers[t] + 1]
      /\ job' = job \/ (acc /\ job' = [job EXCEPT ![t] = "accepted"])
  BY DEF AcceptProposal, RejectProposal, Inv, Typed
<1>3. /\ m \in Message /\ m.task = t /\ m.kind \notin {"propose", "malformed"} /\ StateOf(m.kind) = word
      /\ \A u : m # Msg("propose", u)
  BY DEF Msg, Message, Kind, StateOf
<1>4. word \in {"accepted", "rejected"} /\ (acc => word = "accepted")
  OBVIOUS
<1> HIDE DEF d, m, word, acc
<1>5. (\A x : Holds(c, x) => Holds(chan, x)) /\ Once(c)
  BY PartKeeps DEF Inv, Typed
<1>6. /\ chan' \in Chans /\ Once(chan')
      /\ \A x : Holds(chan', x) => x = m \/ Holds(c, x)
  BY <1>1, <1>2, <1>3, <1>5, Sends DEF Inv, Typed
<1>7. job' \in [Tasks -> States]
  BY <1>2, MovesType DEF Inv, Typed
<1>8. /\ fate' \in [Tasks -> SUBSET {"accepted", "rejected", "completed", "failed"}]
      /\ answers' \in [Tasks -> Nat] /\ fate'[t] = {word} /\ answers'[t] = 1
      /\ \A u \in Tasks \ {t} : fate'[u] = fate[u] /\ answers'[u] = answers[u] /\ job'[u] = job[u]
  BY <1>2, <1>4 DEF Inv, Typed, Life
<1>9. Typed'
  BY <1>6, <1>7, <1>8 DEF Inv, Typed
<1>10. Honest(chan', fate')
  <2> SUFFICES ASSUME NEW x \in Message, Holds(chan', x), x.kind \notin {"propose", "malformed"}
               PROVE  StateOf(x.kind) \in fate'[x.task]
    BY DEF Honest
  <2>1. CASE x = m
    BY <1>3, <1>8, <2>1
  <2>2. CASE x # m
    <3>1. StateOf(x.kind) \in fate[x.task] /\ x.task \in Tasks
      BY <1>5, <1>6, <2>2 DEF Inv, Honest, Message
    <3>. QED
      BY <1>8, <3>1
  <2>. QED
    BY <2>1, <2>2
<1>11. \A u \in Tasks \ {t} : Life(u)'
  <2>1. \A u : Holds(chan', Msg("propose", u)) => Holds(chan, Msg("propose", u))
    BY <1>3, <1>5, <1>6
  <2>. QED
    BY <1>8, <2>1, Others
<1>12. Life(t)'
  <2>1. ~Holds(chan', Msg("propose", t))
    BY <1>3, <1>6
  <2>2. \A e \in Daemons : t \in inbox'[e] => e = Executor[t]
    BY DEF Inv, Life
  <2>3. t \notin running /\ job[t] = "none"
    BY DEF Inv, Life
  <2>4. job'[t] = "none" \/ (word = "accepted" /\ job'[t] = "accepted")
    BY <1>2, <1>4, <2>3 DEF Inv, Typed
  <2>. QED
    BY <1>4, <1>8, <2>1, <2>2, <2>3, <2>4 DEF Life, Stage
<1>13. Delegated!DelegationNext
  <2>1. Delegated!Decide(t, word)
    BY <1>2 DEF Delegated!Decide
  <2>. QED
    BY <1>4, <2>1 DEF Delegated!DelegationNext, Delegated!Decisions
<1>. QED
  BY <1>6, <1>9, <1>10, <1>11, <1>12, <1>13 DEF Inv

\* A report or an answer that a job gives, on its way from d.
LEMMA Tells ==
  ASSUME Inv, NEW t \in Tasks, NEW k \in {"completed", "failed"}, Report(t, k)
  PROVE  /\ chan' \in Chans /\ Once(chan')
         /\ \A u : Holds(chan', Msg("propose", u)) => Holds(chan, Msg("propose", u))
         /\ Honest(chan', fate') /\ fate' = [fate EXCEPT ![t] = @ \cup {k}]
<1> DEFINE m == Msg(k, t)
<1>1. /\ Executor[t] \in Daemons /\ m \in Message /\ m.task = t
      /\ m.kind \notin {"propose", "malformed"} /\ StateOf(m.kind) = k
      /\ \A u : m # Msg("propose", u)
  BY RouterAssumption DEF RouterAssumption, Msg, Message, Kind, StateOf
<1>2. chan' = Sent(chan, Executor[t], room[t], m) /\ fate' = [fate EXCEPT ![t] = @ \cup {k}]
  BY DEF Report
<1> HIDE DEF m
<1>3. chan' \in Chans /\ Once(chan') /\ \A x : Holds(chan', x) => x = m \/ Holds(chan, x)
  BY <1>1, <1>2, Sends DEF Inv, Typed
<1>4. Honest(chan', fate')
  <2> SUFFICES ASSUME NEW x \in Message, Holds(chan', x), x.kind \notin {"propose", "malformed"}
               PROVE  StateOf(x.kind) \in fate'[x.task]
    BY DEF Honest
  <2>1. CASE x = m
    BY <1>1, <1>2, <2>1 DEF Inv, Typed
  <2>2. CASE x # m
    <3>1. StateOf(x.kind) \in fate[x.task] /\ x.task \in Tasks
      BY <1>3, <2>2 DEF Inv, Honest, Message
    <3>. QED
      BY <1>2, <3>1 DEF Inv, Typed
  <2>. QED
    BY <2>1, <2>2
<1>. QED
  BY <1>1, <1>2, <1>3, <1>4

\* A step of a job: what it tells, if anything, is an outcome of an accepted task.
LEMMA JobStep ==
  ASSUME Inv, NEW t \in Tasks, StartJob(t) \/ JobNotStarted(t) \/ EndJob(t)
  PROVE  Inv' /\ (Delegated!DelegationNext \/ UNCHANGED <<rec, fate>>)
<1>1. /\ UNCHANGED <<rec, room, inbox, answers, restarts>>
      /\ "accepted" \in fate[t] /\ fate[t] # {}
  BY DEF StartJob, JobNotStarted, EndJob, historyVars, Inv, Life
<1>2. /\ job' \in [Tasks -> States] /\ running' \subseteq Tasks
      /\ \A u \in Tasks \ {t} : job'[u] = job[u] /\ (u \in running' => u \in running)
  <2>1. \E x : Jobs!UpdateState(t, x)
    BY DEF StartJob, JobNotStarted, EndJob
  <2>2. \/ UNCHANGED job
        \/ \E x \in Moves[job[t]] : job' = [job EXCEPT ![t] = x]
    BY <2>1, JobMoves DEF Inv, Typed
  <2>3. job' \in [Tasks -> States] /\ \A u \in Tasks \ {t} : job'[u] = job[u]
    BY <2>2, MovesType DEF Inv, Typed
  <2>4. running' \subseteq Tasks /\ \A u \in Tasks \ {t} : u \in running' => u \in running
    BY DEF StartJob, JobNotStarted, EndJob, Inv, Typed
  <2>. QED
    BY <2>3, <2>4
<1>3. \/ UNCHANGED <<chan, fate>>
      \/ Report(t, "completed") \/ Report(t, "failed")
  BY DEF StartJob, JobNotStarted, EndJob, historyVars, roomVars
<1>4. /\ chan' \in Chans /\ Once(chan') /\ Honest(chan', fate')
      /\ \A u : Holds(chan', Msg("propose", u)) => Holds(chan, Msg("propose", u))
  BY <1>3, Tells DEF Inv, Typed
<1>5. fate' = fate \/ \E k \in {"completed", "failed"} : fate' = [fate EXCEPT ![t] = @ \cup {k}]
  BY <1>3, Tells
<1>6. Typed'
  BY <1>1, <1>2, <1>4, <1>5 DEF Inv, Typed
<1>7. \A u \in Tasks \ {t} : Life(u)'
  <2>1. \A u \in Tasks \ {t} : fate'[u] = fate[u]
    BY <1>5 DEF Inv, Typed
  <2>. QED
    BY <1>1, <1>2, <1>4, <2>1, Others
<1>8. restarts = 0 => Stage(t)'
  <2> SUFFICES ASSUME restarts = 0 PROVE Stage(t)'
    OBVIOUS
  <2>a. Stage(t) /\ job[t] \in States
    BY DEF Inv, Typed, Life
  <2>1. CASE StartJob(t)
    <3>1. job[t] = "accepted" /\ Jobs!UpdateState(t, "executing") /\ UNCHANGED fate
      BY <2>1 DEF StartJob, historyVars
    <3>2. job' = [job EXCEPT ![t] = "executing"]
      BY <3>1, JobMoves, MovesType DEF Inv, Typed
    <3>. QED
      BY <2>a, <3>1, <3>2 DEF Stage, Inv, Typed
  <2>2. CASE JobNotStarted(t)
    <3>1. job[t] = "accepted" /\ Report(t, "failed") /\ UNCHANGED running
      BY <2>2 DEF JobNotStarted
    <3>2. PICK x \in {"failed", "cancelled", "timeout"} : Jobs!UpdateState(t, x)
      BY <2>2 DEF JobNotStarted
    <3>3. job' = [job EXCEPT ![t] = x]
      BY <3>1, <3>2, JobMoves, MovesType DEF Inv, Typed
    <3>4. fate' = [fate EXCEPT ![t] = @ \cup {"failed"}]
      BY <3>1, Tells
    <3>. QED
      BY <2>a, <3>1, <3>3, <3>4 DEF Stage, Inv, Typed
  <2>3. CASE EndJob(t)
    <3>1. t \in running /\ t \notin running'
      BY <2>3 DEF EndJob
    <3>2. "completed" \notin fate[t] /\ "failed" \notin fate[t] /\ job[t] \notin {"none", "accepted"}
      BY <2>a, <3>1 DEF Stage
    <3>3. PICK x \in {"completed", "failed", "timeout"} : Jobs!UpdateState(t, x)
      BY <2>3 DEF EndJob
    <3>4. job'[t] \notin {"none", "accepted"}
      BY <3>2, <3>3, JobMoves DEF Inv, Typed
    <3>5. "completed" \notin fate'[t] \/ "failed" \notin fate'[t]
      BY <1>5, <3>2 DEF Inv, Typed
    <3>. QED
      BY <3>1, <3>4, <3>5 DEF Stage
  <2>. QED
    BY <2>1, <2>2, <2>3
<1>9. Life(t)'
  <2>1. fate'[t] # {} /\ "accepted" \in fate'[t]
    BY <1>1, <1>5 DEF Inv, Typed
  <2>2. Executor[t] \in Daemons
    BY RouterAssumption DEF RouterAssumption
  <2>3. Life(t)
    BY DEF Inv
  <2>. QED
    BY <1>1, <1>4, <1>8, <2>1, <2>2, <2>3 DEF Life
<1>10. Delegated!DelegationNext \/ UNCHANGED <<rec, fate>>
  <2>1. ASSUME NEW k \in {"completed", "failed"}, fate' = [fate EXCEPT ![t] = @ \cup {k}]
        PROVE  Delegated!DelegationNext
    BY <1>1, <2>1 DEF Delegated!DelegationNext, Delegated!End, Delegated!Outcomes
  <2>. QED
    BY <1>1, <1>5, <2>1
<1>. QED
  BY <1>4, <1>6, <1>7, <1>9, <1>10 DEF Inv

\* The user and the timeout checkers give tasks up.
LEMMA GiveUpStep ==
  ASSUME Inv, NEW t \in Tasks, CancelTask(t) \/ TimeoutCheck(t)
  PROVE  Inv' /\ (Delegated!DelegationNext \/ UNCHANGED <<rec, fate>>)
<1>1. UNCHANGED <<room, inbox, running, chan, answers, fate, restarts>>
  BY DEF CancelTask, TimeoutCheck, roomVars, historyVars
<1>2. PICK x \in {"cancelled", "timeout"} :
        \/ rec[t] \in Active /\ Table!UpdateState(t, x) /\ UNCHANGED job
        \/ job[t] \in Active /\ Jobs!UpdateState(t, x) /\ UNCHANGED rec
  BY DEF CancelTask, TimeoutCheck
<1>3. /\ rec' \in [Tasks -> States]
      /\ \A u \in Tasks : rec'[u] = rec[u] \/ rec'[u] \in {"cancelled", "timeout"} \cap Moves[rec[u]]
  BY <1>2, RecMoves, MovesType DEF Inv, Typed
<1>4. /\ job' \in [Tasks -> States]
      /\ \A u \in Tasks : job'[u] = job[u] \/ (job[u] # "none" /\ job'[u] \in {"cancelled", "timeout"})
  BY <1>2, JobMoves, MovesType DEF Inv, Typed, Active, Table!Active
<1>5. Inv'
  <2>1. Typed' /\ Honest(chan', fate') /\ Once(chan')
    BY <1>1, <1>3, <1>4 DEF Inv, Typed
  <2>2. \A u \in Tasks : Life(u)'
    BY <1>1, <1>4 DEF Inv, Life, Stage
  <2>. QED
    BY <2>1, <2>2 DEF Inv
<1>6. Delegated!DelegationNext
  BY <1>1, <1>3, SameTable DEF Delegated!DelegationNext, Delegated!GiveUp
<1>. QED
  BY <1>5, <1>6

LEMMA InboxStep ==
  ASSUME Inv, NEW t \in Tasks, ApproveInbox(t) \/ DenyInbox(t)
  PROVE  Inv' /\ Delegated!DelegationNext
<1> DEFINE d == Executor[t]
<1>1. d \in Daemons
  BY RouterAssumption DEF RouterAssumption
<1>2. /\ t \in inbox[d] /\ inbox' = [inbox EXCEPT ![d] = @ \ {t}]
      /\ AcceptProposal(t, chan) \/ RejectProposal(t, chan)
      /\ UNCHANGED <<rec, room, running, restarts>>
  BY DEF ApproveInbox, DenyInbox
<1> HIDE DEF d
<1>3. /\ inbox' \in [Daemons -> SUBSET Tasks] /\ \A e \in Daemons : inbox'[e] \subseteq inbox[e]
      /\ t \notin inbox'[d]
  BY <1>1, <1>2 DEF Inv, Typed
<1>4. fate[t] = {} /\ room[t] # NoRoom /\ ~Holds(chan, Msg("propose", t))
  BY <1>2 DEF d, Inv, Life
<1>5. chan \in Chans /\ Part(chan, chan)
  <2>1. \A e \in Daemons, q \in Rooms : \A i \in 1 .. Len(chan[e][q]) :
          i + 0 \in 1 .. Len(chan[e][q]) /\ chan[e][q][i] = chan[e][q][i + 0]
    OBVIOUS
  <2>. QED
    BY <2>1 DEF Part, Inv, Typed
<1>. QED
  BY <1>2, <1>3, <1>4, <1>5, Answer DEF d

LEMMA ReceiveStep ==
  ASSUME Inv, NEW d \in Daemons, NEW r \in Rooms, Receive(d, r)
  PROVE  Inv' /\ (Delegated!DelegationNext \/ UNCHANGED <<rec, fate>>)
<1> DEFINE m == Head(chan[d][r])
           c == [chan EXCEPT ![d][r] = Tail(@)]
<1>1. /\ chan[d][r] # <<>> /\ UNCHANGED <<room, running, restarts>>
      /\ \/ chan' = c /\ UNCHANGED <<rec, job, inbox, answers, fate>>
         \/ m.kind = "propose" /\ HandleProposal(m.task, c) /\ UNCHANGED rec
         \/ /\ m.kind \notin {"propose", "malformed"} /\ Table!UpdateState(m.task, StateOf(m.kind))
            /\ chan' = c /\ UNCHANGED <<job, inbox, answers, fate>>
  BY DEF Receive, Ignored, historyVars
<1>2. /\ c \in Chans /\ Part(chan, c) /\ m \in Message /\ Holds(chan, m)
      /\ \A t \in Tasks : m = Msg("propose", t) => ~Holds(c, Msg("propose", t))
  BY <1>1, TailPart DEF Inv, Typed
<1> HIDE DEF m, c
<1>3. CASE chan' = c /\ UNCHANGED <<rec, job, inbox, answers, fate>>
  BY <1>1, <1>2, <1>3, Quiet
<1>4. CASE m.kind = "propose" /\ HandleProposal(m.task, c) /\ UNCHANGED rec
  <2>a. PICK t \in Tasks : t = m.task
    BY <1>2 DEF Message
  <2>1. m = Msg("propose", t) /\ Executor[t] \in Daemons
    BY <1>2, <1>4, <2>a, RouterAssumption DEF Message, Msg, RouterAssumption
  <2>2. /\ fate[t] = {} /\ room[t] # NoRoom /\ t \notin inbox[Executor[t]] /\ ~Holds(c, Msg("propose", t))
    BY <1>2, <2>1 DEF Inv, Life
  <2>3. CASE (AcceptProposal(t, c) \/ RejectProposal(t, c)) /\ UNCHANGED inbox
    <3>1. inbox' \in [Daemons -> SUBSET Tasks] /\ (\A e \in Daemons : inbox'[e] \subseteq inbox[e])
          /\ t \notin inbox'[Executor[t]]
      BY <2>2, <2>3 DEF Inv, Typed
    <3>. QED
      BY <1>1, <1>2, <1>4, <2>1, <2>2, <2>3, <3>1, Answer
  <2>4. CASE /\ inbox' = [inbox EXCEPT ![Executor[t]] = @ \cup {t}]
             /\ chan' = c /\ UNCHANGED <<job, answers, fate>>
    <3>1. (\A x : Holds(chan', x) => Holds(chan, x)) /\ Once(chan')
      BY <1>2, <2>4, PartKeeps DEF Inv, Typed
    <3>2. /\ inbox' \in [Daemons -> SUBSET Tasks]
          /\ \A u \in Tasks \ {t} : \A e \in Daemons : u \in inbox'[e] => u \in inbox[e]
          /\ \A e \in Daemons : t \in inbox'[e] => e = Executor[t]
      BY <2>1, <2>4 DEF Inv, Typed, Life
    <3>3. Typed' /\ Honest(chan', fate')
      BY <1>1, <1>2, <1>4, <2>4, <3>1, <3>2 DEF Inv, Typed, Honest
    <3>4. \A u \in Tasks \ {t} : Life(u)'
      BY <1>1, <2>4, <3>1, <3>2, Others
    <3>5. Life(t)'
      <4>1. ~Holds(chan', Msg("propose", t)) /\ Life(t)
        BY <2>1, <2>2, <2>4 DEF Inv
      <4>. QED
        BY <1>1, <2>1, <2>2, <2>4, <3>2, <4>1 DEF Life, Stage
    <3>6. Inv'
      BY <3>1, <3>3, <3>4, <3>5 DEF Inv
    <3>. QED
      BY <1>4, <2>4, <3>6
  <2>. QED
    BY <1>4, <2>a, <2>3, <2>4 DEF HandleProposal, historyVars
<1>5. CASE /\ m.kind \notin {"propose", "malformed"} /\ Table!UpdateState(m.task, StateOf(m.kind))
           /\ chan' = c /\ UNCHANGED <<job, inbox, answers, fate>>
  <2> DEFINE t == m.task
             x == StateOf(m.kind)
  <2>1. t \in Tasks /\ x \in fate[t]
    BY <1>2, <1>5 DEF Message, Inv, Honest
  <2>2. Table!UpdateState(t, x)
    BY <1>5
  <2> HIDE DEF t, x
  <2>3. \/ x \in Moves[rec[t]] /\ rec' = [rec EXCEPT ![t] = x]
        \/ UNCHANGED rec
    BY <2>1, <2>2, RecMoves DEF Inv, Typed
  <2>4. Delegated!DelegationNext \/ UNCHANGED <<rec, fate>>
    <3>1. CASE UNCHANGED rec
      BY <1>5, <3>1
    <3>2. CASE x \in Moves[rec[t]] /\ rec' = [rec EXCEPT ![t] = x]
      <4>1. Delegated!Learn(t)
        BY <1>5, <2>1, <3>2, SameTable DEF Delegated!Learn
      <4>. QED
        BY <2>1, <4>1 DEF Delegated!DelegationNext
    <3>. QED
      BY <2>3, <3>1, <3>2
  <2>5. rec' \in [Tasks -> States]
    BY <2>1, <2>3, MovesType DEF Inv, Typed
  <2>6. (\A y : Holds(chan', y) => Holds(chan, y)) /\ Once(chan')
    BY <1>2, <1>5, PartKeeps DEF Inv, Typed
  <2>7. Typed' /\ Honest(chan', fate')
    BY <1>1, <1>2, <1>5, <2>5, <2>6 DEF Inv, Typed, Honest
  <2>8. \A u \in Tasks : Life(u)'
    BY <1>1, <1>5, <2>6 DEF Inv, Life, Stage
  <2>. QED
    BY <2>4, <2>6, <2>7, <2>8 DEF Inv
<1>. QED
  BY <1>1, <1>3, <1>4, <1>5

LEMMA ProposeStep ==
  ASSUME Inv, NEW t \in Tasks, NEW r \in Rooms, Propose(t, r)
  PROVE  Inv' /\ Delegated!DelegationNext
<1>1. /\ rec[t] = "none" /\ rec' = [rec EXCEPT ![t] = "pending"] /\ room[t] = NoRoom
      /\ room' = [room EXCEPT ![t] = r]
      /\ UNCHANGED <<job, inbox, running, answers, fate, restarts>>
  BY DEF Propose, Table!Create, historyVars
<1>2. PICK k \in {"propose", "malformed"} : chan' = Sent(chan, Proposer[t], r, Msg(k, t))
  BY DEF Propose
<1> DEFINE m == Msg(k, t)
<1>3. /\ Proposer[t] \in Daemons /\ m \in Message /\ m.kind \in {"propose", "malformed"}
      /\ \A u : m = Msg("propose", u) => u = t
  BY RouterAssumption DEF RouterAssumption, Msg, Message, Kind
<1>4. fate[t] = {} /\ ~Holds(chan, Msg("propose", t)) /\ \A e \in Daemons : t \notin inbox[e]
  BY <1>1 DEF Inv, Life
<1> HIDE DEF m
<1>5. (\E u \in Tasks : m = Msg("propose", u)) => ~Holds(chan, m)
  BY <1>3, <1>4
<1>6. chan' \in Chans /\ Once(chan') /\ \A x : Holds(chan', x) => x = m \/ Holds(chan, x)
  BY <1>2, <1>3, <1>5, Sends DEF Inv, Typed, m
<1>7. Typed'
  BY <1>1, <1>6, MovesType DEF Inv, Typed
<1>8. Honest(chan', fate')
  BY <1>1, <1>3, <1>6 DEF Inv, Honest
<1>9. \A u \in Tasks \ {t} : Life(u)'
  <2>1. \A u \in Tasks \ {t} : room'[u] = room[u] /\ (Holds(chan', Msg("propose", u)) => Holds(chan, Msg("propose", u)))
    BY <1>1, <1>3, <1>6 DEF Inv, Typed
  <2>. QED
    BY <1>1, <2>1, Others
<1>10. Life(t)'
  <2>1. room'[t] # NoRoom /\ Executor[t] \in Daemons
    BY <1>1, RouterAssumption DEF RouterAssumption, Inv, Typed
  <2>. QED
    BY <1>1, <1>4, <2>1 DEF Inv, Life, Stage
<1>11. Delegated!DelegationNext
  BY <1>1 DEF Delegated!DelegationNext, Delegated!Ask
<1>. QED
  BY <1>6, <1>7, <1>8, <1>9, <1>10, <1>11 DEF Inv

LEMMA RoomStep ==
  ASSUME Inv, NEW d \in Daemons, \/ \E r \in Rooms : OpenRoom(d, r)
                                \/ \E R \in SUBSET Rooms : LoseRooms(d, R)
  PROVE  Inv' /\ UNCHANGED <<rec, fate>>
<1>1. UNCHANGED <<rec, job, room, inbox, running, answers, fate, restarts>>
  BY DEF OpenRoom, LoseRooms, historyVars
<1>2. CASE UNCHANGED chan
  <2>1. \A e \in Daemons, q \in Rooms : \A i \in 1 .. Len(chan[e][q]) :
          i + 0 \in 1 .. Len(chan[e][q]) /\ chan[e][q][i] = chan[e][q][i + 0]
    OBVIOUS
  <2>2. Part(chan, chan') /\ chan' \in Chans
    BY <1>2, <2>1 DEF Part, Inv, Typed
  <2>. QED
    BY <1>1, <2>2, Quiet
<1>3. ASSUME NEW R \in SUBSET Rooms, Cut(d, R) PROVE Inv'
  BY <1>1, <1>3, CutPart, Quiet DEF Inv, Typed
<1>. QED
  BY <1>1, <1>2, <1>3 DEF OpenRoom, LoseRooms

LEMMA RestartStep ==
  ASSUME Inv, NEW d \in Daemons, Restart(d)
  PROVE  Inv' /\ Delegated!DelegationNext
<1>1. /\ restarts' = restarts + 1 /\ inbox' = [inbox EXCEPT ![d] = {}] /\ running' \subseteq running
      /\ Cut(d, Rooms) /\ UNCHANGED <<room, answers, fate>>
  BY DEF Restart, historyVars
<1>2. /\ rec' \in [Tasks -> States] /\ job' \in [Tasks -> States]
      /\ \A t \in Tasks : rec'[t] = rec[t] \/ Delegated!LeadsTo(rec'[t], rec[t])
      /\ \A t \in Tasks : job'[t] = job[t] \/ Delegated!LeadsTo(job'[t], job[t])
  BY DEF Restart, States
<1>3. \A t \in Tasks : job'[t] # "none" => job[t] # "none"
  BY <1>2, Leads DEF Inv, Typed
<1>4. chan' \in Chans /\ Once(chan') /\ \A m : Holds(chan', m) => Holds(chan, m)
  BY <1>1, CutPart, PartKeeps DEF Inv, Typed
<1>5. inbox' \in [Daemons -> SUBSET Tasks] /\ \A e \in Daemons : inbox'[e] \subseteq inbox[e]
  BY <1>1 DEF Inv, Typed
<1>6. Typed' /\ Honest(chan', fate')
  BY <1>1, <1>2, <1>4, <1>5 DEF Inv, Typed, Honest
<1>7. \A t \in Tasks : Life(t)'
  <2> SUFFICES ASSUME NEW t \in Tasks PROVE Life(t)'
    OBVIOUS
  <2>1. Life(t) /\ Executor[t] \in Daemons /\ restarts' # 0
    BY <1>1, RouterAssumption DEF RouterAssumption, Inv, Typed
  <2>. QED
    BY <1>1, <1>3, <1>4, <1>5, <2>1 DEF Life
<1>8. Delegated!DelegationNext
  <2>1. \A t \in Tasks : Delegated!LeadsTo(rec'[t], rec[t])
    BY <1>2 DEF Delegated!LeadsTo
  <2>. QED
    BY <1>1, <1>2, <2>1, SameTable DEF Delegated!DelegationNext, Delegated!Forget
<1>. QED
  BY <1>4, <1>6, <1>7, <1>8 DEF Inv

-----------------------------------------------------------------------------
(* The theorems.                                                           *)

LEMMA InvInit == Init => Inv /\ Delegated!DelegationInit
<1> SUFFICES ASSUME Init PROVE Inv /\ Delegated!DelegationInit
  OBVIOUS
<1>1. \A e \in Daemons, q \in Rooms : chan[e][q] = <<>>
  BY DEF Init
<1>2. \A m : ~Holds(chan, m)
  BY <1>1 DEF Holds
<1>3. Honest(chan, fate) /\ Once(chan)
  BY <1>1, <1>2 DEF Honest, Once
<1>4. Typed
  BY MovesType, RouterAssumption DEF Init, Typed, Chans
<1>5. \A t \in Tasks : Life(t)
  <2>1. \A t \in Tasks : Executor[t] \in Daemons
    BY RouterAssumption DEF RouterAssumption
  <2>. QED
    BY <1>2, <2>1 DEF Init, Life, Stage
<1>6. Delegated!DelegationInit
  BY DEF Init, Delegated!DelegationInit
<1>. QED
  BY <1>3, <1>4, <1>5, <1>6 DEF Inv

LEMMA InvStep ==
  ASSUME Inv, [Next]_vars
  PROVE  Inv' /\ [Delegated!DelegationNext]_<<rec, fate>>
<1>1. CASE UNCHANGED vars
  BY <1>1 DEF vars, roomVars, historyVars, Inv, Typed, Life, Stage
<1>2. CASE Next
  BY <1>2, ReceiveStep, RoomStep, RestartStep, ProposeStep, InboxStep, GiveUpStep, JobStep DEF Next
<1>. QED
  BY <1>1, <1>2

\* The proposer's record says of a task only what the executor did of it (router.ts
\* handleProposal, handleData and tasks.handleResponse together), whatever the relay
\* loses and whoever restarts.
THEOREM Promise == Spec => Delegates
<1>1. Init => Inv /\ Delegated!DelegationInit
  BY InvInit
<1>2. Inv /\ [Next]_vars => Inv' /\ [Delegated!DelegationNext]_<<rec, fate>>
  BY InvStep
<1>. QED
  BY <1>1, <1>2, PTL DEF Spec, Delegates, Delegated!DelegationSpec

\* A proposal is answered once (router.ts handleProposal, acceptInbox, denyInbox), and its
\* task has one outcome unless its executor was restarted.
THEOREM OneAnswer == Spec => []AnsweredOnce
<1>1. Init => Inv
  BY InvInit
<1>2. Inv /\ [Next]_vars => Inv'
  BY InvStep
<1>3. Inv => AnsweredOnce
  <2> SUFFICES ASSUME Inv, NEW t \in Tasks
               PROVE  /\ answers[t] <= IF \E d \in Daemons : t \in inbox[d] THEN 0 ELSE 1
                      /\ Cardinality(fate[t] \cap Delegated!Outcomes) <= 1 + restarts
    BY DEF AnsweredOnce
  <2>1. Life(t) /\ restarts \in Nat
    BY DEF Inv, Typed
  <2>2. answers[t] <= IF \E d \in Daemons : t \in inbox[d] THEN 0 ELSE 1
    BY <2>1 DEF Life
  <2> DEFINE out == fate[t] \cap Delegated!Outcomes
  <2>3. out \subseteq {"completed", "failed"} /\ out = fate[t] \cap {"completed", "failed"}
    BY DEF Delegated!Outcomes
  <2>4. IsFiniteSet({"completed", "failed"}) /\ Cardinality({"completed", "failed"}) = 2
    <3>1. /\ IsFiniteSet({"failed"}) /\ Cardinality({"failed"}) = 1
          /\ {"failed"} \cup {"completed"} = {"completed", "failed"}
      BY FS_Singleton
    <3>. QED
      BY <3>1, FS_AddElement
  <2>5. Cardinality(out) <= 2
    BY <2>3, <2>4, FS_Subset
  <2>6. restarts = 0 => Cardinality(out) <= 1
    <3>1. restarts = 0 => out \in {{}, {"completed"}, {"failed"}}
      BY <2>1, <2>3 DEF Life, Stage
    <3> HIDE DEF out
    <3>2. /\ Cardinality({}) = 0 /\ Cardinality({"completed"}) = 1
          /\ Cardinality({"failed"}) = 1
      BY FS_EmptySet, FS_Singleton, Zenon
    <3>. QED
      BY <3>1, <3>2
  <2>7. Cardinality(out) \in Nat
    BY <2>3, <2>4, FS_Subset, FS_CardinalityType
  <2> HIDE DEF out
  <2>8. Cardinality(out) <= 1 + restarts
    BY <2>1, <2>5, <2>6, <2>7
  <2>. QED
    BY <2>2, <2>8 DEF out
<1>. QED
  BY <1>1, <1>2, <1>3, PTL DEF Spec

-----------------------------------------------------------------------------
(* Reports and what they end.                                              *)

Ended == {"completed", "failed", "rejected", "cancelled", "timeout"}
Ready == {"accepted"} \cup Ended

Reports(t) == {Msg("completed", t), Msg("failed", t)}

\* What is on its way to a record in state v about t, when the executor has done f: a
\* report comes after an accept, unless the accept is there already, and what the
\* executor has told is on its way or there.
Good(s, v, f, t) ==
  /\ v \in {"pending"} \cup Ready
  /\ \A i \in 1 .. Len(s) : s[i] \in Reports(t) =>
       v \in Ready \/ \E j \in 1 .. Len(s) : j < i /\ s[j] = Msg("accept", t)
  /\ "accepted" \in f => v \in Ready \/ \E i \in 1 .. Len(s) : s[i] = Msg("accept", t)
  /\ f \cap {"completed", "failed"} # {} =>
       v \in Ended \/ \E i \in 1 .. Len(s) : s[i] \in Reports(t)

\* Nobody has restarted or lost t's room.
Intact(t) == restarts = 0 /\ room[t] \in Rooms /\ \A e \in Daemons : known[e][room[t]] # "gone"

GoodIn(c, t) == Intact(t) /\ Proposer[t] \notin skewed =>
                  Good(c[Proposer[t]][room[t]], rec[t], fate[t], t)

\* A proposal is on its way to its executor only, in the room of its record.
Placed(c, where) ==
  \A t \in Tasks : \A e \in Daemons, q \in Rooms : \A i \in 1 .. Len(c[e][q]) :
    c[e][q][i] = Msg("propose", t) => e = Executor[t] /\ q = where[t]

\* An executor that has the proposal has the room.
Linked(t) == Intact(t) /\ (fate[t] # {} \/ \E e \in Daemons : t \in inbox[e]) =>
               known[Executor[t]][room[t]] = "open"

InOrder == /\ known \in [Daemons -> [Rooms -> {"new", "open", "gone"}]]
           /\ Placed(chan, room) /\ \A t \in Tasks : Linked(t) /\ GoodIn(chan, t)

LEMMA Partners ==
  ASSUME NEW d \in Daemons, NEW e \in Daemons, d # e
  PROVE  Peer(d) = e
<1>1. IsFiniteSet({d, e}) /\ Cardinality({d, e}) = 2
  <2>1. IsFiniteSet({d}) /\ Cardinality({d}) = 1 /\ {d} \cup {e} = {d, e}
    BY FS_Singleton
  <2>. QED
    BY <2>1, FS_AddElement
<1>2. {d, e} = Daemons
  BY <1>1, FS_Subset, RouterAssumption DEF RouterAssumption
<1>. QED
  BY <1>2, PeerOf

\* A record that goes on.
LEMMA GoodOn ==
  ASSUME NEW s, NEW v, NEW w, NEW f, NEW t, Good(s, v, f, t),
         w \in {"pending"} \cup Ready, v \in Ready => w \in Ready, v \in Ended => w \in Ended
  PROVE  Good(s, w, f, t)
BY DEF Good

\* A message more, and what the executor has told with it.
LEMMA GoodAppend ==
  ASSUME NEW s \in Seq(Message), NEW m \in Message, NEW v, NEW f, NEW g, NEW t \in Tasks,
         Good(s, v, f, t),
         m \in Reports(t) => "accepted" \in f,
         "accepted" \in g => "accepted" \in f \/ m = Msg("accept", t),
         g \cap {"completed", "failed"} # {} => f \cap {"completed", "failed"} # {} \/ m \in Reports(t)
  PROVE  Good(Append(s, m), v, g, t)
<1> DEFINE z == Append(s, m)
           n == Len(s)
<1>1. /\ n \in Nat /\ Len(z) = n + 1 /\ z[n + 1] = m
      /\ \A i \in 1 .. n : z[i] = s[i]
  BY AppendProperties
<1> HIDE DEF z, n
<1>2. /\ \A i \in 1 .. n : i \in 1 .. Len(z) /\ i < n + 1
      /\ n + 1 \in 1 .. Len(z) /\ \A i \in 1 .. Len(z) : i \in 1 .. n \/ i = n + 1
  BY <1>1
<1>3. "accepted" \in f => v \in Ready \/ \E j \in 1 .. Len(z) : j < n + 1 /\ z[j] = Msg("accept", t)
  BY <1>1, <1>2 DEF Good, n
<1>4. ASSUME NEW i \in 1 .. Len(z), z[i] \in Reports(t), v \notin Ready
      PROVE  \E j \in 1 .. Len(z) : j < i /\ z[j] = Msg("accept", t)
  <2>1. CASE i \in 1 .. n
    <3>1. s[i] \in Reports(t)
      BY <1>1, <1>4, <2>1
    <3>2. PICK j \in 1 .. n : j < i /\ s[j] = Msg("accept", t)
      BY <1>4, <2>1, <3>1 DEF Good, n
    <3>. QED
      BY <1>1, <1>2, <3>2
  <2>2. CASE i = n + 1
    BY <1>1, <1>3, <1>4, <2>2
  <2>. QED
    BY <1>2, <2>1, <2>2
<1>5. "accepted" \in g => v \in Ready \/ \E i \in 1 .. Len(z) : z[i] = Msg("accept", t)
  BY <1>1, <1>2, <1>3
<1>6. g \cap {"completed", "failed"} # {} => v \in Ended \/ \E i \in 1 .. Len(z) : z[i] \in Reports(t)
  <2>1. (\E i \in 1 .. n : s[i] \in Reports(t)) => \E i \in 1 .. Len(z) : z[i] \in Reports(t)
    BY <1>1, <1>2
  <2>2. m \in Reports(t) => \E i \in 1 .. Len(z) : z[i] \in Reports(t)
    BY <1>1, <1>2
  <2>. QED
    BY <2>1, <2>2 DEF Good, n
<1>7. v \in {"pending"} \cup Ready
  BY DEF Good
<1>. QED
  BY <1>4, <1>5, <1>6, <1>7 DEF Good, z

\* The first message leaves, and the record goes on by it.
LEMMA GoodTail ==
  ASSUME NEW s \in Seq(Message), s # <<>>, NEW v, NEW w, NEW f, NEW t \in Tasks,
         Good(s, v, f, t),
         w \in {"pending"} \cup Ready, v \in Ready => w \in Ready, v \in Ended => w \in Ended,
         Head(s) = Msg("accept", t) => w \in Ready,
         Head(s) \in Reports(t) /\ v \in Ready => w \in Ended
  PROVE  Good(Tail(s), w, f, t)
<1> DEFINE z == Tail(s)
           n == Len(z)
<1>1. /\ n \in Nat /\ Len(s) = n + 1 /\ s[1] = Head(s)
      /\ \A i \in 1 .. n : z[i] = s[i + 1]
  BY HeadTailProperties
<1> HIDE DEF z, n
<1>2. /\ 1 \in 1 .. Len(s) /\ \A j \in 1 .. Len(s) : ~(j < 1)
      /\ \A i \in 1 .. n : i + 1 \in 1 .. Len(s)
      /\ \A i \in 1 .. Len(s) : i = 1 \/ (i - 1 \in 1 .. n /\ (i - 1) + 1 = i)
      /\ \A i \in 1 .. n : \A j \in 1 .. Len(s) : j < i + 1 => j - 1 < i
  BY <1>1
\* What is anywhere in s is its head or in its tail.
<1>3. \A i \in 1 .. Len(s) : s[i] = Head(s) \/ \E j \in 1 .. n : j + 1 = i /\ z[j] = s[i]
  BY <1>1, <1>2
<1>4. Head(s) \in Reports(t) => w \in Ended
  BY <1>1, <1>2 DEF Good
<1>5. ASSUME NEW i \in 1 .. n, z[i] \in Reports(t), w \notin Ready
      PROVE  \E j \in 1 .. n : j < i /\ z[j] = Msg("accept", t)
  <2>1. i + 1 \in 1 .. Len(s) /\ s[i + 1] \in Reports(t) /\ v \notin Ready
    BY <1>1, <1>2, <1>5
  <2>2. PICK j \in 1 .. Len(s) : j < i + 1 /\ s[j] = Msg("accept", t)
    BY <2>1 DEF Good
  <2>3. j # 1
    BY <1>1, <1>5, <2>2
  <2>4. j - 1 \in 1 .. n /\ (j - 1) + 1 = j /\ j - 1 < i
    BY <1>2, <2>2, <2>3
  <2>5. z[j - 1] = Msg("accept", t)
    BY <1>1, <2>2, <2>4
  <2>. QED
    BY <2>4, <2>5
<1>6. "accepted" \in f => w \in Ready \/ \E i \in 1 .. n : z[i] = Msg("accept", t)
  BY <1>3 DEF Good
<1>7. f \cap {"completed", "failed"} # {} => w \in Ended \/ \E i \in 1 .. n : z[i] \in Reports(t)
  BY <1>3, <1>4 DEF Good
<1>. QED
  BY <1>5, <1>6, <1>7 DEF Good, z, n

\* The channels after a message is sent by the executor of t, or by whoever.
LEMMA WaySent ==
  ASSUME NEW c \in Chans, NEW d \in Daemons, NEW r, NEW m \in Message,
         NEW e \in Daemons, NEW q \in Rooms
  PROVE  /\ c[e][q] \in Seq(Message)
         /\ Sent(c, d, r, m)[e][q] \in {c[e][q], Append(c[e][q], m)}
         /\ ~(e = Peer(d) /\ q = r) => Sent(c, d, r, m)[e][q] = c[e][q]
         /\ e = Peer(d) /\ q = r /\ known[d][r] = "open" /\ known[Peer(d)][r] # "gone"
              => Sent(c, d, r, m)[e][q] = Append(c[e][q], m)
<1>2. c[e][q] \in Seq(Message)
  BY DEF Chans
<1>3. \A x, y : [c EXCEPT ![x][y] = Append(@, m)][e][q] =
                  IF e = x /\ q = y THEN Append(c[e][q], m) ELSE c[e][q]
  BY DEF Chans
<1>4. CASE known[d][r] = "open" /\ known[Peer(d)][r] # "gone"
  <2>1. Sent(c, d, r, m) = [c EXCEPT ![Peer(d)][r] = Append(@, m)]
    BY <1>4 DEF Sent
  <2>2. Sent(c, d, r, m)[e][q] = IF e = Peer(d) /\ q = r THEN Append(c[e][q], m) ELSE c[e][q]
    BY <1>3, <2>1
  <2>. QED
    BY <1>2, <2>2
<1>5. CASE ~(known[d][r] = "open" /\ known[Peer(d)][r] # "gone")
  <2>1. Sent(c, d, r, m) = c
    BY <1>5 DEF Sent
  <2>. QED
    BY <1>2, <1>5, <2>1
<1>. QED
  BY <1>4, <1>5

\* What one task's executor or proposer sends is nothing to the order of another's.
LEMMA OrderSent ==
  ASSUME NEW c \in Chans, NEW d \in Daemons, NEW r, NEW m \in Message, NEW t \in Tasks,
         GoodIn(c, t), m.task # t \/ m.kind \in {"propose", "malformed", "reject"},
         UNCHANGED <<rec, room, known, skewed, restarts>>,
         chan' = Sent(c, d, r, m),
         "accepted" \in fate'[t] => "accepted" \in fate[t],
         fate'[t] \cap {"completed", "failed"} \subseteq fate[t]
  PROVE  GoodIn(chan, t)'
<1>. SUFFICES ASSUME Intact(t), Proposer[t] \notin skewed
              PROVE  Good(chan'[Proposer[t]][room[t]], rec[t], fate'[t], t)
  BY DEF GoodIn, Intact
<1> DEFINE w == c[Proposer[t]][room[t]]
<1>1. Proposer[t] \in Daemons /\ room[t] \in Rooms
  BY RouterAssumption DEF RouterAssumption, Intact
<1>2. w \in Seq(Message) /\ chan'[Proposer[t]][room[t]] \in {w, Append(w, m)}
  BY <1>1, WaySent
<1>3. Good(w, rec[t], fate[t], t)
  BY DEF GoodIn
<1>4. m \notin Reports(t) /\ m # Msg("accept", t)
  BY DEF Reports, Msg
<1> HIDE DEF w
<1>5. Good(w, rec[t], fate'[t], t)
  BY <1>3 DEF Good
<1>6. Good(Append(w, m), rec[t], fate'[t], t)
  BY <1>2, <1>3, <1>4, GoodAppend
<1>. QED
  BY <1>2, <1>5, <1>6

\* What its own executor tells of t gets on its way, as long as the room is there.
LEMMA OrderTold ==
  ASSUME NEW c \in Chans, NEW t \in Tasks, NEW k \in {"accept", "completed", "failed"},
         GoodIn(c, t), UNCHANGED <<rec, room, known, skewed, restarts>>,
         chan' = Sent(c, Executor[t], room[t], Msg(k, t)),
         Intact(t) => known[Executor[t]][room[t]] = "open",
         k # "accept" => "accepted" \in fate[t],
         "accepted" \in fate'[t] => "accepted" \in fate[t] \/ k = "accept",
         k = "accept" => fate'[t] \cap {"completed", "failed"} \subseteq fate[t]
  PROVE  GoodIn(chan, t)'
<1>. SUFFICES ASSUME Intact(t), Proposer[t] \notin skewed
              PROVE  Good(chan'[Proposer[t]][room[t]], rec[t], fate'[t], t)
  BY DEF GoodIn, Intact
<1> DEFINE w == c[Proposer[t]][room[t]]
           m == Msg(k, t)
<1>1. /\ Proposer[t] \in Daemons /\ Executor[t] \in Daemons /\ room[t] \in Rooms
      /\ Proposer[t] # Executor[t]
  BY RouterAssumption DEF RouterAssumption, Intact
<1>2. Peer(Executor[t]) = Proposer[t]
  BY <1>1, Partners
<1>3. m \in Message /\ (k = "accept" => m = Msg("accept", t)) /\ (k # "accept" => m \in Reports(t))
      /\ (m \in Reports(t) => k # "accept")
  BY DEF Msg, Message, Kind, Reports
<1>4. known[Proposer[t]][room[t]] # "gone" /\ known[Executor[t]][room[t]] = "open"
  BY <1>1 DEF Intact
<1>5. w \in Seq(Message) /\ chan'[Proposer[t]][room[t]] = Append(w, m)
  BY <1>1, <1>2, <1>3, <1>4, WaySent
<1>6. Good(w, rec[t], fate[t], t)
  BY DEF GoodIn
<1> HIDE DEF w, m
<1>7. Good(Append(w, m), rec[t], fate'[t], t)
  <2>1. "accepted" \in fate'[t] => "accepted" \in fate[t] \/ m = Msg("accept", t)
    BY <1>3
  <2>2. fate'[t] \cap {"completed", "failed"} # {} =>
          fate[t] \cap {"completed", "failed"} # {} \/ m \in Reports(t)
    BY <1>3
  <2>. QED
    BY <1>3, <1>5, <1>6, <2>1, <2>2, GoodAppend
<1>. QED
  BY <1>5, <1>7

\* The answer to a proposal, which its executor has had.
LEMMA OrderAnswer ==
  ASSUME Inv, NEW c \in Chans, NEW t \in Tasks, AcceptProposal(t, c) \/ RejectProposal(t, c),
         fate[t] = {}, Intact(t) => known[Executor[t]][room[t]] = "open",
         \A u \in Tasks : Linked(u) /\ GoodIn(c, u),
         \A e \in Daemons : inbox'[e] \subseteq inbox[e],
         UNCHANGED <<rec, room, known, skewed, restarts>>
  PROVE  \A u \in Tasks : Linked(u)' /\ GoodIn(chan, u)'
<1>. TAKE u \in Tasks
<1>1. /\ Executor[t] \in Daemons
      /\ \A k \in {"accept", "reject"} : Msg(k, t) \in Message
      /\ \A k : Msg(k, t).task = t /\ Msg(k, t).kind = k
  BY RouterAssumption DEF RouterAssumption, Msg, Message, Kind
<1>2. /\ \E x \in {"accepted", "rejected"} : fate' = [fate EXCEPT ![t] = {x}]
      /\ \/ chan' = Sent(c, Executor[t], room[t], Msg("accept", t))
         \/ /\ chan' = Sent(c, Executor[t], room[t], Msg("reject", t))
            /\ fate' = [fate EXCEPT ![t] = {"rejected"}]
  BY DEF AcceptProposal, RejectProposal, Inv, Typed
<1>3. /\ u # t => fate'[u] = fate[u]
      /\ fate'[t] \in {{"accepted"}, {"rejected"}}
  BY <1>2 DEF Inv, Typed
<1>4. Linked(u)'
  BY <1>3 DEF Linked, Intact
<1>5. CASE u # t
  BY <1>1, <1>2, <1>3, <1>4, <1>5, OrderSent
<1>6. CASE u = t /\ chan' = Sent(c, Executor[t], room[t], Msg("accept", t))
  <2>1. fate'[t] \cap {"completed", "failed"} \subseteq fate[t]
    BY <1>3
  <2>. QED
    BY <1>4, <1>6, <2>1, OrderTold
<1>7. CASE /\ u = t /\ chan' = Sent(c, Executor[t], room[t], Msg("reject", t))
           /\ fate' = [fate EXCEPT ![t] = {"rejected"}]
  <2>1. fate'[t] = {"rejected"}
    BY <1>7 DEF Inv, Typed
  <2>2. "accepted" \notin fate'[t] /\ fate'[t] \cap {"completed", "failed"} \subseteq fate[t]
    BY <2>1
  <2>. QED
    BY <1>1, <1>4, <1>7, <2>2, OrderSent
<1>. QED
  BY <1>2, <1>5, <1>6, <1>7

\* How the records go on.
LEMMA RecordsGo ==
  ASSUME Inv, NEW t \in Tasks,
         NEW x \in {"accepted", "rejected", "completed", "failed", "cancelled", "timeout"},
         Table!UpdateState(t, x)
  PROVE  \A u \in Tasks : rec[u] \in {"pending"} \cup Ready =>
           /\ rec'[u] \in {"pending"} \cup Ready
           /\ rec[u] \in Ready => rec'[u] \in Ready
           /\ rec[u] \in Ended => rec'[u] \in Ended
           /\ u = t /\ x = "accepted" => rec'[u] \in Ready
           /\ u = t /\ x \in {"completed", "failed"} /\ rec[u] \in Ready => rec'[u] \in Ended
<1>1. /\ Moves["pending"] = {"accepted", "rejected", "cancelled", "timeout"}
      /\ Moves["accepted"] = {"executing", "completed", "failed", "cancelled", "timeout"}
      /\ \A v \in Ended : Moves[v] = {}
  BY DEF Moves, Ended, Table!TaskState, Table!TRANSITIONS, Table!Active, Table!Terminal
<1>2. \A u \in Tasks : rec'[u] = IF u = t /\ x \in Moves[rec[t]] THEN x ELSE rec[u]
  BY DEF Inv, Typed, Table!UpdateState, Table!CanMove, Moves
<1>. QED
  BY <1>1, <1>2 DEF Ready, Ended

LEMMA PlacedPart ==
  ASSUME NEW c, NEW c2, NEW where, Placed(c, where), Part(c, c2)
  PROVE  Placed(c2, where)
<1>. SUFFICES ASSUME NEW t \in Tasks, NEW e \in Daemons, NEW q \in Rooms,
                     NEW i \in 1 .. Len(c2[e][q]), c2[e][q][i] = Msg("propose", t)
              PROVE  e = Executor[t] /\ q = where[t]
  BY DEF Placed
<1>1. PICK n \in Nat : i + n \in 1 .. Len(c[e][q]) /\ c2[e][q][i] = c[e][q][i + n]
  BY DEF Part
<1>. QED
  BY <1>1 DEF Placed

LEMMA PlacedSent ==
  ASSUME NEW c \in Chans, NEW d \in Daemons, NEW r, NEW m \in Message, NEW where,
         Placed(c, where),
         \A u \in Tasks : m = Msg("propose", u) => d = Proposer[u] /\ r = where[u]
  PROVE  Placed(Sent(c, d, r, m), where)
<1> DEFINE s == Sent(c, d, r, m)
<1>. SUFFICES ASSUME NEW t \in Tasks, NEW e \in Daemons, NEW q \in Rooms,
                     NEW i \in 1 .. Len(s[e][q]), s[e][q][i] = Msg("propose", t)
              PROVE  e = Executor[t] /\ q = where[t]
  BY DEF Placed
<1>1. c[e][q] \in Seq(Message) /\ \/ s[e][q] = c[e][q]
                                  \/ e = Peer(d) /\ q = r /\ s[e][q] = Append(c[e][q], m)
  BY WaySent
<1> HIDE DEF s
<1>2. CASE s[e][q] = c[e][q]
  BY <1>2 DEF Placed
<1>3. CASE e = Peer(d) /\ q = r /\ s[e][q] = Append(c[e][q], m)
  <2>1. \/ i \in 1 .. Len(c[e][q]) /\ s[e][q][i] = c[e][q][i]
        \/ s[e][q][i] = m
    <3>1. /\ Len(c[e][q]) \in Nat /\ Len(s[e][q]) = Len(c[e][q]) + 1
          /\ \A j \in 1 .. Len(c[e][q]) : s[e][q][j] = c[e][q][j]
          /\ s[e][q][Len(c[e][q]) + 1] = m
      BY <1>1, <1>3, AppendProperties
    <3>2. i \in 1 .. Len(c[e][q]) \/ i = Len(c[e][q]) + 1
      BY <3>1
    <3>. QED
      BY <3>1, <3>2
  <2>2. CASE s[e][q][i] = m
    <3>1. d = Proposer[t] /\ r = where[t]
      BY <2>2
    <3>2. Peer(d) = Executor[t]
      BY <3>1, Partners, RouterAssumption DEF RouterAssumption
    <3>. QED
      BY <1>3, <3>1, <3>2
  <2>. QED
    BY <2>1, <2>2 DEF Placed
<1>. QED
  BY <1>1, <1>2, <1>3

\* The first message of a channel is handled.
LEMMA OrderTaken ==
  ASSUME chan \in Chans, NEW d \in Daemons, NEW r \in Rooms, chan[d][r] # <<>>, NEW u \in Tasks,
         GoodIn(chan, u), Intact(u), Proposer[u] \notin skewed, NEW w,
         rec[u] \in {"pending"} \cup Ready => w \in {"pending"} \cup Ready,
         rec[u] \in Ready => w \in Ready, rec[u] \in Ended => w \in Ended,
         d \notin skewed /\ rec[u] \in {"pending"} \cup Ready /\ Head(chan[d][r]) = Msg("accept", u)
           => w \in Ready,
         d \notin skewed /\ rec[u] \in Ready /\ Head(chan[d][r]) \in Reports(u) => w \in Ended
  PROVE  Good([chan EXCEPT ![d][r] = Tail(@)][Proposer[u]][room[u]], w, fate[u], u)
<1>1. Proposer[u] \in Daemons /\ room[u] \in Rooms
  BY RouterAssumption DEF RouterAssumption, Intact
<1>2. /\ chan[d][r] \in Seq(Message)
      /\ [chan EXCEPT ![d][r] = Tail(@)][Proposer[u]][room[u]] =
           IF Proposer[u] = d /\ room[u] = r THEN Tail(chan[d][r]) ELSE chan[Proposer[u]][room[u]]
  BY <1>1 DEF Chans
<1>3. /\ Good(chan[Proposer[u]][room[u]], rec[u], fate[u], u)
      /\ rec[u] \in {"pending"} \cup Ready
  BY DEF GoodIn, Good
<1>4. CASE Proposer[u] = d /\ room[u] = r
  BY <1>2, <1>3, <1>4, GoodTail
<1>5. CASE ~(Proposer[u] = d /\ room[u] = r)
  BY <1>2, <1>3, <1>5, GoodOn
<1>. QED
  BY <1>4, <1>5

LEMMA OrderReceive ==
  ASSUME Inv, InOrder, NEW d \in Daemons, NEW r \in Rooms, Receive(d, r)
  PROVE  InOrder'
<1> DEFINE m == Head(chan[d][r])
           c == [chan EXCEPT ![d][r] = Tail(@)]
<1>1. /\ chan \in Chans /\ chan[d][r] # <<>> /\ known[d][r] = "open"
      /\ UNCHANGED <<room, running, known, skewed, restarts>>
  BY DEF Receive, Inv, Typed
<1>2. /\ c \in Chans /\ Part(chan, c) /\ m \in Message /\ Holds(chan, m)
      /\ m.task \in Tasks
  BY <1>1, TailPart DEF Message
<1>3. Placed(c, room)
  BY <1>2, PlacedPart DEF InOrder
<1>4. \A u \in Tasks : Linked(u) /\ GoodIn(chan, u)
  BY DEF InOrder
<1>5. \A u \in Tasks : Intact(u)' <=> Intact(u)
  BY <1>1 DEF Intact
<1>6. CASE Ignored(d, m) /\ chan' = c /\ UNCHANGED <<rec, job, inbox, answers, fate>>
  <2>1. ASSUME NEW u \in Tasks PROVE GoodIn(c, u)
    <3>1. d \notin skewed => m # Msg("accept", u) /\ m \notin Reports(u)
      BY <1>6 DEF Ignored, Msg, Reports
    <3> HIDE DEF c
    <3>2. Intact(u) /\ Proposer[u] \notin skewed => Good(c[Proposer[u]][room[u]], rec[u], fate[u], u)
      BY <1>1, <1>4, <3>1, OrderTaken DEF c
    <3>. QED
      BY <3>2 DEF GoodIn
  <2>2. \A u \in Tasks : GoodIn(chan, u)' /\ Linked(u)'
    BY <1>1, <1>4, <1>5, <1>6, <2>1 DEF GoodIn, Linked
  <2>. QED
    BY <1>1, <1>3, <1>6, <2>2 DEF InOrder
<1>7. CASE ~Ignored(d, m) /\ m.kind = "propose" /\ HandleProposal(m.task, c) /\ UNCHANGED rec
  <2>1. PICK t \in Tasks : t = m.task
    BY <1>2
  <2>2. m = Msg("propose", t) /\ Executor[t] \in Daemons
    BY <1>2, <1>7, <2>1, RouterAssumption DEF Message, Msg, RouterAssumption
  <2>3. fate[t] = {}
    BY <1>2, <2>2 DEF Inv, Life
  <2>4. d = Executor[t] /\ r = room[t]
    <3>1. Len(chan[d][r]) \in Nat /\ Len(chan[d][r]) >= 1 /\ m = chan[d][r][1]
      BY <1>1, HeadTailProperties DEF Chans
    <3>2. 1 \in 1 .. Len(chan[d][r])
      BY <3>1
    <3> HIDE DEF m
    <3>. QED
      BY <2>2, <3>1, <3>2 DEF InOrder, Placed
  <2>5. ASSUME NEW u \in Tasks PROVE GoodIn(c, u)
    <3>1. m # Msg("accept", u) /\ m \notin Reports(u)
      BY <1>7 DEF Msg, Reports
    <3> HIDE DEF c
    <3>2. Intact(u) /\ Proposer[u] \notin skewed => Good(c[Proposer[u]][room[u]], rec[u], fate[u], u)
      BY <1>1, <1>4, <3>1, OrderTaken DEF c
    <3>. QED
      BY <3>2 DEF GoodIn
  <2> HIDE DEF c, m
  <2>6. CASE (AcceptProposal(t, c) \/ RejectProposal(t, c)) /\ UNCHANGED inbox
    <3>1. \A u \in Tasks : Linked(u)' /\ GoodIn(chan, u)'
      BY <1>1, <1>2, <1>4, <1>7, <2>3, <2>4, <2>5, <2>6, OrderAnswer
    <3>2. PICK k \in {"accept", "reject"} : chan' = Sent(c, d, room[t], Msg(k, t))
      BY <2>4, <2>6 DEF AcceptProposal, RejectProposal
    <3>3. Msg(k, t) \in Message /\ \A u \in Tasks : Msg(k, t) # Msg("propose", u)
      BY DEF Msg, Message, Kind
    <3>4. Placed(chan', room)
      BY <1>2, <1>3, <3>2, <3>3, PlacedSent
    <3>. QED
      BY <1>1, <3>1, <3>4 DEF InOrder
  <2>7. CASE /\ inbox' = [inbox EXCEPT ![Executor[t]] = @ \cup {t}]
             /\ chan' = c /\ UNCHANGED <<job, answers, fate>>
    <3>1. \A u \in Tasks \ {t} : \A e \in Daemons : u \in inbox'[e] => u \in inbox[e]
      BY <2>2, <2>7 DEF Inv, Typed
    <3>2. \A u \in Tasks : GoodIn(chan, u)'
      BY <1>1, <1>5, <1>7, <2>5, <2>7 DEF GoodIn
    <3>3. \A u \in Tasks : Linked(u)'
      BY <1>1, <1>4, <1>5, <2>4, <2>7, <3>1 DEF Linked
    <3>. QED
      BY <1>1, <1>3, <2>7, <3>2, <3>3 DEF InOrder
  <2>. QED
    BY <1>7, <2>1, <2>6, <2>7 DEF HandleProposal, historyVars
<1>8. CASE /\ ~Ignored(d, m) /\ m.kind # "propose" /\ Table!UpdateState(m.task, StateOf(m.kind))
           /\ chan' = c /\ UNCHANGED <<job, inbox, answers, fate>>
  <2>1. PICK t \in Tasks : t = m.task
    BY <1>2
  <2>2. PICK x \in {"accepted", "rejected", "completed", "failed"} :
          /\ x = StateOf(m.kind)
          /\ \A u \in Tasks : /\ m = Msg("accept", u) => u = t /\ x = "accepted"
                              /\ m \in Reports(u) => u = t /\ x \in {"completed", "failed"}
    <3>1. m.kind \in {"accept", "reject", "completed", "failed"}
      BY <1>2, <1>8 DEF Ignored, Message, Kind
    <3>2. \A u : /\ m = Msg("accept", u) => u = t /\ m.kind = "accept"
                 /\ m \in Reports(u) => u = t /\ m.kind \in {"completed", "failed"}
      BY <2>1 DEF Msg, Reports
    <3> HIDE DEF m
    <3>. QED
      BY <3>1, <3>2 DEF StateOf
  <2>3. Table!UpdateState(t, x)
    BY <1>8, <2>1, <2>2
  <2> HIDE DEF m, c
  <2>4. ASSUME NEW u \in Tasks PROVE GoodIn(chan, u)'
    <3>1. rec[u] \in {"pending"} \cup Ready =>
           /\ rec'[u] \in {"pending"} \cup Ready
           /\ rec[u] \in Ready => rec'[u] \in Ready
           /\ rec[u] \in Ended => rec'[u] \in Ended
           /\ u = t /\ x = "accepted" => rec'[u] \in Ready
           /\ u = t /\ x \in {"completed", "failed"} /\ rec[u] \in Ready => rec'[u] \in Ended
      BY <2>3, RecordsGo
    <3> DEFINE w == rec'[u]
    <3> HIDE DEF w
    <3>2. Intact(u) /\ Proposer[u] \notin skewed => Good(c[Proposer[u]][room[u]], w, fate[u], u)
      BY <1>1, <1>4, <2>2, <3>1, OrderTaken DEF c, m, w, Ready
    <3>. QED
      BY <1>1, <1>5, <1>8, <3>2 DEF GoodIn, w
  <2>5. \A u \in Tasks : Linked(u)'
    BY <1>1, <1>4, <1>5, <1>8 DEF Linked
  <2>. QED
    BY <1>1, <1>3, <1>8, <2>4, <2>5 DEF InOrder
<1>. QED
  BY <1>6, <1>7, <1>8 DEF Receive, historyVars

LEMMA OrderInbox ==
  ASSUME Inv, InOrder, NEW t \in Tasks, ApproveInbox(t) \/ DenyInbox(t)
  PROVE  InOrder'
<1>1. /\ Executor[t] \in Daemons /\ t \in inbox[Executor[t]]
      /\ inbox' = [inbox EXCEPT ![Executor[t]] = @ \ {t}]
      /\ AcceptProposal(t, chan) \/ RejectProposal(t, chan)
      /\ UNCHANGED <<rec, room, known, skewed, restarts>>
  BY RouterAssumption DEF ApproveInbox, DenyInbox, RouterAssumption
<1>2. fate[t] = {} /\ \A e \in Daemons : inbox'[e] \subseteq inbox[e]
  BY <1>1 DEF Inv, Life, Typed
<1>3. Intact(t) => known[Executor[t]][room[t]] = "open"
  BY <1>1 DEF InOrder, Linked
<1>4. chan \in Chans /\ \A u \in Tasks : Linked(u) /\ GoodIn(chan, u)
  BY DEF InOrder, Inv, Typed
<1>5. \A u \in Tasks : Linked(u)' /\ GoodIn(chan, u)'
  BY <1>1, <1>2, <1>3, <1>4, OrderAnswer
<1>6. PICK k \in {"accept", "reject"} : chan' = Sent(chan, Executor[t], room[t], Msg(k, t))
  BY <1>1 DEF AcceptProposal, RejectProposal
<1>7. Msg(k, t) \in Message /\ \A u \in Tasks : Msg(k, t) # Msg("propose", u)
  BY DEF Msg, Message, Kind
<1>8. Placed(chan', room)
  BY <1>1, <1>4, <1>6, <1>7, PlacedSent DEF InOrder
<1>. QED
  BY <1>1, <1>5, <1>8 DEF InOrder

LEMMA OrderJob ==
  ASSUME Inv, InOrder, NEW t \in Tasks, StartJob(t) \/ JobNotStarted(t) \/ EndJob(t)
  PROVE  InOrder'
<1>1. /\ UNCHANGED <<rec, room, inbox, known, skewed, restarts>>
      /\ "accepted" \in fate[t]
      /\ \/ UNCHANGED <<chan, fate>>
         \/ Report(t, "completed") \/ Report(t, "failed")
  BY DEF StartJob, JobNotStarted, EndJob, historyVars, roomVars, Inv, Life
<1>2. CASE UNCHANGED <<chan, fate>>
  BY <1>1, <1>2 DEF InOrder, Placed, Linked, GoodIn, Intact
<1>3. ASSUME NEW k \in {"completed", "failed"}, Report(t, k) PROVE InOrder'
  <2>1. /\ chan' = Sent(chan, Executor[t], room[t], Msg(k, t)) /\ chan \in Chans
        /\ fate' = [fate EXCEPT ![t] = @ \cup {k}] /\ fate[t] # {}
    BY <1>1, <1>3 DEF Report, Inv, Typed
  <2>2. /\ Executor[t] \in Daemons /\ Msg(k, t) \in Message /\ Msg(k, t).task = t
        /\ \A u \in Tasks : Msg(k, t) # Msg("propose", u)
    BY RouterAssumption DEF RouterAssumption, Msg, Message, Kind
  <2>3. \A u \in Tasks : fate'[u] = IF u = t THEN fate[t] \cup {k} ELSE fate[u]
    BY <2>1 DEF Inv, Typed
  <2>4. Placed(chan', room)
    BY <2>1, <2>2, PlacedSent DEF InOrder
  <2>5. \A u \in Tasks : Linked(u)'
    BY <1>1, <2>1, <2>3 DEF InOrder, Linked, Intact
  <2>6. ASSUME NEW u \in Tasks PROVE GoodIn(chan, u)'
    <3>1. CASE u = t
      <4>1. Intact(t) => known[Executor[t]][room[t]] = "open"
        BY <2>1 DEF InOrder, Linked
      <4>2. "accepted" \in fate'[t] => "accepted" \in fate[t]
        BY <1>1
      <4>. QED
        BY <1>1, <2>1, <3>1, <4>1, <4>2, OrderTold DEF InOrder
    <3>2. CASE u # t
      BY <1>1, <2>1, <2>2, <2>3, <3>2, OrderSent DEF InOrder
    <3>. QED
      BY <3>1, <3>2
  <2>. QED
    BY <1>1, <2>4, <2>5, <2>6 DEF InOrder
<1>. QED
  BY <1>1, <1>2, <1>3

LEMMA OrderGiveUp ==
  ASSUME Inv, InOrder, NEW t \in Tasks, CancelTask(t) \/ TimeoutCheck(t)
  PROVE  InOrder'
<1>1. UNCHANGED <<room, inbox, known, chan, fate, skewed, restarts>>
  BY DEF CancelTask, TimeoutCheck, roomVars, historyVars
<1>2. \/ UNCHANGED rec
      \/ \E x \in {"cancelled", "timeout"} : Table!UpdateState(t, x)
  BY DEF CancelTask, TimeoutCheck
<1>3. \A u \in Tasks : rec[u] \in {"pending"} \cup Ready =>
           /\ rec'[u] \in {"pending"} \cup Ready
           /\ rec[u] \in Ready => rec'[u] \in Ready
           /\ rec[u] \in Ended => rec'[u] \in Ended
  BY <1>2, RecordsGo
<1>4. ASSUME NEW u \in Tasks PROVE GoodIn(chan, u)'
  <2>. SUFFICES ASSUME Intact(u), Proposer[u] \notin skewed
                PROVE  Good(chan[Proposer[u]][room[u]], rec'[u], fate[u], u)
    BY <1>1 DEF GoodIn, Intact
  <2>1. Good(chan[Proposer[u]][room[u]], rec[u], fate[u], u)
    BY DEF InOrder, GoodIn
  <2>2. rec[u] \in {"pending"} \cup Ready
    BY <2>1 DEF Good
  <2>. QED
    BY <1>3, <2>1, <2>2, GoodOn
<1>. QED
  BY <1>1, <1>4 DEF InOrder, Placed, Linked, Intact

LEMMA OrderPropose ==
  ASSUME Inv, InOrder, NEW t \in Tasks, NEW r \in Rooms, Propose(t, r)
  PROVE  InOrder'
<1>1. /\ rec' = [rec EXCEPT ![t] = "pending"] /\ room[t] = NoRoom
      /\ room' = [room EXCEPT ![t] = r]
      /\ UNCHANGED <<inbox, known, skewed, fate, restarts>>
  BY DEF Propose, Table!Create, historyVars
<1>2. PICK k \in {"propose", "malformed"} : chan' = Sent(chan, Proposer[t], r, Msg(k, t))
  BY DEF Propose
<1>3. /\ Proposer[t] \in Daemons /\ Msg(k, t) \in Message /\ chan \in Chans
      /\ Msg(k, t).kind = k /\ \A u : Msg(k, t) = Msg("propose", u) => u = t
  BY RouterAssumption DEF RouterAssumption, Msg, Message, Kind, Inv, Typed
<1>4. fate[t] = {} /\ ~Holds(chan, Msg("propose", t)) /\ \A e \in Daemons : t \notin inbox[e]
  BY <1>1 DEF Inv, Life
<1>5. \A u \in Tasks : /\ u # t => rec'[u] = rec[u] /\ room'[u] = room[u]
                       /\ u = t => rec'[u] = "pending" /\ room'[u] = r
  BY <1>1 DEF Inv, Typed
<1>6. Placed(chan', room')
  <2>1. Placed(chan, room')
    BY <1>4, <1>5 DEF InOrder, Placed, Holds
  <2> DEFINE where == room'
  <2>2. Placed(chan, where) /\ where[t] = r
    BY <1>5, <2>1
  <2> HIDE DEF where
  <2>3. Placed(Sent(chan, Proposer[t], r, Msg(k, t)), where)
    BY <1>3, <2>2, PlacedSent
  <2>. QED
    BY <1>2, <2>3 DEF where
<1>7. \A u \in Tasks : Linked(u)'
  BY <1>1, <1>4, <1>5 DEF InOrder, Linked, Intact
<1>8. ASSUME NEW u \in Tasks, u # t PROVE GoodIn(chan, u)'
  <2>. SUFFICES ASSUME Intact(u), Proposer[u] \notin skewed
                PROVE  Good(chan'[Proposer[u]][room[u]], rec[u], fate[u], u)
    BY <1>1, <1>5, <1>8 DEF GoodIn, Intact
  <2>1. Proposer[u] \in Daemons /\ room[u] \in Rooms
    BY RouterAssumption DEF RouterAssumption, Intact
  <2> DEFINE w == chan[Proposer[u]][room[u]]
             m == Msg(k, t)
  <2>2. w \in Seq(Message) /\ chan'[Proposer[u]][room[u]] \in {w, Append(w, m)}
    BY <1>2, <1>3, <2>1, WaySent
  <2>3. m \notin Reports(u) /\ m # Msg("accept", u) /\ Good(w, rec[u], fate[u], u)
    BY <1>3 DEF Reports, Msg, InOrder, GoodIn
  <2>4. m \in Message
    BY <1>3
  <2> HIDE DEF w, m
  <2>5. Good(Append(w, m), rec[u], fate[u], u)
    BY <2>2, <2>3, <2>4, GoodAppend
  <2>. QED
    BY <2>2, <2>3, <2>5
<1>9. GoodIn(chan, t)'
  <2>. SUFFICES ASSUME Intact(t)' PROVE Good(chan'[Proposer[t]][r], "pending", {}, t)
    BY <1>1, <1>4, <1>5 DEF GoodIn
  <2> DEFINE s == chan'[Proposer[t]][r]
  <2>1. Honest(chan', fate') /\ fate'[t] = {}
    BY <1>1, <1>4, ProposeStep DEF Inv
  <2>2. ASSUME NEW i \in 1 .. Len(s), s[i] \in Reports(t) PROVE FALSE
    <3>1. Holds(chan', s[i])
      BY <1>3 DEF Holds
    <3>2. s[i] \in Message /\ s[i].kind \in {"completed", "failed"} /\ s[i].task = t
      BY <2>2 DEF Reports, Msg, Message, Kind
    <3> HIDE DEF s
    <3>3. StateOf(s[i].kind) \in fate'[t]
      BY <2>1, <3>1, <3>2 DEF Honest
    <3>. QED
      BY <2>1, <3>3
  <2>. QED
    BY <2>2 DEF Good
<1>. QED
  BY <1>1, <1>6, <1>7, <1>8, <1>9 DEF InOrder

LEMMA OrderRoom ==
  ASSUME Inv, InOrder, NEW d \in Daemons, \/ \E r \in Rooms : OpenRoom(d, r)
                                         \/ \E R \in SUBSET Rooms : LoseRooms(d, R)
  PROVE  InOrder'
<1>1. UNCHANGED <<rec, room, inbox, fate, skewed, restarts>>
  BY DEF OpenRoom, LoseRooms, historyVars
<1>2. ASSUME NEW r \in Rooms, OpenRoom(d, r) PROVE InOrder'
  <2>1. /\ UNCHANGED chan /\ known' \in [Daemons -> [Rooms -> {"new", "open", "gone"}]]
        /\ \A e \in Daemons, q \in Rooms :
             \/ known'[e][q] = known[e][q]
             \/ known[e][q] = "new" /\ known'[e][q] = "open"
    BY <1>2 DEF OpenRoom, InOrder
  <2>2. \A u \in Tasks : Intact(u)' => Intact(u)
    BY <1>1, <2>1 DEF Intact
  <2>3. \A u \in Tasks : Linked(u)'
    <3>1. \A u \in Tasks : Executor[u] \in Daemons
      BY RouterAssumption DEF RouterAssumption
    <3>2. \A u \in Tasks : Intact(u) => room[u] \in Rooms
      BY DEF Intact
    <3>. QED
      BY <1>1, <2>1, <2>2, <3>1, <3>2 DEF InOrder, Linked
  <2>4. \A u \in Tasks : GoodIn(chan, u)'
    BY <1>1, <2>1, <2>2 DEF InOrder, GoodIn
  <2>. QED
    BY <1>1, <2>1, <2>3, <2>4 DEF InOrder
<1>3. ASSUME NEW R \in SUBSET Rooms, LoseRooms(d, R) PROVE InOrder'
  <2>1. /\ Cut(d, R) /\ known' = [known EXCEPT ![d] = [q \in Rooms |-> IF q \in R THEN "gone" ELSE @[q]]]
    BY <1>3 DEF LoseRooms
  <2>2. /\ known' \in [Daemons -> [Rooms -> {"new", "open", "gone"}]]
        /\ \A e \in Daemons, q \in Rooms \ R : known'[e][q] = known[e][q]
        /\ \A q \in R : known'[d][q] = "gone"
    BY <2>1 DEF InOrder
  <2>3. /\ Part(chan, chan')
        /\ \A e \in Daemons, q \in Rooms \ R : chan'[e][q] = chan[e][q]
    BY <2>1, CutPart DEF Inv, Typed
  <2>4. \A u \in Tasks : Intact(u)' => Intact(u) /\ room[u] \in Rooms \ R
    BY <1>1, <2>2 DEF Intact
  <2>5. \A u \in Tasks : Proposer[u] \in Daemons /\ Executor[u] \in Daemons
    BY RouterAssumption DEF RouterAssumption
  <2>6. \A u \in Tasks : Linked(u)'
    BY <1>1, <2>2, <2>4, <2>5 DEF InOrder, Linked
  <2>7. \A u \in Tasks : GoodIn(chan, u)'
    BY <1>1, <2>3, <2>4, <2>5 DEF InOrder, GoodIn
  <2>. QED
    BY <1>1, <2>2, <2>3, <2>6, <2>7, PlacedPart DEF InOrder
<1>. QED
  BY <1>2, <1>3

LEMMA OrderRestart ==
  ASSUME Inv, InOrder, NEW d \in Daemons, Restart(d)
  PROVE  InOrder'
<1>1. /\ restarts' # 0 /\ Cut(d, Rooms) /\ UNCHANGED room
      /\ known' = [known EXCEPT ![d] = [r \in Rooms |-> IF @[r] = "open" THEN "gone" ELSE @[r]]]
  BY DEF Restart, Inv, Typed
<1>2. known' \in [Daemons -> [Rooms -> {"new", "open", "gone"}]]
  BY <1>1 DEF InOrder
<1>3. \A u : ~Intact(u)'
  BY <1>1 DEF Intact
<1>4. Part(chan, chan')
  BY <1>1, CutPart DEF Inv, Typed
<1>. QED
  BY <1>1, <1>2, <1>3, <1>4, PlacedPart DEF InOrder, Linked, GoodIn

LEMMA OrderStep ==
  ASSUME Inv, InOrder, [Next]_vars
  PROVE  InOrder'
<1>1. CASE UNCHANGED vars
  BY <1>1 DEF vars, roomVars, historyVars, InOrder, Placed, Linked, GoodIn, Intact
<1>2. CASE Next
  BY <1>2, OrderReceive, OrderRoom, OrderRestart, OrderPropose, OrderInbox, OrderGiveUp,
     OrderJob DEF Next
<1>. QED
  BY <1>1, <1>2

LEMMA OrderInit == Init => InOrder
<1>. SUFFICES ASSUME Init PROVE InOrder
  OBVIOUS
<1>1. \A e \in Daemons, q \in Rooms : chan[e][q] = <<>>
  BY DEF Init
<1>2. \A t \in Tasks : ~Intact(t)
  BY RouterAssumption DEF Init, Intact, RouterAssumption
<1>. QED
  BY <1>1, <1>2 DEF Init, InOrder, Placed, Linked, GoodIn

\* A report that is no longer on its way has ended the proposer's record, while neither
\* end restarts or loses the room (agent/router.ts handleData, agent/tasks.ts updateState): in its
\* room no report overtakes the accept.
THEOREM ReportsArrive == Spec => []ReportsEndRecords
<1>1. Init => Inv /\ InOrder
  BY InvInit, OrderInit
<1>2. Inv /\ InOrder /\ [Next]_vars => Inv' /\ InOrder'
  BY InvStep, OrderStep
<1>3. Inv /\ InOrder => ReportsEndRecords
  <2>. SUFFICES ASSUME Inv, InOrder, NEW t \in Tasks,
                       restarts = 0, Proposer[t] \notin skewed, room[t] \in Rooms,
                       fate[t] \cap Delegated!Outcomes # {},
                       \A e \in Daemons : known[e][room[t]] = "open",
                       \A i \in DOMAIN chan[Proposer[t]][room[t]] :
                         chan[Proposer[t]][room[t]][i].task # t
                PROVE  rec[t] \in Terminal
    BY DEF ReportsEndRecords
  <2> DEFINE w == chan[Proposer[t]][room[t]]
  <2>1. Good(w, rec[t], fate[t], t)
    BY DEF InOrder, GoodIn, Intact
  <2>2. w \in Seq(Message)
    BY RouterAssumption DEF RouterAssumption, Inv, Typed, Chans
  <2>3. \A i \in 1 .. Len(w) : w[i] \notin Reports(t)
    BY <2>2 DEF Reports, Msg
  <2> HIDE DEF w
  <2>4. rec[t] \in Ended
    BY <2>1, <2>3 DEF Good, Delegated!Outcomes
  <2>. QED
    BY <2>4 DEF Ended, Terminal, Table!Terminal
<1>. QED
  BY <1>1, <1>2, <1>3, PTL DEF Spec

\* The tables, rooms and channels of both daemons stay well typed, whatever the relay loses
\* and whichever of them restarts (agent/router.ts, agent/tasks.ts).
THEOREM TypeCorrect == Spec => []TypeOK
<1> DEFINE Rest == skewed \subseteq Daemons /\ restarts \in 0 .. MaxRestarts
<1>1. Init => Inv /\ InOrder /\ Rest
  BY InvInit, OrderInit, RouterAssumption DEF Init, RouterAssumption
<1>2. Inv /\ InOrder /\ Rest /\ [Next]_vars => Inv' /\ InOrder' /\ Rest'
  <2> SUFFICES ASSUME Inv, InOrder, Rest, [Next]_vars PROVE Inv' /\ InOrder' /\ Rest'
    OBVIOUS
  <2>1. UNCHANGED skewed
    BY DEF Next, OpenRoom, Receive, LoseRooms, Restart, Propose, ApproveInbox, DenyInbox, CancelTask,
           TimeoutCheck, StartJob, JobNotStarted, EndJob, vars
  <2>2. \/ UNCHANGED restarts
        \/ restarts < MaxRestarts /\ restarts' = restarts + 1
    BY DEF Next, OpenRoom, Receive, LoseRooms, Restart, Propose, ApproveInbox, DenyInbox, CancelTask,
           TimeoutCheck, StartJob, JobNotStarted, EndJob, vars
  <2>3. Rest'
    BY <2>1, <2>2, RouterAssumption DEF RouterAssumption
  <2>. QED
    BY <2>3, InvStep, OrderStep
<1>3. Inv /\ InOrder /\ Rest => TypeOK
  BY SameTable DEF Inv, Typed, InOrder, TypeOK, Chans, States
<1>. QED
  BY <1>1, <1>2, <1>3, PTL DEF Spec
=============================================================================
