------------------------------ MODULE DaemonProofs ------------------------------
(* Machine-checked properties of Daemon, for every set of processes, key pairs *)
(* and agents, any number of suffixes and of overlapping attempts, and every   *)
(* bound.                                                                      *)
EXTENDS Daemon, TLAPS

USE DEF procs, files, bounds, memory, relay, world

-----------------------------------------------------------------------------
(* The type invariant.                                                     *)

LEMMA FreshTyped ==
  FreshMemory =>
    /\ agent' \in Agents \cup {NoAgent} /\ initial' \in BOOLEAN /\ timer' \in BOOLEAN
    /\ begun' \in BOOLEAN /\ connectors' \in Nat /\ lapses' \in Nat /\ lapsed' \subseteq Names
    /\ attempt' \in [Attempts -> [agent : Agents \cup {NoAgent}, at : Nat]]
    /\ {clawName', relayName', routerName'} \subseteq Names \cup {NoName}
    /\ asking' \in [Names -> Nat]
<1>. SUFFICES ASSUME FreshMemory
              PROVE  /\ agent' \in Agents \cup {NoAgent} /\ initial' \in BOOLEAN
                     /\ timer' \in BOOLEAN /\ begun' \in BOOLEAN
                     /\ connectors' \in Nat /\ lapses' \in Nat /\ lapsed' \subseteq Names
                     /\ attempt' \in [Attempts -> [agent : Agents \cup {NoAgent}, at : Nat]]
                     /\ {clawName', relayName', routerName'} \subseteq Names \cup {NoName}
                     /\ asking' \in [Names -> Nat]
  OBVIOUS
<1>1. attempt' \in [Attempts -> [agent : Agents \cup {NoAgent}, at : Nat]]
  <2>1. None \in [agent : Agents \cup {NoAgent}, at : Nat]
    BY DEF None
  <2>. QED
    BY <2>1 DEF FreshMemory
<1>2. asking' \in [Names -> Nat]
  BY DEF FreshMemory
<1>. QED
  BY <1>1, <1>2 DEF FreshMemory

LEMMA EndsTyped ==
  ASSUME TypeOK, NEW p \in Procs, Ends(p), pidFile' \in Procs \cup {NoProc}
  PROVE  TypeOK'
<1>1. /\ stage' \in [Procs -> Stages] /\ sent' \subseteq Procs
      /\ mine' \in [Procs -> [priv : KeyPairs \cup {NoKey}, pub : KeyPairs \cup {NoKey, Empty}]]
  BY DEF Ends, TypeOK, Stages, NoKeys
<1>2. UNCHANGED <<priv, pub, starts, raced, gateway, owner>>
  BY DEF Ends
<1>3. CASE FreshMemory
  BY <1>1, <1>2, <1>3, FreshTyped DEF TypeOK
<1>4. CASE UNCHANGED <<memory, lapses, lapsed>>
  BY <1>1, <1>2, <1>4 DEF TypeOK
<1>. QED
  BY <1>3, <1>4 DEF Ends

LEMMA StageTyped ==
  ASSUME TypeOK, stage' \in [Procs -> Stages], UNCHANGED <<memory, world>>,
         mine' \in [Procs -> [priv : KeyPairs \cup {NoKey}, pub : KeyPairs \cup {NoKey, Empty}]],
         sent' \subseteq Procs, pidFile' \in Procs \cup {NoProc},
         {priv', pub'} \subseteq KeyPairs \cup {NoKey, Empty},
         starts' \in Nat, raced' \in BOOLEAN
  PROVE  TypeOK'
BY DEF TypeOK

LEMMA ProcessTyped ==
  ASSUME TypeOK, NEW p \in Procs,
         \/ Start(p) \/ ChildChecks(p) \/ WritePid(p) \/ Terminate(p) \/ Crash(p) \/ Listen(p)
  PROVE  TypeOK'
<1>. pidFile \in Procs \cup {NoProc}
  BY DEF TypeOK
<1>1. CASE Start(p)
  BY <1>1, StageTyped DEF Start, TypeOK, Stages
<1>2. CASE ChildChecks(p)
  BY <1>2, StageTyped, EndsTyped DEF ChildChecks, TypeOK, Stages
<1>3. CASE WritePid(p)
  BY <1>3, StageTyped DEF WritePid, TypeOK, Stages
<1>4. CASE Terminate(p)
  BY <1>4, EndsTyped DEF Terminate
<1>5. CASE Crash(p)
  BY <1>5, EndsTyped DEF Crash
<1>6. CASE Listen(p)
  BY <1>6, StageTyped, EndsTyped DEF Listen, At, TypeOK, Stages
<1>. QED
  BY <1>1, <1>2, <1>3, <1>4, <1>5, <1>6

LEMMA KeysTyped ==
  ASSUME TypeOK, NEW p \in Procs,
         \/ LookForKeys(p) \/ ReadPriv(p) \/ ReadPub(p)
         \/ OpenPriv(p) \/ WritePriv(p) \/ OpenPub(p) \/ WritePub(p)
  PROVE  TypeOK'
<1>1. ASSUME NEW from, NEW to \in Stages, At(p, from, to)
      PROVE  stage' \in [Procs -> Stages]
  BY <1>1 DEF At, TypeOK
<1>2. CASE LookForKeys(p)
  BY <1>1, <1>2, StageTyped DEF LookForKeys, TypeOK, Stages
<1>3. CASE ReadPriv(p)
  BY <1>1, <1>3, StageTyped DEF ReadPriv, TypeOK, Stages
<1>4. CASE ReadPub(p)
  BY <1>1, <1>4, StageTyped DEF ReadPub, TypeOK, Stages
<1>5. CASE OpenPriv(p) \/ WritePriv(p)
  BY <1>1, <1>5, StageTyped DEF OpenPriv, WritePriv, TypeOK, Stages
<1>6. CASE OpenPub(p) \/ WritePub(p)
  BY <1>1, <1>6, StageTyped DEF OpenPub, WritePub, TypeOK, Stages
<1>. QED
  BY <1>2, <1>3, <1>4, <1>5, <1>6

\* The candidates of an attempt are names.
LEMMA Candidates ==
  ASSUME NEW x \in Agents, NEW i \in 0 .. Last(x)
  PROVE  Candidate(x, i) \in Names
<1>. MaxSuffix \in Nat /\ i \in Nat /\ i <= 2 * MaxSuffix + 1
  BY DaemonAssumption DEF Last
<1>1. CASE i <= MaxSuffix
  BY <1>1 DEF Candidate, Names, Bases
<1>2. CASE ~(i <= MaxSuffix)
  <2>1. i - MaxSuffix - 1 \in 0 .. MaxSuffix
    BY <1>2
  <2>2. Candidate(x, i) = <<AutoName, i - MaxSuffix - 1>>
    BY <1>2 DEF Candidate
  <2>. QED
    BY <2>1, <2>2 DEF Names, Bases
<1>. QED
  BY <1>1, <1>2

\* An attempt under way is at one of its candidates.
Trying == \A a \in Attempts : attempt[a] # None =>
  /\ Up # {} /\ attempt[a].agent \in Agents
  /\ attempt[a].at \in 0 .. Last(attempt[a].agent)

LEMMA AskedType ==
  ASSUME Trying, NEW a \in Attempts, Waiting(a)
  PROVE  Asked(a) \in Names
BY Candidates DEF Trying, Waiting, Asked

LEMMA TryTyped ==
  ASSUME TypeOK, NEW x \in Agents \cup {NoAgent}, Try(x)
  PROVE  /\ attempt' \in [Attempts -> [agent : Agents \cup {NoAgent}, at : Nat]]
         /\ \A a \in Attempts :
              \/ attempt'[a] = attempt[a]
              \/ x # NoAgent /\ attempt'[a] = [agent |-> x, at |-> 0]
BY DEF Try, TypeOK

LEMMA KeyType ==
  ASSUME TypeOK, Up # {}
  PROVE  Key \in [priv : KeyPairs \cup {NoKey}, pub : KeyPairs \cup {NoKey, Empty}]
<1>. PICK p \in Procs : p \in Up
  BY DEF Up
<1>. (CHOOSE q \in Procs : q \in Up) \in Procs
  OBVIOUS
<1>. QED
  BY DEF Key, TypeOK

LEMMA NextCandidateTyped ==
  ASSUME TypeOK, Trying, NEW a \in Attempts, Waiting(a), NextCandidate(a) \/ Done(a)
  PROVE  /\ attempt' \in [Attempts -> [agent : Agents \cup {NoAgent}, at : Nat]]
         /\ \A b \in Attempts \ {a} : attempt'[b] = attempt[b]
         /\ \/ attempt'[a] = None
            \/ /\ attempt[a].at < Last(attempt[a].agent)
               /\ attempt'[a] = [agent |-> attempt[a].agent, at |-> attempt[a].at + 1]
<1>1. None \in [agent : Agents \cup {NoAgent}, at : Nat]
  BY DEF None
<1>. QED
  BY <1>1 DEF NextCandidate, Done, TypeOK, Trying, Waiting

LEMMA AttemptTyped ==
  ASSUME TypeOK, Trying, NEW a \in Attempts,
         Registered(a) \/ Taken(a) \/ Refused(a) \/ NoReply(a)
  PROVE  TypeOK'
<1>1. /\ Waiting(a)
      /\ NextCandidate(a) \/ Done(a) \/ UNCHANGED attempt
  BY DEF Registered, Taken, Refused, NoReply
<1>2. attempt' \in [Attempts -> [agent : Agents \cup {NoAgent}, at : Nat]]
  BY <1>1, NextCandidateTyped DEF TypeOK
<1>3. Signs => Key.pub \in KeyPairs
  BY <1>1, KeyType DEF Signs, Waiting
<1>4. Asked(a) \in Names
  BY <1>1, AskedType
<1>5. CASE Registered(a)
  <2>1. owner' \in [Names -> KeyPairs \cup {Free, Other}]
    BY <1>3, <1>5 DEF Registered, TypeOK
  <2>2. asking' \in [Names -> Nat] /\ begun' \in BOOLEAN
    <3>1. [asking EXCEPT ![Asked(a)] = asking[Asked(a)] + 1] \in [Names -> Nat]
      BY <1>4 DEF TypeOK
    <3>. QED
      BY <1>5, <3>1 DEF Registered, Begin, TypeOK
  <2>. QED
    BY <1>2, <1>4, <1>5, <2>1, <2>2 DEF Registered, TypeOK
<1>6. CASE Taken(a) \/ Refused(a)
  BY <1>2, <1>6 DEF Taken, Refused, TypeOK
<1>7. CASE NoReply(a)
  <2>1. owner' \in [Names -> KeyPairs \cup {Free, Other}]
    BY <1>3, <1>7 DEF NoReply, TypeOK
  <2>. QED
    BY <1>2, <1>7, <2>1 DEF NoReply, TypeOK
<1>. QED
  BY <1>5, <1>6, <1>7

LEMMA TimerTyped ==
  ASSUME TypeOK, Probe \/ InitialTimer \/ Heartbeat
  PROVE  TypeOK'
<1>1. attempt' \in [Attempts -> [agent : Agents \cup {NoAgent}, at : Nat]]
  BY TryTyped DEF Probe, InitialTimer, Heartbeat, TypeOK
<1>. QED
  BY <1>1 DEF Probe, InitialTimer, Heartbeat, TypeOK

LEMMA RelayTyped ==
  ASSUME TypeOK, Refresh \/ NewGateway \/ Stop \/ \E n \in Names : Token(n) \/ Others(n)
  PROVE  TypeOK'
<1>1. CASE Refresh \/ NewGateway \/ Stop
  BY <1>1 DEF Refresh, NewGateway, Stop, Running, Alive, TypeOK
<1>2. ASSUME NEW n \in Names, Token(n) PROVE TypeOK'
  <2>1. asking' \in [Names -> Nat]
    BY <1>2 DEF Token, TypeOK
  <2>. QED
    BY <1>2, <2>1 DEF Token, TypeOK
<1>3. ASSUME NEW n \in Names, Others(n) PROVE TypeOK'
  <2>1. /\ owner' \in [Names -> KeyPairs \cup {Free, Other}]
        /\ lapses' \in Nat /\ lapsed' \subseteq Names
    BY <1>3 DEF Others, TypeOK
  <2>. QED
    BY <1>3, <2>1 DEF Others, TypeOK
<1>. QED
  BY <1>1, <1>2, <1>3

-----------------------------------------------------------------------------
(* Processes.                                                              *)

OneUp == \A p, q \in Up : p = q

KeyStep(p) == \/ LookForKeys(p) \/ ReadPriv(p) \/ ReadPub(p)
              \/ OpenPriv(p) \/ WritePriv(p) \/ OpenPub(p) \/ WritePub(p)

ProcessStep(p) == \/ Start(p) \/ ChildChecks(p) \/ WritePid(p) \/ Terminate(p) \/ Crash(p)
                  \/ Listen(p) \/ KeyStep(p)

\* A step of a process ends the one that listens, or happens while none does, or is
\* nothing to it.
Aside == /\ Up' = Up /\ \A q \in Up : mine'[q] = mine[q]
         /\ UNCHANGED <<memory, lapses, lapsed>>

Effect == \/ Up' = {} /\ FreshMemory
          \/ Up = {} /\ UNCHANGED <<memory, lapses, lapsed>>
          \/ Aside

LEMMA EndsEffect ==
  ASSUME TypeOK, OneUp, NEW p \in Procs, Ends(p)
  PROVE  OneUp' /\ Effect /\ UNCHANGED <<gateway, owner>>
<1>1. Up' = Up \ {p} /\ UNCHANGED <<gateway, owner>>
  BY DEF Ends, Up, TypeOK
<1>2. CASE stage[p] = "up"
  <2>1. p \in Up
    BY <1>2 DEF Up
  <2>2. Up' = {}
    BY <1>1, <2>1 DEF OneUp
  <2>3. FreshMemory
    BY <1>2 DEF Ends
  <2>. QED
    BY <1>1, <2>2, <2>3 DEF OneUp, Effect
<1>3. CASE stage[p] # "up"
  <2>1. Up' = Up
    BY <1>1, <1>3 DEF Up
  <2>2. \A q \in Up : mine'[q] = mine[q]
    BY <1>3 DEF Ends, Up, TypeOK
  <2>. QED
    BY <1>1, <1>3, <2>1, <2>2 DEF OneUp, Effect, Aside, Ends
<1>. QED
  BY <1>2, <1>3

\* A process that does not listen goes on.
LEMMA GoesOn ==
  ASSUME TypeOK, OneUp, NEW p \in Procs, stage[p] # "up", NEW to \in Stages \ {"up"},
         stage' = [stage EXCEPT ![p] = to], \A q \in Procs \ {p} : mine'[q] = mine[q],
         UNCHANGED <<memory, world>>
  PROVE  OneUp' /\ Effect /\ UNCHANGED <<gateway, owner>>
<1>1. Up' = Up /\ p \notin Up
  BY DEF Up, TypeOK
<1>2. \A q \in Up : mine'[q] = mine[q]
  BY <1>1 DEF Up
<1>. QED
  BY <1>1, <1>2 DEF OneUp, Effect, Aside

LEMMA ListenEffect ==
  ASSUME TypeOK, OneUp, NEW p \in Procs, Listen(p)
  PROVE  OneUp' /\ Effect /\ UNCHANGED <<gateway, owner>>
<1>1. CASE Up = {} /\ At(p, "ready", "up") /\ UNCHANGED <<memory, world>>
  <2>1. Up' = {p}
    BY <1>1 DEF At, Up, TypeOK
  <2>. QED
    BY <1>1, <2>1 DEF OneUp, Effect
<1>2. CASE Ends(p)
  BY <1>2, EndsEffect
<1>. QED
  BY <1>1, <1>2 DEF Listen

LEMMA ProcessEffect ==
  ASSUME TypeOK, OneUp, NEW p \in Procs, ProcessStep(p)
  PROVE  OneUp' /\ Effect /\ UNCHANGED <<gateway, owner>>
<1>1. ASSUME NEW from \in Stages \ {"up"}, NEW to \in Stages \ {"up"}, At(p, from, to),
             \A q \in Procs \ {p} : mine'[q] = mine[q], UNCHANGED <<memory, world>>
      PROVE  OneUp' /\ Effect /\ UNCHANGED <<gateway, owner>>
  BY <1>1, GoesOn DEF At
<1>2. CASE Start(p) \/ WritePid(p)
  BY <1>2, GoesOn DEF Start, WritePid, Stages
<1>3. CASE ChildChecks(p)
  BY <1>3, GoesOn, EndsEffect DEF ChildChecks, Stages
<1>4. CASE Terminate(p) \/ Crash(p)
  BY <1>4, EndsEffect DEF Terminate, Crash
<1>5. CASE Listen(p)
  BY <1>5, ListenEffect
<1>6. CASE LookForKeys(p)
  BY <1>1, <1>6 DEF LookForKeys, Stages, TypeOK
<1>7. CASE ReadPriv(p) \/ ReadPub(p)
  BY <1>1, <1>7 DEF ReadPriv, ReadPub, Stages, TypeOK
<1>8. CASE OpenPriv(p) \/ WritePriv(p) \/ OpenPub(p) \/ WritePub(p)
  BY <1>1, <1>8 DEF OpenPriv, WritePriv, OpenPub, WritePub, Stages
<1>. QED
  BY <1>2, <1>3, <1>4, <1>5, <1>6, <1>7, <1>8 DEF ProcessStep, KeyStep

\* The key of the daemon is that of the one process that listens.
LEMMA SameKey ==
  ASSUME Up # {}, Up' = Up, \A q \in Up : mine'[q] = mine[q]
  PROVE  Key' = Key
<1> DEFINE p == CHOOSE q \in Procs : q \in Up
<1>1. p \in Up
  BY DEF Up
<1>2. mine'[p] = mine[p]
  BY <1>1
<1>3. Key = mine[p] /\ Key' = mine'[p]
  BY DEF Key
<1>. QED
  BY <1>2, <1>3

\* Every other step leaves the processes alone.
LEMMA OtherStep ==
  ASSUME UNCHANGED <<stage, mine>>
  PROVE  Up' = Up /\ Key' = Key /\ (OneUp => OneUp') /\ (Signs' <=> Signs)
<1>1. Up' = Up
  BY DEF Up
<1>2. Key' = Key
  BY <1>1 DEF Key
<1>. QED
  BY <1>1, <1>2 DEF OneUp, Signs

-----------------------------------------------------------------------------
(* One connector.                                                          *)

\* A request for a token is under way only once the relay is being initialised, for one
\* name, and only before there is a connector.
Relay ==
  /\ ~begun => connectors = 0 /\ \A n \in Names : asking[n] = 0
  /\ \A n \in Names : asking[n] > 0 => connectors = 0 /\ asking[n] = 1
  /\ \A m, n \in Names : asking[m] > 0 /\ asking[n] > 0 => m = n
  /\ OneConnector

LEMMA RelayKept ==
  ASSUME Relay, UNCHANGED <<begun, connectors, asking>>
  PROVE  Relay'
BY DEF Relay, OneConnector

LEMMA RelayFresh == FreshMemory => Relay'
BY DEF FreshMemory, Relay, OneConnector

LEMMA RelayStep ==
  ASSUME TypeOK, OneUp, Trying, Relay, [Next]_vars
  PROVE  Relay'
<1>1. ASSUME NEW p \in Procs, ProcessStep(p) PROVE Relay'
  <2>1. Effect
    BY <1>1, ProcessEffect
  <2>. QED
    BY <2>1, RelayKept, RelayFresh DEF Effect, Aside
<1>2. ASSUME NEW a \in Attempts, Registered(a) PROVE Relay'
  <2>1. Asked(a) \in Names
    BY <1>2, AskedType DEF Registered
  <2>2. CASE connectors = 0 /\ ~begun
    <3>1. begun' /\ connectors' = 0
      BY <1>2, <2>2 DEF Registered, Begin
    <3>2. \A n \in Names : asking'[n] = IF n = Asked(a) THEN 1 ELSE 0
      BY <1>2, <2>1, <2>2 DEF Registered, Begin, Relay, TypeOK
    <3>. QED
      BY <3>1, <3>2 DEF Relay, OneConnector
  <2>3. CASE ~(connectors = 0 /\ ~begun)
    BY <1>2, <2>3 DEF Registered, Begin, Relay, OneConnector
  <2>. QED
    BY <2>2, <2>3
<1>3. ASSUME NEW a \in Attempts, Taken(a) \/ Refused(a) \/ NoReply(a) PROVE Relay'
  BY <1>3, RelayKept DEF Taken, Refused, NoReply
<1>4. ASSUME NEW n \in Names, Token(n) PROVE Relay'
  <2>1. asking[n] = 1 /\ connectors = 0 /\ begun /\ \A m \in Names \ {n} : ~(asking[m] > 0)
    BY <1>4 DEF Token, Relay, TypeOK
  <2>2. \A m \in Names : asking'[m] = IF m = n THEN 0 ELSE asking[m]
    BY <1>4, <2>1 DEF Token, TypeOK
  <2>3. begun' = begun /\ connectors' \in {0, 1}
    BY <1>4, <2>1 DEF Token
  <2>. QED
    BY <2>1, <2>2, <2>3 DEF Relay, OneConnector, TypeOK
<1>5. ASSUME NEW n \in Names, Others(n) PROVE Relay'
  BY <1>5, RelayKept DEF Others
<1>6. CASE Stop \/ Probe \/ InitialTimer \/ Heartbeat \/ Refresh \/ NewGateway
  BY <1>6, RelayKept DEF Stop, Probe, InitialTimer, Heartbeat, Refresh, NewGateway
<1>7. CASE UNCHANGED vars
  BY <1>7, RelayKept DEF vars
<1>. QED
  BY <1>1, <1>2, <1>3, <1>4, <1>5, <1>6, <1>7 DEF Next, ProcessStep, KeyStep

-----------------------------------------------------------------------------
(* The attempts and their names.                                           *)

\* As long as no name lapses, the candidates before the one an attempt is at belong to
\* others.
Tried == lapses = 0 =>
  \A a \in Attempts : attempt[a] # None =>
    \A i \in 0 .. attempt[a].at - 1 :
      owner[Candidate(attempt[a].agent, i)] \notin {Free, Key.pub}

Ours(n) == owner[n] = Key.pub /\ Key.pub \in KeyPairs

\* The names that the registration, the relay and the router go or will go by are ours,
\* but for those that have lapsed.
Going ==
  \A n \in Names : n \in {clawName, relayName, routerName} \/ asking[n] > 0 =>
    Up # {} /\ (n \notin lapsed => Ours(n))

\* A process that does not listen, and one that ends.
LEMMA NamesOfProcess ==
  ASSUME TypeOK, OneUp, Trying, Tried, Going, NEW p \in Procs, ProcessStep(p)
  PROVE  Trying' /\ Tried' /\ Going'
<1>1. Effect /\ UNCHANGED owner
  BY ProcessEffect
<1>2. CASE FreshMemory
  <2>1. \A a \in Attempts : attempt'[a] = None
    BY <1>2 DEF FreshMemory
  <2>2. Trying' /\ Tried'
    BY <2>1 DEF Trying, Tried
  <2>3. Going'
    BY <1>2, DaemonAssumption DEF FreshMemory, Going
  <2>. QED
    BY <2>2, <2>3
<1>3. CASE Up = {} /\ UNCHANGED <<memory, lapses, lapsed>>
  <2>1. \A a \in Attempts : attempt'[a] = None
    BY <1>3 DEF Trying
  <2>2. Trying' /\ Tried'
    BY <2>1 DEF Trying, Tried
  <2>3. Going'
    BY <1>3 DEF Going
  <2>. QED
    BY <2>2, <2>3
<1>4. CASE Up # {} /\ Aside
  <2>1. Up' = Up /\ Key' = Key
    BY <1>4, SameKey DEF Aside
  <2>. QED
    BY <1>1, <1>4, <2>1 DEF Aside, Trying, Tried, Going, Ours
<1>5. CASE Up = {} /\ Aside
  BY <1>3, <1>5 DEF Aside
<1>. QED
  BY <1>1, <1>2, <1>3, <1>4, <1>5 DEF Effect

\* A name that was free or ours is now ours, or nothing has changed.
Takes(n) ==
  \/ UNCHANGED owner
  \/ /\ n \in Names /\ Signs /\ owner[n] \in {Free, Key.pub}
     /\ owner' = [owner EXCEPT ![n] = Key.pub]

\* Taking a name breaks nothing.
LEMMA TakingKept ==
  ASSUME TypeOK, Tried, Going, UNCHANGED <<stage, mine, lapses>>, Up # {}, NEW n, Takes(n)
  PROVE  /\ \A m \in Names : Ours(m) => Ours(m)'
         /\ \A m \in Names : owner[m] \notin {Free, Key.pub} => owner'[m] = owner[m]
         /\ Up' = Up /\ Key' = Key
<1>1. Up' = Up /\ Key' = Key
  BY OtherStep
<1>. QED
  BY <1>1 DEF Takes, Ours, TypeOK

LEMMA CandidatesBelow ==
  ASSUME Trying, NEW a \in Attempts, attempt[a] # None
  PROVE  /\ attempt[a].at \in Nat
         /\ \A i \in 0 .. attempt[a].at - 1 : Candidate(attempt[a].agent, i) \in Names
<1>1. Last(attempt[a].agent) \in Nat
  BY DaemonAssumption DEF Last
<1>2. \A i \in 0 .. attempt[a].at - 1 : i \in 0 .. Last(attempt[a].agent)
  BY <1>1 DEF Trying
<1>. QED
  BY <1>1, <1>2, Candidates DEF Trying

\* An attempt that goes on where it is, or ends.
LEMMA AttemptsStay ==
  ASSUME TypeOK, Trying, Tried, Going, UNCHANGED <<stage, mine, lapses>>, Up # {}, NEW n, Takes(n),
         \A b \in Attempts : attempt'[b] \in {attempt[b], None}
  PROVE  Trying' /\ Tried'
<1>1. Trying'
  BY TakingKept DEF Trying
<1>2. ASSUME lapses = 0, NEW b \in Attempts, attempt'[b] # None,
             NEW i \in 0 .. attempt'[b].at - 1
      PROVE  owner'[Candidate(attempt'[b].agent, i)] \notin {Free, Key.pub}
  <2>1. attempt'[b] = attempt[b] /\ attempt[b] # None
    BY <1>2
  <2>2. /\ Candidate(attempt[b].agent, i) \in Names
        /\ owner[Candidate(attempt[b].agent, i)] \notin {Free, Key.pub}
    BY <1>2, <2>1, CandidatesBelow DEF Tried
  <2>. QED
    BY <2>1, <2>2, TakingKept
<1>3. Key' = Key
  BY TakingKept
<1>. QED
  BY <1>1, <1>2, <1>3 DEF Tried

LEMMA NamesOfTaken ==
  ASSUME TypeOK, Trying, Tried, NEW a \in Attempts, Taken(a)
  PROVE  Trying' /\ Tried'
<1>1. /\ Waiting(a) /\ owner[Asked(a)] \notin {Free, Key.pub}
      /\ UNCHANGED <<stage, mine, owner, lapses>> /\ NextCandidate(a)
  BY DEF Taken
<1>2. Up' = Up /\ Key' = Key
  BY <1>1, OtherStep
<1>3. \A b \in Attempts \ {a} : attempt'[b] = attempt[b]
  BY <1>1, NextCandidateTyped
<1>4. attempt[a] # None /\ attempt[a].at \in Nat /\ attempt[a].agent \in Agents
  BY <1>1, CandidatesBelow DEF Waiting, Trying
<1>5. CASE attempt'[a] = None
  BY <1>1, <1>2, <1>3, <1>5 DEF Trying, Tried
<1>6. CASE /\ attempt[a].at < Last(attempt[a].agent)
           /\ attempt'[a] = [agent |-> attempt[a].agent, at |-> attempt[a].at + 1]
  <2>1. attempt'[a].agent = attempt[a].agent /\ attempt'[a].at = attempt[a].at + 1
    BY <1>6
  <2>2. Last(attempt[a].agent) \in Nat
    BY DaemonAssumption DEF Last
  <2>3. Trying'
    BY <1>2, <1>3, <1>4, <1>6, <2>1, <2>2 DEF Trying
  <2>4. ASSUME lapses = 0, NEW i \in 0 .. attempt'[a].at - 1
        PROVE  owner[Candidate(attempt[a].agent, i)] \notin {Free, Key.pub}
    <3>1. i = attempt[a].at \/ i \in 0 .. attempt[a].at - 1
      BY <1>4, <2>1, <2>4
    <3>. QED
      BY <1>1, <1>4, <2>4, <3>1 DEF Tried, Asked
  <2>. QED
    BY <1>1, <1>2, <1>3, <2>1, <2>3, <2>4 DEF Tried
<1>. QED
  BY <1>1, <1>5, <1>6, NextCandidateTyped

LEMMA NamesOfAnswer ==
  ASSUME TypeOK, Trying, Tried, Going, NEW a \in Attempts,
         Registered(a) \/ Refused(a) \/ NoReply(a)
  PROVE  /\ Up # {} /\ Takes(Asked(a)) /\ UNCHANGED <<stage, mine, lapses>>
         /\ Trying' /\ Tried' /\ Going'
<1>1. Up # {} /\ Asked(a) \in Names /\ UNCHANGED <<stage, mine, lapses>>
  BY AskedType DEF Registered, Refused, NoReply, Waiting
<1>2. Takes(Asked(a))
  BY <1>1 DEF Registered, Refused, NoReply, Takes
<1>3. \A b \in Attempts : attempt'[b] \in {attempt[b], None}
  BY DEF Registered, Refused, NoReply, Done, TypeOK
<1>4. Trying' /\ Tried'
  BY <1>1, <1>2, <1>3, AttemptsStay
<1>5. /\ \A m \in Names : Ours(m) => owner'[m] = Key.pub
      /\ Up' = Up /\ Key' = Key
  BY <1>1, <1>2, TakingKept DEF Ours
<1>6. CASE Refused(a) \/ NoReply(a)
  <2>1. UNCHANGED <<clawName, relayName, routerName, asking, lapsed>>
    BY <1>6 DEF Refused, NoReply
  <2>. QED
    BY <1>1, <1>2, <1>4, <1>5, <2>1 DEF Going, Ours
<1>7. CASE Registered(a)
  <2>1. Key.pub \in KeyPairs
    BY <1>1, <1>7, KeyType DEF Registered, Signs
  <2>2. owner'[Asked(a)] = Key.pub
    BY <1>1, <1>7 DEF Registered, TypeOK
  <2>3. \A n \in Names : asking'[n] > 0 => asking[n] > 0 \/ n = Asked(a)
    BY <1>7 DEF Registered, Begin, TypeOK
  <2>4. clawName' = Asked(a) /\ UNCHANGED <<relayName, routerName>> /\ lapsed' = lapsed \ {Asked(a)}
    BY <1>7 DEF Registered
  <2>. QED
    BY <1>1, <1>2, <1>4, <1>5, <2>1, <2>2, <2>3, <2>4 DEF Going, Ours
<1>. QED
  BY <1>1, <1>2, <1>4, <1>6, <1>7

LEMMA NamesOfTimer ==
  ASSUME TypeOK, Trying, Tried, Going, Probe \/ InitialTimer \/ Heartbeat
  PROVE  Trying' /\ Tried' /\ Going'
<1>1. /\ Up # {} /\ UNCHANGED <<stage, mine, owner, lapses, lapsed, clawName, relay>>
      /\ \/ UNCHANGED attempt
         \/ \E x \in Agents \cup {NoAgent} : Try(x)
  BY DEF Probe, InitialTimer, Heartbeat, TypeOK
<1>2. Up' = Up /\ Key' = Key
  BY <1>1, OtherStep
<1>3. Going'
  BY <1>1, <1>2 DEF Going, Ours
<1>4. \A a \in Attempts :
        \/ attempt'[a] = attempt[a]
        \/ \E x \in Agents : attempt'[a] = [agent |-> x, at |-> 0]
  BY <1>1, TryTyped
<1>5. \A x \in Agents : 0 \in 0 .. Last(x)
  BY DaemonAssumption DEF Last
<1>6. ASSUME NEW a \in Attempts, attempt'[a] # None, attempt'[a] # attempt[a]
      PROVE  attempt'[a].agent \in Agents /\ attempt'[a].at = 0
  <2>. PICK x \in Agents : attempt'[a] = [agent |-> x, at |-> 0]
    BY <1>4, <1>6
  <2>. QED
    OBVIOUS
<1>7. Trying'
  BY <1>1, <1>2, <1>5, <1>6 DEF Trying
<1>8. Tried'
  BY <1>1, <1>2, <1>6 DEF Tried
<1>. QED
  BY <1>3, <1>7, <1>8

LEMMA NamesOfRelay ==
  ASSUME TypeOK, Trying, Tried, Going,
         Refresh \/ NewGateway \/ Stop \/ \E n \in Names : Token(n)
  PROVE  Trying' /\ Tried' /\ Going'
<1>1. UNCHANGED <<stage, mine, owner, lapses, lapsed, attempt, clawName>>
  BY DEF Refresh, NewGateway, Stop, Token
<1>2. Up' = Up /\ Key' = Key
  BY <1>1, OtherStep
<1>3. Trying' /\ Tried'
  BY <1>1, <1>2 DEF Trying, Tried
<1>4. CASE Refresh
  <2>1. UNCHANGED <<routerName, asking>> /\ relayName' = clawName
    BY <1>4 DEF Refresh
  <2>. QED
    BY <1>1, <1>2, <1>3, <2>1, DaemonAssumption DEF Going, Ours
<1>5. CASE NewGateway \/ Stop
  <2>1. UNCHANGED <<relayName, routerName, asking>>
    BY <1>5 DEF NewGateway, Stop
  <2>. QED
    BY <1>1, <1>2, <1>3, <2>1 DEF Going, Ours
<1>6. ASSUME NEW n \in Names, Token(n) PROVE Going'
  <2>1. asking[n] > 0 /\ \A m \in Names : asking'[m] > 0 => asking[m] > 0
    BY <1>6 DEF Token, TypeOK
  <2>2. relayName' \in {relayName, n} /\ routerName' \in {routerName, n}
    BY <1>6 DEF Token
  <2>. QED
    BY <1>1, <1>2, <2>1, <2>2 DEF Going, Ours
<1>. QED
  BY <1>3, <1>4, <1>5, <1>6

\* What the others do frees or takes no name of ours but one that lapses.
LEMMA NamesOfOthers ==
  ASSUME TypeOK, Trying, Tried, Going, NEW n \in Names, Others(n)
  PROVE  Trying' /\ Tried' /\ Going'
<1>1. /\ UNCHANGED <<stage, mine, attempt, clawName, relayName, routerName, asking>>
      /\ \A m \in Names \ {n} : owner'[m] = owner[m]
  BY DEF Others, TypeOK
<1>2. Up' = Up /\ Key' = Key
  BY <1>1, OtherStep
<1>3. Trying'
  BY <1>1, <1>2 DEF Trying
<1>4. Up # {} => Key.pub \notin {Free, Other}
  BY KeyType, DaemonAssumption
<1>5. CASE /\ owner[n] = Free /\ owner' = [owner EXCEPT ![n] = Other]
           /\ UNCHANGED <<lapses, lapsed>>
  <2>1. \A m \in Names : Ours(m) /\ Up # {} => owner'[m] = Key.pub
    BY <1>1, <1>4, <1>5 DEF Ours
  <2>2. \A m \in Names : Up # {} /\ owner[m] \notin {Free, Key.pub} =>
          owner'[m] \notin {Free, Key.pub}
    BY <1>1, <1>5
  <2>3. Tried'
    BY <1>1, <1>2, <1>5, <2>2, CandidatesBelow DEF Tried, Trying
  <2>4. Going'
    BY <1>1, <1>2, <1>5, <2>1 DEF Going, Ours
  <2>. QED
    BY <1>3, <2>3, <2>4
<1>6. CASE /\ Up # {} /\ lapses' = lapses + 1
           /\ lapsed' = IF owner[n] = Key.pub THEN lapsed \cup {n} ELSE lapsed
  <2>1. Tried'
    BY <1>6 DEF Tried, TypeOK
  <2>2. \A m \in Names : m \notin lapsed' => m \notin lapsed
    BY <1>6
  <2>3. \A m \in Names : m \notin lapsed' /\ Ours(m) => owner'[m] = owner[m]
    BY <1>1, <1>6 DEF Ours
  <2>4. Going'
    BY <1>1, <1>2, <1>6, <2>2, <2>3 DEF Going, Ours
  <2>. QED
    BY <1>3, <2>1, <2>4
<1>7. CASE Up = {}
  <2>1. \A a \in Attempts : attempt[a] = None
    BY <1>7 DEF Trying
  <2>2. Tried'
    BY <1>1, <2>1 DEF Tried
  <2>3. Going'
    BY <1>1, <1>7 DEF Going
  <2>. QED
    BY <1>3, <2>2, <2>3
<1>. QED
  BY <1>5, <1>6, <1>7 DEF Others

-----------------------------------------------------------------------------
(* The invariant and the theorems.                                         *)

IInv == TypeOK /\ OneUp /\ Relay /\ Trying /\ Tried /\ Going

LEMMA Initially == Init => IInv
<1>. SUFFICES ASSUME Init PROVE IInv
  OBVIOUS
<1>1. Up = {} /\ \A a \in Attempts : attempt[a] = None
  BY DEF Init, Up
<1>2. TypeOK
  <2>1. /\ attempt \in [Attempts -> [agent : Agents \cup {NoAgent}, at : Nat]]
        /\ asking \in [Names -> Nat]
    BY DEF Init, None
  <2>2. /\ mine \in [Procs -> [priv : KeyPairs \cup {NoKey}, pub : KeyPairs \cup {NoKey, Empty}]]
        /\ stage \in [Procs -> Stages]
    BY DEF Init, NoKeys, Stages
  <2>. QED
    BY <2>1, <2>2 DEF Init, TypeOK
<1>3. OneUp /\ Trying /\ Tried
  BY <1>1 DEF OneUp, Trying, Tried
<1>4. Relay /\ Going
  BY DaemonAssumption DEF Init, Relay, OneConnector, Going
<1>. QED
  BY <1>2, <1>3, <1>4 DEF IInv

LEMMA Step == IInv /\ [Next]_vars => IInv'
<1>. SUFFICES ASSUME IInv, [Next]_vars PROVE IInv'
  OBVIOUS
<1>. TypeOK /\ OneUp /\ Relay /\ Trying /\ Tried /\ Going
  BY DEF IInv
<1>1. Relay'
  BY RelayStep
<1>2. ASSUME NEW p \in Procs, ProcessStep(p) PROVE IInv'
  BY <1>1, <1>2, ProcessTyped, KeysTyped, ProcessEffect, NamesOfProcess
     DEF IInv, ProcessStep, KeyStep
<1>3. ASSUME UNCHANGED <<stage, mine>> PROVE OneUp'
  BY <1>3, OtherStep
<1>4. ASSUME NEW a \in Attempts, Registered(a) \/ Taken(a) \/ Refused(a) \/ NoReply(a)
      PROVE  IInv'
  <2>1. OneUp'
    BY <1>3, <1>4 DEF Registered, Taken, Refused, NoReply
  <2>2. TypeOK'
    BY <1>4, AttemptTyped
  <2>3. CASE Taken(a)
    <3>1. Going'
      <4>1. UNCHANGED <<stage, mine, owner, lapses, lapsed, clawName, relayName, routerName, asking>>
        BY <2>3 DEF Taken
      <4>2. Up' = Up /\ Key' = Key
        BY <4>1, OtherStep
      <4>. QED
        BY <4>1, <4>2 DEF Going, Ours
    <3>. QED
      BY <1>1, <2>1, <2>2, <2>3, <3>1, NamesOfTaken DEF IInv
  <2>4. CASE Registered(a) \/ Refused(a) \/ NoReply(a)
    BY <1>1, <2>1, <2>2, <2>4, NamesOfAnswer DEF IInv
  <2>. QED
    BY <1>4, <2>3, <2>4
<1>5. CASE Probe \/ InitialTimer \/ Heartbeat
  <2>1. OneUp'
    BY <1>3, <1>5 DEF Probe, InitialTimer, Heartbeat
  <2>. QED
    BY <1>1, <1>5, <2>1, TimerTyped, NamesOfTimer DEF IInv
<1>6. CASE Refresh \/ NewGateway \/ Stop \/ \E n \in Names : Token(n)
  <2>1. OneUp'
    BY <1>3, <1>6 DEF Refresh, NewGateway, Stop, Token
  <2>. QED
    BY <1>1, <1>6, <2>1, RelayTyped, NamesOfRelay DEF IInv
<1>7. ASSUME NEW n \in Names, Others(n) PROVE IInv'
  <2>1. OneUp'
    BY <1>3, <1>7 DEF Others
  <2>. QED
    BY <1>1, <1>7, <2>1, RelayTyped, NamesOfOthers DEF IInv
<1>8. CASE UNCHANGED vars
  <2>1. Up' = Up /\ Key' = Key
    BY <1>8, OtherStep DEF vars
  <2>. QED
    BY <1>1, <1>3, <1>8, <2>1 DEF vars, IInv, TypeOK, Trying, Tried, Going, Ours
<1>. QED
  BY <1>2, <1>4, <1>5, <1>6, <1>7, <1>8 DEF Next, ProcessStep, KeyStep

LEMMA Invariant == Spec => []IInv
BY Initially, Step, PTL DEF Spec

\* The daemon's processes, files, attempts and names are well typed (cli/index.ts,
\* crypto/keys.ts, registry/auto-register.ts); the proofs below rest on it.
THEOREM TypeCorrect == Spec => []TypeOK
<1>1. IInv => TypeOK
  BY DEF IInv
<1>. QED
  BY <1>1, Invariant, PTL

\* The relay is initialised once, however often a name is registered while the first
\* request for a token is under way (api/server.ts:809).
THEOREM OneRelay == Spec => []OneConnector
<1>1. IInv => OneConnector
  BY DEF IInv, Relay
<1>. QED
  BY <1>1, Invariant, PTL

\* The names that the daemon is registered by and that its relay connection and its messages
\* go by are its own, each until it lapses itself and again once it is registered
\* again, though any may lapse at any time (registry/auto-register.ts:71, :122,
\* api/server.ts:868).
THEOREM OwnNames == Spec => []NamesAreOurs
<1>1. IInv => NamesAreOurs
  <2>. SUFFICES ASSUME IInv, NEW n \in {clawName, relayName, routerName} \ ({NoName} \cup lapsed)
                PROVE  owner[n] = Key.pub
    BY DEF NamesAreOurs
  <2>1. n \in Names
    BY DEF IInv, TypeOK
  <2>. QED
    BY <2>1 DEF IInv, Going, Ours
<1>. QED
  BY <1>1, Invariant, PTL

\* While no name lapses the candidates are taken in their order: none after one that is
\* ours, though answers get lost and attempts overlap (registry/auto-register.ts:96).
THEOREM InOrder == Spec => NoSecondName
<1>1. IInv /\ [Next]_vars =>
        [Up # {} /\ lapses = 0 =>
           \A n \in Names : owner[n] # Key.pub /\ owner'[n] = Key.pub =>
             \A i \in 0 .. n[2] - 1 : owner[<<n[1], i>>] # Key.pub]_vars
  <2>. SUFFICES ASSUME IInv, Next, Up # {}, lapses = 0, NEW n \in Names,
                       owner[n] # Key.pub, owner'[n] = Key.pub, NEW i \in 0 .. n[2] - 1
                PROVE  owner[<<n[1], i>>] # Key.pub
    OBVIOUS
  <2>. TypeOK /\ OneUp /\ Trying /\ Tried /\ Going
    BY DEF IInv
  <2>1. owner' # owner
    OBVIOUS
  <2>2. ASSUME NEW p \in Procs, ProcessStep(p) PROVE FALSE
    BY <2>1, <2>2, ProcessEffect
  <2>3. ASSUME NEW m \in Names, Others(m) PROVE FALSE
    <3>1. Key.pub \notin {Free, Other}
      BY KeyType, DaemonAssumption
    <3>2. owner'[n] \in {owner[n], Free, Other}
      BY <2>3 DEF Others, TypeOK
    <3>. QED
      BY <3>1, <3>2
  <2>4. PICK a \in Attempts : Registered(a) \/ NoReply(a)
    BY <2>1, <2>2, <2>3 DEF Next, ProcessStep, KeyStep, Taken, Refused, Token, Stop, Probe,
       InitialTimer, Heartbeat, Refresh, NewGateway
  <2> DEFINE x  == attempt[a].agent
             at == attempt[a].at
  <2>5. Takes(Asked(a)) /\ attempt[a] # None
    BY <2>4, NamesOfAnswer DEF Registered, NoReply, Waiting
  <2>6. n = Candidate(x, at)
    BY <2>5 DEF Takes, Asked, TypeOK
  <2>7. x \in Agents /\ at \in 0 .. Last(x) /\ MaxSuffix \in Nat /\ Last(x) \in Nat
    BY <2>5, DaemonAssumption DEF Trying, Last
  <2>8. \A j \in 0 .. at - 1 : owner[Candidate(x, j)] # Key.pub
    BY <2>5 DEF Tried
  <2>9. CASE at <= MaxSuffix
    <3>1. n = <<x, at>>
      BY <2>6, <2>9 DEF Candidate
    <3>2. i \in 0 .. at - 1 /\ Candidate(x, i) = <<n[1], i>>
      BY <2>7, <2>9, <3>1 DEF Candidate
    <3>. QED
      BY <2>8, <3>2
  <2>10. CASE ~(at <= MaxSuffix)
    <3>1. n = <<AutoName, at - MaxSuffix - 1>>
      BY <2>6, <2>10 DEF Candidate
    <3> DEFINE j == i + MaxSuffix + 1
    <3>2. j \in 0 .. at - 1 /\ ~(j <= MaxSuffix) /\ j - MaxSuffix - 1 = i
      BY <2>7, <2>10, <3>1
    <3>3. Candidate(x, j) = <<n[1], i>>
      BY <3>1, <3>2 DEF Candidate
    <3>. QED
      BY <2>8, <3>2, <3>3
  <2>. QED
    BY <2>7, <2>9, <2>10
<1>. QED
  BY <1>1, Invariant, PTL DEF Spec, NoSecondName

-----------------------------------------------------------------------------
(* One process at a time, and the files it writes.                         *)

\* As long as no start has overlapped with another or with a stop, one process is alive
\* at most, only a live one is signalled, and the pid file names the one that has
\* written it and is not being stopped.
Lone == ~raced =>
  /\ \A p, q \in Procs : Alive(p) /\ Alive(q) => p = q
  /\ \A p \in sent : Alive(p)
  /\ \A p \in Procs : Alive(p) /\ p \notin sent =>
       stage[p] \in {"forked", "checked"} \/ pidFile = p

\* A process that makes an identity has not found one, and what it has written so far
\* is none.
Unwritten(p) ==
  /\ stage[p] = "made" => ~KeysExist /\ mine[p].priv # pub
  /\ stage[p] = "privOpen" => priv = Empty /\ mine[p].priv # pub
  /\ stage[p] = "privWritten" => priv # pub
  /\ stage[p] = "pubOpen" => pub = Empty

Alone == Lone /\ (~raced => \A p \in Procs : Unwritten(p))

LEMMA AloneKept ==
  ASSUME Alone, UNCHANGED <<stage, mine, sent, pidFile, priv, pub, raced>>
  PROVE  Alone'
BY DEF Alone, Lone, Unwritten, Alive, KeysExist

\* A process is forked when there is none.
LEMMA AloneStart ==
  ASSUME TypeOK, Alone, NEW p \in Procs, Start(p)
  PROVE  Alone'
<1>. SUFFICES ASSUME ~raced' PROVE Alone'
  BY DEF Alone, Lone
<1>1. /\ ~raced /\ sent = {} /\ \A q \in Procs : stage[q] \in {"gone", "up"}
      /\ stage' = [stage EXCEPT ![p] = "forked"]
      /\ UNCHANGED <<mine, sent, pidFile, priv, pub>>
  BY DEF Start, TypeOK
<1>2. \A q \in Procs : stage[q] = "gone"
  <2>. SUFFICES ASSUME NEW q \in Procs, stage[q] # "gone" PROVE FALSE
    OBVIOUS
  <2>1. Alive(q) /\ stage[q] = "up" /\ q \notin sent
    BY <1>1 DEF Alive
  <2>2. pidFile = q
    BY <1>1, <2>1 DEF Alone, Lone
  <2>. QED
    BY <2>1, <2>2, DaemonAssumption DEF Start, Running
<1>3. \A q \in Procs : stage'[q] = IF q = p THEN "forked" ELSE "gone"
  BY <1>1, <1>2 DEF TypeOK
<1>4. Lone'
  BY <1>1, <1>3 DEF Lone, Alive
<1>5. \A q \in Procs : Unwritten(q)'
  BY <1>3 DEF Unwritten
<1>. QED
  BY <1>4, <1>5 DEF Alone

\* The one that ends leaves none.
LEMMA AloneEnds ==
  ASSUME TypeOK, Alone, NEW p \in Procs, Alive(p), Ends(p)
  PROVE  Alone'
<1>. SUFFICES ASSUME ~raced PROVE Alone'
  BY DEF Alone, Lone, Ends
<1>1. /\ stage' = [stage EXCEPT ![p] = "gone"] /\ sent' = sent \ {p} /\ ~raced'
  BY DEF Ends
<1>2. \A q \in Procs : stage'[q] = "gone"
  BY <1>1 DEF Alone, Lone, Alive, TypeOK
<1>3. sent' = {}
  BY <1>1 DEF Alone, Lone, Alive, TypeOK
<1>4. Lone'
  BY <1>2, <1>3 DEF Lone, Alive
<1>5. \A q \in Procs : Unwritten(q)'
  BY <1>2 DEF Unwritten
<1>. QED
  BY <1>4, <1>5 DEF Alone

LEMMA AloneStop ==
  ASSUME TypeOK, Alone, Stop
  PROVE  Alone'
<1>1. /\ Alive(pidFile) /\ sent' = sent \cup {pidFile}
      /\ UNCHANGED <<stage, mine, priv, pub, raced>>
  BY DEF Stop, Running
<1>2. Lone'
  BY <1>1 DEF Alone, Lone, Alive, TypeOK
<1>3. \A q \in Procs : Unwritten(q) => Unwritten(q)'
  BY <1>1 DEF Unwritten, KeysExist
<1>. QED
  BY <1>1, <1>2, <1>3 DEF Alone

\* The one there is goes on.
LEMMA AloneGoesOn ==
  ASSUME TypeOK, Alone, NEW p \in Procs, Alive(p), NEW to \in Stages \ {"gone"},
         stage' = [stage EXCEPT ![p] = to], UNCHANGED <<sent, raced>>,
         \/ pidFile' = p
         \/ /\ pidFile' = pidFile
            /\ stage[p] \in {"forked", "checked"} <=> to \in {"forked", "checked"},
         ~raced => Unwritten(p)'
  PROVE  Alone'
<1>. SUFFICES ASSUME ~raced PROVE Alone'
  BY DEF Alone, Lone
<1>1. \A q \in Procs : q # p => stage[q] = "gone" /\ stage'[q] = "gone"
  BY DEF Alone, Lone, Alive, TypeOK
<1>2. stage'[p] = to
  BY DEF TypeOK
<1>3. Lone'
  BY <1>1, <1>2 DEF Alone, Lone, Alive
<1>4. \A q \in Procs : Unwritten(q)'
  BY <1>1 DEF Unwritten
<1>. QED
  BY <1>3, <1>4 DEF Alone

LEMMA AloneProcess ==
  ASSUME TypeOK, Alone, NEW p \in Procs,
         \/ Start(p) \/ ChildChecks(p) \/ WritePid(p) \/ Terminate(p) \/ Crash(p) \/ Listen(p)
  PROVE  Alone'
<1>1. CASE Start(p)
  BY <1>1, AloneStart
<1>2. CASE ChildChecks(p)
  <2>1. Alive(p) /\ stage[p] = "forked"
    BY <1>2 DEF ChildChecks, Alive
  <2>2. CASE Ends(p)
    BY <2>1, <2>2, AloneEnds
  <2>3. CASE stage' = [stage EXCEPT ![p] = "checked"] /\ UNCHANGED <<sent, raced, pidFile>>
    <3>1. Unwritten(p)'
      BY <2>3 DEF Unwritten, TypeOK
    <3>. QED
      BY <2>1, <2>3, <3>1, AloneGoesOn DEF Stages
  <2>. QED
    BY <1>2, <2>2, <2>3 DEF ChildChecks
<1>3. CASE WritePid(p)
  <2>1. Unwritten(p)'
    BY <1>3 DEF WritePid, Unwritten, TypeOK
  <2>2. Alive(p)
    BY <1>3 DEF WritePid, Alive
  <2>. QED
    BY <1>3, <2>1, <2>2, AloneGoesOn DEF WritePid, Stages
<1>4. CASE Terminate(p)
  <2>1. CASE raced
    BY <1>4, <2>1 DEF Terminate, Ends, Alone, Lone
  <2>2. CASE ~raced
    BY <1>4, <2>2, AloneEnds DEF Terminate, Alone, Lone
  <2>. QED
    BY <2>1, <2>2
<1>5. CASE Crash(p)
  BY <1>5, AloneEnds DEF Crash
<1>6. CASE Listen(p)
  <2>1. Alive(p) /\ stage[p] = "ready" /\ UNCHANGED pidFile
    BY <1>6 DEF Listen, Alive, At
  <2>2. CASE Ends(p)
    BY <2>1, <2>2, AloneEnds
  <2>3. CASE At(p, "ready", "up") /\ UNCHANGED <<sent, raced>>
    <3>1. Unwritten(p)'
      BY <2>3 DEF At, Unwritten, TypeOK
    <3>. QED
      BY <2>1, <2>3, <3>1, AloneGoesOn DEF At, Stages
  <2>. QED
    BY <1>6, <2>2, <2>3 DEF Listen
<1>. QED
  BY <1>1, <1>2, <1>3, <1>4, <1>5, <1>6

\* What loadOrCreateKeys does to the files.
LEMMA AloneKeys ==
  ASSUME TypeOK, Alone, NEW p \in Procs, KeyStep(p)
  PROVE  Alone'
<1>1. ASSUME NEW from \in Stages \ {"gone", "forked", "checked"},
             NEW to \in Stages \ {"gone", "forked", "checked"},
             At(p, from, to), UNCHANGED <<sent, raced, pidFile>>, ~raced => Unwritten(p)'
      PROVE  Alone'
  <2>1. Alive(p)
    BY <1>1 DEF At, Alive
  <2>. QED
    BY <1>1, <2>1, AloneGoesOn DEF At
<1>2. CASE LookForKeys(p)
  <2>1. CASE At(p, "starting", "reading")
    <3>1. Unwritten(p)'
      BY <2>1 DEF At, Unwritten, TypeOK
    <3>. QED
      BY <1>1, <1>2, <2>1, <3>1 DEF LookForKeys, Stages
  <2>2. CASE At(p, "starting", "made") /\ ~KeysExist
    <3>1. PICK k \in KeyPairs \ {priv, pub} : mine' = [mine EXCEPT ![p] = [priv |-> k, pub |-> k]]
      BY <1>2, <2>2 DEF LookForKeys, At, TypeOK
    <3>2. mine'[p].priv = k /\ stage'[p] = "made" /\ UNCHANGED <<priv, pub>>
      BY <1>2, <2>2, <3>1 DEF LookForKeys, At, TypeOK
    <3>3. Unwritten(p)'
      BY <2>2, <3>1, <3>2 DEF Unwritten, KeysExist
    <3>. QED
      BY <1>1, <1>2, <2>2, <3>3 DEF LookForKeys, Stages
  <2>. QED
    BY <1>2, <2>1, <2>2 DEF LookForKeys
<1>3. CASE ReadPriv(p) \/ ReadPub(p)
  <2>1. Unwritten(p)'
    BY <1>3 DEF ReadPriv, ReadPub, At, Unwritten, TypeOK
  <2>. QED
    BY <1>1, <1>3, <2>1 DEF ReadPriv, ReadPub, Stages
<1>4. CASE OpenPriv(p)
  <2>1. ~raced => Unwritten(p)'
    BY <1>4 DEF OpenPriv, At, Unwritten, Alone, TypeOK
  <2>. QED
    BY <1>1, <1>4, <2>1 DEF OpenPriv, Stages
<1>5. CASE WritePriv(p)
  <2>1. ~raced => Unwritten(p)'
    BY <1>5 DEF WritePriv, At, Unwritten, Alone, TypeOK
  <2>. QED
    BY <1>1, <1>5, <2>1 DEF WritePriv, Stages
<1>6. CASE OpenPub(p)
  <2>1. ~raced => Unwritten(p)'
    BY <1>6 DEF OpenPub, At, Unwritten, TypeOK
  <2>. QED
    BY <1>1, <1>6, <2>1 DEF OpenPub, Stages
<1>7. CASE WritePub(p)
  <2>1. Unwritten(p)'
    BY <1>7 DEF WritePub, At, Unwritten, TypeOK
  <2>. QED
    BY <1>1, <1>7, <2>1 DEF WritePub, Stages
<1>. QED
  BY <1>2, <1>3, <1>4, <1>5, <1>6, <1>7 DEF KeyStep

LEMMA AloneStep ==
  ASSUME TypeOK, Alone, [Next]_vars
  PROVE  Alone'
<1>1. ASSUME NEW p \in Procs, ProcessStep(p) PROVE Alone'
  BY <1>1, AloneProcess, AloneKeys DEF ProcessStep
<1>2. ASSUME NEW a \in Attempts, Registered(a) \/ Taken(a) \/ Refused(a) \/ NoReply(a)
      PROVE  Alone'
  BY <1>2, AloneKept DEF Registered, Taken, Refused, NoReply
<1>3. ASSUME NEW n \in Names, Token(n) \/ Others(n) PROVE Alone'
  BY <1>3, AloneKept DEF Token, Others
<1>4. CASE Stop
  BY <1>4, AloneStop
<1>5. CASE Probe \/ InitialTimer \/ Heartbeat \/ Refresh \/ NewGateway
  BY <1>5, AloneKept DEF Probe, InitialTimer, Heartbeat, Refresh, NewGateway
<1>6. CASE UNCHANGED vars
  BY <1>6, AloneKept DEF vars
<1>. QED
  BY <1>1, <1>2, <1>3, <1>4, <1>5, <1>6 DEF Next, ProcessStep, KeyStep

LEMMA AloneAlways == Spec => [](IInv /\ Alone)
<1>1. Init => Alone
  BY DEF Init, Alone, Lone, Alive, Unwritten
<1>2. IInv /\ Alone /\ [Next]_vars => Alone'
  BY AloneStep DEF IInv
<1>. QED
  BY <1>1, <1>2, Invariant, PTL DEF Spec

\* The daemon that listens is the one the pid file names, for the CLI to find, to signal
\* and not to start twice, through crashes, restarts and stale pid files, as long as no
\* start has overlapped with another or with a stop (cli/index.ts:226).
THEOREM Named == Spec => []PidNamesDaemon
<1>1. Alone => PidNamesDaemon
  BY DEF Alone, Lone, Alive, PidNamesDaemon, Up
<1>. QED
  BY <1>1, AloneAlways, PTL

\* A key pair that is stored whole is not replaced or torn, by crashes, restarts or a
\* process that looks for it (crypto/keys.ts:30): who writes has found none.
THEOREM Kept == Spec => IdentityStays
<1>1. IInv /\ Alone /\ [Next]_vars => [Whole /\ ~raced' => priv' = priv /\ pub' = pub]_vars
  <2>. SUFFICES ASSUME IInv, Alone, Next, Whole, ~raced'
                PROVE  priv' = priv /\ pub' = pub
    OBVIOUS
  <2>1. priv = pub /\ priv \notin {NoKey, Empty}
    BY DaemonAssumption DEF Whole
  <2>2. ASSUME NEW p \in Procs, ProcessStep(p) PROVE priv' = priv /\ pub' = pub
    <3>1. CASE OpenPriv(p) \/ WritePriv(p) \/ OpenPub(p) \/ WritePub(p)
      <4>1. ~raced /\ stage[p] \in {"made", "privOpen", "privWritten", "pubOpen"}
        BY <3>1 DEF OpenPriv, WritePriv, OpenPub, WritePub, At
      <4>2. Unwritten(p)
        BY <4>1 DEF Alone
      <4>. QED
        BY <2>1, <4>1, <4>2 DEF Unwritten, KeysExist
    <3>2. CASE LookForKeys(p) \/ ReadPriv(p) \/ ReadPub(p)
      BY <3>2 DEF LookForKeys, ReadPriv, ReadPub
    <3>3. CASE Start(p) \/ WritePid(p)
      BY <3>3 DEF Start, WritePid
    <3>4. CASE ChildChecks(p) \/ Terminate(p) \/ Crash(p) \/ Listen(p)
      BY <3>4 DEF ChildChecks, Terminate, Crash, Listen, Ends
    <3>. QED
      BY <2>2, <3>1, <3>2, <3>3, <3>4 DEF ProcessStep, KeyStep
  <2>3. CASE \E a \in Attempts : Registered(a) \/ Taken(a) \/ Refused(a) \/ NoReply(a)
    BY <2>3 DEF Registered, Taken, Refused, NoReply
  <2>4. CASE \E n \in Names : Token(n) \/ Others(n)
    BY <2>4 DEF Token, Others
  <2>5. CASE Stop \/ Probe \/ InitialTimer \/ Heartbeat \/ Refresh \/ NewGateway
    BY <2>5 DEF Stop, Probe, InitialTimer, Heartbeat, Refresh, NewGateway
  <2>. QED
    BY <2>2, <2>3, <2>4, <2>5 DEF Next, ProcessStep, KeyStep
<1>. QED
  BY <1>1, AloneAlways, PTL DEF Spec, IdentityStays
=============================================================================
