-------------------------------- MODULE Daemon --------------------------------
(***************************************************************************)
(* The life of a daemon: processes that the CLI forks and stops by a pid   *)
(* file (cli/index.ts), the identity that the first of them makes          *)
(* (crypto/keys.ts), and what the one that listens registers with it       *)
(* (registry/auto-register.ts, registry/client.ts) and connects to the     *)
(* relay (startDaemon in api/server.ts).                                   *)
(*                                                                         *)
(* The probe and the timers of a registration take seconds, and a process  *)
(* that cannot listen ends at once: only the one that listens registers.   *)
(* A name is a base, an agent id or the auto_name, and a suffix.           *)
(***************************************************************************)
EXTENDS Integers

CONSTANTS Procs,       \* process ids
          KeyPairs,    \* key pairs that may be made
          Agents,      \* agent ids of the local OpenClaw
          AutoName,    \* the auto_name of the local instance
          MaxSuffix,   \* MAX_SUFFIX
          MaxAttempts, \* calls of tryRegister under way (a bound)
          MaxStarts,   \* times the CLI forks (a bound)
          MaxLapses,   \* names that lapse while one process listens (a bound),
          MaxRacedLapses, \* and once a start has overlapped with another
          NoProc, NoAgent, NoName, NoKey, Empty, Free, Other

Attempts == 1 .. MaxAttempts
Bases    == Agents \cup {AutoName}
Names    == Bases \X (0 .. MaxSuffix)

ASSUME DaemonAssumption ==
  /\ NoProc \notin Procs /\ NoAgent \notin Agents
  /\ {NoKey, Empty, Free, Other} \cap KeyPairs = {} /\ NoName \notin Names
  /\ {NoKey, Empty} \cap {Free, Other} = {}
  /\ MaxSuffix \in Nat

VARIABLES
  stage,     \* how far each process is
  mine,      \* the key pair each process has in memory
  sent,      \* the processes that a SIGTERM is on its way to
  pidFile,   \* the process that the pid file names
  priv, pub, \* identity.key and identity.pub
  starts,    \* how often the CLI has forked
  raced,     \* the CLI has started a process while another was starting or stopping
  gateway,   \* the agent id of the OpenClaw that runs here
  agent,     \* LocalProbe.localAgentId
  attempt,   \* the calls of tryRegister under way
  clawName,  \* AutoRegister.registeredClawName
  initial,   \* the initial timer has not fired
  timer,     \* the heartbeat timer is set
  asking,    \* token requests under way for the first connector
  begun,     \* relayInitializing
  connectors,\* connectors made on registration
  relayName, routerName, \* the names that the connector and the router go by
  owner,     \* the public registry: who owns each name
  lapses,    \* times a name has lapsed since this process began to listen
  lapsed     \* its own names that have, and that no answer has given back since

files  == <<pidFile, priv, pub>>
bounds == <<starts, raced>>
procs  == <<stage, mine, sent>>
relay  == <<asking, begun, connectors, relayName, routerName>>
memory == <<agent, attempt, initial, clawName, timer, relay>>
world  == <<gateway, owner, lapses, lapsed>>
vars   == <<procs, files, bounds, memory, world>>

Stages == {"gone", "forked", "checked", "starting", "reading", "readPriv",
           "made", "privOpen", "privWritten", "pubOpen", "ready", "up"}
None   == [agent |-> NoAgent, at |-> 0]
NoKeys == [priv |-> NoKey, pub |-> NoKey]

\* One process listens on the port at most.
Up       == {p \in Procs : stage[p] = "up"}
Alive(p) == p \in Procs /\ stage[p] # "gone"
\* readPid: the file names a process that exists.
Running  == pidFile # NoProc /\ Alive(pidFile)

TypeOK ==
  /\ stage \in [Procs -> Stages] /\ sent \subseteq Procs /\ pidFile \in Procs \cup {NoProc}
  /\ {priv, pub} \subseteq KeyPairs \cup {NoKey, Empty}
  /\ mine \in [Procs -> [priv: KeyPairs \cup {NoKey}, pub: KeyPairs \cup {NoKey, Empty}]]
  /\ starts \in Nat /\ raced \in BOOLEAN
  /\ {gateway, agent} \subseteq Agents \cup {NoAgent}
  /\ attempt \in [Attempts -> [agent: Agents \cup {NoAgent}, at: Nat]]
  /\ {clawName, relayName, routerName} \subseteq Names \cup {NoName}
  /\ initial \in BOOLEAN /\ timer \in BOOLEAN /\ begun \in BOOLEAN /\ connectors \in Nat
  /\ asking \in [Names -> Nat]
  /\ owner \in [Names -> KeyPairs \cup {Free, Other}]
  /\ lapses \in Nat /\ lapsed \subseteq Names

FreshMemory ==
  /\ agent' = NoAgent /\ attempt' = [a \in Attempts |-> None] /\ clawName' = NoName
  /\ initial' = TRUE /\ timer' = FALSE /\ asking' = [n \in Names |-> 0]
  /\ begun' = FALSE /\ connectors' = 0
  /\ relayName' = NoName /\ routerName' = NoName /\ lapses' = 0 /\ lapsed' = {}

Init ==
  /\ stage = [p \in Procs |-> "gone"] /\ mine = [p \in Procs |-> NoKeys] /\ sent = {}
  /\ pidFile = NoProc /\ priv = NoKey /\ pub = NoKey
  /\ starts = 0 /\ raced = FALSE
  /\ gateway = NoAgent
  /\ agent = NoAgent /\ attempt = [a \in Attempts |-> None] /\ clawName = NoName
  /\ initial = TRUE /\ timer = FALSE /\ asking = [n \in Names |-> 0]
  /\ begun = FALSE /\ connectors = 0
  /\ relayName = NoName /\ routerName = NoName
  /\ owner \in [Names -> {Free, Other}] /\ lapses = 0 /\ lapsed = {}

-----------------------------------------------------------------------------
(* The CLI and its processes.                                              *)

\* cmdStart in the user's shell: a process is forked unless one runs already.  The
\* system does not give a pid again while the file still names it.
Start(p) ==
  /\ ~Running /\ stage[p] = "gone" /\ p # pidFile /\ starts < MaxStarts
  /\ starts' = starts + 1
  /\ raced' = (raced \/ \E q \in Procs : stage[q] \notin {"gone", "up"} \/ q \in sent)
  /\ raced' => lapses <= MaxRacedLapses   \* bound
  /\ stage' = [stage EXCEPT ![p] = "forked"]
  /\ UNCHANGED <<mine, sent, files, memory, world>>

\* The process p ends: its memory goes, and its port is free.
Ends(p) ==
  /\ stage' = [stage EXCEPT ![p] = "gone"] /\ mine' = [mine EXCEPT ![p] = NoKeys]
  /\ sent' = sent \ {p}
  /\ IF stage[p] = "up" THEN FreshMemory ELSE UNCHANGED <<memory, lapses, lapsed>>
  /\ UNCHANGED <<priv, pub, starts, raced, gateway, owner>>

\* cmdStart in the child: it looks at the pid file too,
ChildChecks(p) ==
  /\ stage[p] = "forked"
  /\ \/ Running /\ Ends(p)
     \/ /\ ~Running /\ stage' = [stage EXCEPT ![p] = "checked"]
        /\ UNCHANGED <<mine, sent, priv, pub, starts, raced, memory, world>>
  /\ UNCHANGED pidFile

\* Mutant of WritePid: the child does not write its pid.
WritePidNever(p) ==
  /\ stage[p] = "checked" /\ stage' = [stage EXCEPT ![p] = "starting"]
  /\ UNCHANGED <<mine, sent, files, bounds, memory, world>>

\* and writes its own.
WritePid(p) ==
  /\ stage[p] = "checked" /\ stage' = [stage EXCEPT ![p] = "starting"]
  /\ pidFile' = p
  /\ UNCHANGED <<mine, sent, priv, pub, bounds, memory, world>>

\* cmdStop: a signal, and the file is removed.  A stale file changes nothing.
Stop ==
  /\ Running /\ sent' = sent \cup {pidFile} /\ pidFile' = NoProc
  /\ UNCHANGED <<stage, mine, priv, pub, bounds, memory, world>>

\* The handler removes the file, whoever it names; there is none before writePid.
Terminate(p) ==
  /\ p \in sent
  /\ Ends(p) /\ pidFile' = IF stage[p] \in {"forked", "checked"} THEN pidFile ELSE NoProc

Crash(p) ==
  /\ Alive(p)
  /\ Ends(p) /\ UNCHANGED pidFile

-----------------------------------------------------------------------------
(* loadOrCreateKeys.                                                       *)

At(p, from, to) == stage[p] = from /\ stage' = [stage EXCEPT ![p] = to]

\* Mutant of KeysExist: what is stored is not looked for.
KeysIgnored == FALSE

KeysExist == priv # NoKey /\ pub # NoKey

\* What is there is read; else a key pair is made.
LookForKeys(p) ==
  /\ \/ KeysExist /\ At(p, "starting", "reading") /\ UNCHANGED mine
     \/ /\ ~KeysExist /\ At(p, "starting", "made")
        /\ \E k \in KeyPairs \ ({priv, pub} \cup UNION {{mine[q].priv} : q \in Procs}
                                 \cup {owner[n] : n \in Names}) :
             mine' = [mine EXCEPT ![p] = [priv |-> k, pub |-> k]]
  /\ UNCHANGED <<sent, files, bounds, memory, world>>

\* An empty private key cannot be parsed: the daemon goes on without an identity.
ReadPriv(p) ==
  /\ \/ priv = Empty /\ At(p, "reading", "ready") /\ UNCHANGED mine
     \/ /\ priv # Empty /\ At(p, "reading", "readPriv")
        /\ mine' = [mine EXCEPT ![p].priv = priv]
  /\ UNCHANGED <<sent, files, bounds, memory, world>>

ReadPub(p) ==
  /\ At(p, "readPriv", "ready") /\ mine' = [mine EXCEPT ![p].pub = pub]
  /\ UNCHANGED <<sent, files, bounds, memory, world>>

\* Each file is truncated, then written.
OpenPriv(p) ==
  /\ At(p, "made", "privOpen") /\ priv' = Empty
  /\ UNCHANGED <<mine, sent, pidFile, pub, bounds, memory, world>>

WritePriv(p) ==
  /\ At(p, "privOpen", "privWritten") /\ priv' = mine[p].priv
  /\ UNCHANGED <<mine, sent, pidFile, pub, bounds, memory, world>>

OpenPub(p) ==
  /\ At(p, "privWritten", "pubOpen") /\ pub' = Empty
  /\ UNCHANGED <<mine, sent, pidFile, priv, bounds, memory, world>>

WritePub(p) ==
  /\ At(p, "pubOpen", "ready") /\ pub' = mine[p].pub
  /\ UNCHANGED <<mine, sent, pidFile, priv, bounds, memory, world>>

\* app.listen: the port is free, or the process ends and leaves its pid in the file.
Listen(p) ==
  /\ \/ Up = {} /\ At(p, "ready", "up")
        /\ UNCHANGED <<mine, sent, priv, pub, starts, raced, memory, world>>
     \/ Up # {} /\ stage[p] = "ready" /\ Ends(p)
  /\ UNCHANGED pidFile

-----------------------------------------------------------------------------
(* AutoRegister of the process that listens.                               *)

Key    == LET p == CHOOSE q \in Procs : q \in Up IN mine[p]
Signs  == Key.priv # NoKey /\ Key.pub = Key.priv
Idle   == {a \in Attempts : attempt[a] = None}

\* The candidates in the order they are tried, counted from zero.
Last(x) == IF AutoName = x THEN MaxSuffix ELSE 2 * MaxSuffix + 1
Candidate(x, i) == IF i <= MaxSuffix THEN <<x, i>> ELSE <<AutoName, i - MaxSuffix - 1>>

\* tryRegister starts, unless no agent is known; without keys there is no AutoRegister.
Try(x) ==
  IF x # NoAgent /\ Key.priv # NoKey
  THEN \E a \in Idle : /\ \A b \in Idle : a <= b
                       /\ attempt' = [attempt EXCEPT ![a] = [agent |-> x, at |-> 0]]
  ELSE UNCHANGED attempt

\* Mutant of Probe: an agent that was known already is no discovery.
ProbeNew ==
  /\ Up # {}
  /\ agent' \in IF gateway # NoAgent THEN {gateway} ELSE {agent, NoAgent}
  /\ IF agent' # agent /\ gateway # NoAgent /\ clawName = NoName THEN Try(gateway)
                                                               ELSE UNCHANGED attempt
  /\ UNCHANGED <<procs, files, bounds, initial, clawName, timer, relay, world>>

\* LocalProbe.probe: the agent id is kept when another framework answers in its place.
\* A discovery retries the registration until there is a name.
Probe ==
  /\ Up # {}
  /\ agent' \in IF gateway # NoAgent THEN {gateway} ELSE {agent, NoAgent}
  /\ IF gateway # NoAgent /\ clawName = NoName THEN Try(gateway) ELSE UNCHANGED attempt
  /\ UNCHANGED <<procs, files, bounds, initial, clawName, timer, relay, world>>

InitialTimer ==
  /\ Up # {} /\ initial /\ initial' = FALSE
  /\ Try(agent)
  /\ UNCHANGED <<procs, files, bounds, agent, clawName, timer, relay, world>>

Heartbeat ==
  /\ Up # {} /\ timer
  /\ Try(agent)
  /\ UNCHANGED <<procs, files, bounds, agent, initial, clawName, timer, relay, world>>

Waiting(a) == Up # {} /\ attempt[a] # None
Asked(a)   == Candidate(attempt[a].agent, attempt[a].at)
Done(a)    == attempt' = [attempt EXCEPT ![a] = None]

\* Mutant of Begin: the flag is not looked at.
BeginAgain(n) ==
  /\ asking' = IF connectors = 0 THEN [asking EXCEPT ![n] = @ + 1] ELSE asking
  /\ begun' = TRUE

\* The registered event: the relay is initialised once.
Begin(n) ==
  /\ asking' = IF connectors = 0 /\ ~begun THEN [asking EXCEPT ![n] = @ + 1] ELSE asking
  /\ begun' = TRUE

\* The registry registers the name for us, or renews it.
Registered(a) ==
  /\ Waiting(a) /\ Signs /\ owner[Asked(a)] \in {Free, Key.pub}
  /\ owner' = [owner EXCEPT ![Asked(a)] = Key.pub]
  /\ lapsed' = lapsed \ {Asked(a)}
  /\ clawName' = Asked(a) /\ timer' = TRUE
  /\ Begin(Asked(a)) /\ Done(a)
  /\ UNCHANGED <<procs, files, bounds, agent, initial, connectors, relayName, routerName,
                 gateway, lapses>>

\* 409: the next candidate, until they are exhausted.
NextCandidate(a) ==
  IF attempt[a].at < Last(attempt[a].agent)
  THEN attempt' = [attempt EXCEPT ![a].at = @ + 1]
  ELSE Done(a)

\* Mutant of Taken: a name that is taken counts as ours.
TakenAsOurs(a) ==
  /\ Waiting(a) /\ Signs /\ owner[Asked(a)] \notin {Free, Key.pub}
  /\ clawName' = Asked(a) /\ timer' = TRUE
  /\ Begin(Asked(a)) /\ Done(a)
  /\ UNCHANGED <<procs, files, bounds, agent, initial, connectors, relayName, routerName,
                 world>>

Taken(a) ==
  /\ Waiting(a) /\ Signs /\ owner[Asked(a)] \notin {Free, Key.pub}
  /\ NextCandidate(a)
  /\ UNCHANGED <<procs, files, bounds, agent, initial, clawName, timer, relay, world>>

\* Any other 4xx ends the attempt.
Refused(a) ==
  /\ Waiting(a) /\ ~Signs /\ Done(a)
  /\ UNCHANGED <<procs, files, bounds, agent, initial, clawName, timer, relay, world>>

\* Mutant of NoReply: any error is a reason to try the next name.
NoReplyNext(a) ==
  /\ Waiting(a)
  /\ \/ UNCHANGED owner
     \/ Signs /\ owner[Asked(a)] = Free /\ owner' = [owner EXCEPT ![Asked(a)] = Key.pub]
  /\ NextCandidate(a)
  /\ UNCHANGED <<procs, files, bounds, agent, initial, clawName, timer, relay, gateway,
                 lapses, lapsed>>

\* No answer, or a 5xx: the same name again, and after MAX_RETRIES times no more.  The
\* request may have been handled all the same.
NoReply(a) ==
  /\ Waiting(a)
  /\ \/ UNCHANGED owner
     \/ Signs /\ owner[Asked(a)] = Free /\ owner' = [owner EXCEPT ![Asked(a)] = Key.pub]
  /\ UNCHANGED attempt \/ Done(a)
  /\ UNCHANGED <<procs, files, bounds, agent, initial, clawName, timer, relay, gateway,
                 lapses, lapsed>>

\* The token for the first connector; a failure is never made good.
Token(n) ==
  /\ asking[n] > 0 /\ asking' = [asking EXCEPT ![n] = @ - 1]
  /\ \/ /\ connectors' = connectors + 1 /\ relayName' = n
        /\ routerName' = IF routerName = NoName THEN n ELSE routerName
     \/ UNCHANGED <<connectors, relayName, routerName>>
  /\ UNCHANGED <<procs, files, bounds, agent, attempt, initial, clawName, timer, begun,
                 world>>

\* Every 55 minutes a new connector goes by the name of now, the router by that of then.
Refresh ==
  /\ relayName # NoName /\ relayName' = clawName
  /\ UNCHANGED <<procs, files, bounds, agent, attempt, initial, clawName, timer, asking,
                 begun, connectors, routerName, world>>

-----------------------------------------------------------------------------
(* Around the daemon.                                                      *)

NewGateway ==
  /\ gateway' \in (Agents \cup {NoAgent}) \ {gateway}
  /\ UNCHANGED <<procs, files, bounds, memory, owner, lapses, lapsed>>

Lapses == IF raced THEN MaxRacedLapses ELSE MaxLapses

\* Another daemon takes a name; one that is not renewed in time lapses.  That may be the
\* one in use: nothing renews it while no agent id is known or the registry is away.
Others(n) ==
  /\ \/ /\ owner[n] = Free /\ owner' = [owner EXCEPT ![n] = Other]
        /\ UNCHANGED <<lapses, lapsed>>
     \/ /\ owner[n] # Free /\ owner' = [owner EXCEPT ![n] = Free]
        /\ \/ Up = {} /\ UNCHANGED <<lapses, lapsed>>
           \/ /\ Up # {} /\ lapses < Lapses /\ lapses' = lapses + 1
              /\ lapsed' = IF owner[n] = Key.pub THEN lapsed \cup {n} ELSE lapsed
  /\ UNCHANGED <<procs, files, bounds, memory, gateway>>

Next ==
  \/ \E p \in Procs : \/ Start(p) \/ ChildChecks(p) \/ WritePid(p) \/ Terminate(p)
                      \/ Crash(p) \/ LookForKeys(p) \/ ReadPriv(p) \/ ReadPub(p)
                      \/ OpenPriv(p) \/ WritePriv(p) \/ OpenPub(p) \/ WritePub(p) \/ Listen(p)
  \/ \E a \in Attempts : Registered(a) \/ Taken(a) \/ Refused(a) \/ NoReply(a)
  \/ \E n \in Names : Token(n) \/ Others(n)
  \/ Stop \/ Probe \/ InitialTimer \/ Heartbeat \/ Refresh \/ NewGateway

\* The probe and the heartbeat come again and again, and of the requests made again and
\* again one is answered.
Fairness ==
  /\ WF_vars(Probe) /\ WF_vars(Heartbeat)
  /\ SF_vars(\E a \in Attempts : Registered(a)) /\ SF_vars(\E a \in Attempts : Taken(a))

Spec     == Init /\ [][Next]_vars
FairSpec == Spec /\ Fairness

-----------------------------------------------------------------------------
Whole == priv = pub /\ priv \in KeyPairs

\* The daemon that listens is the one the CLI finds, signals and refuses to start
\* twice, as long as no start has overlapped with another or with a stop.
PidNamesDaemon == ~raced => \A p \in Up \ sent : pidFile = p

\* A key pair once stored whole stays, through crashes and restarts.
IdentityStays == [][Whole /\ ~raced' => priv' = priv /\ pub' = pub]_vars

\* The names that the daemon is registered by, that its relay connection goes by since the
\* start or the last refresh (server.ts:868), and that its messages go by since the start
\* (server.ts:974) are its own, whatever attempts overlap and answers get lost.  Excepted
\* is a name that has itself lapsed and was not registered again.
NamesAreOurs ==
  \A n \in {clawName, relayName, routerName} \ ({NoName} \cup lapsed) : owner[n] = Key.pub

\* The daemon does not take a further name of a base while it has an earlier one, although
\* answers get lost, attempts overlap and processes come and go (auto-register.ts:96),
\* unless a name has lapsed meanwhile.
NoSecondName ==
  [][Up # {} /\ lapses = 0 =>
       \A n \in Names : owner[n] # Key.pub /\ owner'[n] = Key.pub =>
         \A i \in 0 .. n[2] - 1 : owner[<<n[1], i>>] # Key.pub]_vars

\* server.ts:809: the relay is initialised once only.
OneConnector == connectors <= 1

\* A daemon that runs with its identity is in the end registered under the agent id of
\* its OpenClaw, or under the auto_name, if one of their names is free for good.
Registers ==
  \A x \in Agents : \A i \in 0 .. Last(x) :
    <>[](Up # {} /\ Signs /\ gateway = x /\ owner[Candidate(x, i)] \in {Free, Key.pub})
      => <>[](clawName # NoName /\ clawName[1] \in {x, AutoName})
=============================================================================
