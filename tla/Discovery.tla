------------------------------ MODULE Discovery ------------------------------
(***************************************************************************)
(* What the daemon believes of an instance against what runs there: the    *)
(* scanner (scanner/active.ts, scanner/fingerprint.ts), the framework      *)
(* adapters (adapter/), broadcast and mDNS answers, the local probe, the   *)
(* health checker and the card fetcher (a2a/fetcher.ts), all of which      *)
(* upsert one entry per instance.  Merging entries is Registry's subject.  *)
(*                                                                         *)
(* A kind of server is the set of things it answers: "config" the control  *)
(* UI config, "ui" a full one, "/" its root, "health", "ready" and "api"   *)
(* (/api/health) those endpoints, and what they say: "paired", "nanobot",  *)
(* "python" (python_version, on one of NanoBot's ports), "api.nanobot",    *)
(* "api.openfang" (its name), "api.ok" (its status).  id is the            *)
(* implementation its claw-identity.json declares.  A local kind runs on   *)
(* this machine; one with a dir is a NanoClaw project, which no server     *)
(* shows.  net is the way to it: the "lan", or a WireGuard subnet in which *)
(* it is a "peer" of its own or behind one ("vpn").  All listen on ports   *)
(* that are scanned.                                                       *)
(***************************************************************************)
EXTENDS Naturals

CONSTANTS Hosts,     \* instances, a network key each
          Kinds,     \* what may run there
          Flapping,  \* the kinds that the health check does not confirm
          Cards,     \* agent cards that the daemon of a host may serve
          NoCard,
          None       \* no implementation known, or none declared

Signals == {"config", "ui", "/", "health", "ready", "api", "paired", "nanobot", "python",
            "api.nanobot", "api.openfang", "api.ok"}
Nets == {"lan", "peer", "vpn"}
Implementations == {"openclaw", "goclaw", "zeroclaw", "picoclaw", "nanoclaw", "nanobot",
                    "openfang", "unknown"}

ASSUME DiscoveryAssumption ==
  /\ Kinds \subseteq [id: Implementations \cup {None}, answers: SUBSET Signals,
                      local: BOOLEAN, dir: BOOLEAN, net: Nets]
  /\ Flapping \subseteq Kinds /\ NoCard \notin Cards /\ None \notin Implementations

VARIABLES
  kind,      \* what runs at each host
  up,        \* the hosts whose server runs
  served,    \* the card each host's daemon serves, or NoCard
  entry,     \* RegistryStore.instances
  held,      \* the object that a health check under way holds
  live,      \* the hosts whose held object is the one in the map
  pending,   \* CardFetcher.pendingKeys
  fetches,   \* card requests under way
  seen,      \* MdnsListener.seen
  scanning,  \* ActiveScanner.scanning
  todo,      \* the scan's queue
  reply,     \* what the host probed answered to the request for its config
  steady     \* the targets of the scan that have run since it began (history)

vars == <<kind, up, served, entry, held, live, pending, fetches, seen, scanning, todo, reply,
          steady>>
world == <<kind, up, served>>
scan  == <<scanning, todo, reply, steady>>

Entry == [status: {"absent", "online", "offline"}, impl: Implementations \cup {None},
          card: Cards \cup {NoCard}, fresh: BOOLEAN]
Absent == [status |-> "absent", impl |-> None, card |-> NoCard, fresh |-> FALSE]

Known(h)   == entry[h].status # "absent"
Local(h)   == kind[h].local
Answers(h) == IF h \in up THEN kind[h].answers ELSE {}
Id(h)      == IF h \in up THEN kind[h].id ELSE None

TypeOK ==
  /\ kind \in [Hosts -> Kinds] /\ up \subseteq Hosts
  /\ served \in [Hosts -> Cards \cup {NoCard}]
  /\ entry \in [Hosts -> Entry] /\ held \in [Hosts -> Entry] /\ live \subseteq Hosts
  /\ pending \subseteq Hosts /\ fetches \in [Hosts -> Nat]
  /\ seen \subseteq Hosts /\ scanning \in BOOLEAN /\ todo \subseteq Hosts
  /\ reply \in [Hosts -> {"idle", "none", "compat", "full"}] /\ steady \subseteq Hosts

Init ==
  /\ kind \in [Hosts -> Kinds] /\ up \in SUBSET Hosts
  /\ served = [h \in Hosts |-> NoCard]
  /\ entry = [h \in Hosts |-> Absent] /\ held = [h \in Hosts |-> Absent] /\ live = {}
  /\ pending = {} /\ fetches = [h \in Hosts |-> 0]
  /\ seen = {} /\ scanning = FALSE /\ todo = {} /\ reply = [h \in Hosts |-> "idle"]
  /\ steady = {}

-----------------------------------------------------------------------------
(* Identification and health, pure functions of what is answered.          *)

\* OpenClawAdapter.probe.
IsOpenClaw(a) == "config" \in a

\* probeHealth of NanoBot: by the name that /health gives, or by python_version on an
\* expected port; probeApiHealth: by the name that /api/health gives.
NanoBotHealth(a) == "health" \in a /\ a \cap {"nanobot", "python"} # {}
NanoBotApi(a)    == {"api", "api.nanobot"} \subseteq a
IsNanoBot(a)     == NanoBotHealth(a) \/ NanoBotApi(a)

\* By name, or any /api/health whose status is ok.
SaysOpenFang(a) == a \cap {"api.openfang", "api.ok"} # {}
IsOpenFang(a)   == "api" \in a /\ SaysOpenFang(a)

\* analyzeConfig.
Analyzed(config) == IF config = "full" THEN "openclaw" ELSE "goclaw"

\* probeHealth.
ByHealth(a) ==
  CASE "health" \in a /\ "paired" \in a                -> "zeroclaw"
    [] {"health", "ready"} \subseteq a /\ "paired" \notin a -> "picoclaw"
    [] OTHER                                           -> "unknown"

\* probeClawIdentity: a name that is not known is declared all the same.
Declared(id) == id # None

\* identifyImplementation: the declaration, or else the config, or else /health.
Identify(config, id, a) ==
  CASE Declared(id)                      -> id
    [] ~Declared(id) /\ config # "none"  -> Analyzed(config)
    [] ~Declared(id) /\ config = "none"  -> ByHealth(a)

\* The first adapter whose probe accepts, after OpenClaw.
ByAdapter(a) ==
  CASE IsOpenClaw(a) -> "openclaw"
    [] ~IsOpenClaw(a) /\ IsNanoBot(a)                    -> "nanobot"
    [] ~IsOpenClaw(a) /\ ~IsNanoBot(a) /\ IsOpenFang(a)  -> "openfang"
    [] OTHER -> "unknown"

\* probeHost: the implementation found, if any.
Found(config, id, a) ==
  IF config # "none" THEN {Identify(config, id, a)}
  ELSE IF Identify(config, id, a) # "unknown" THEN {Identify(config, id, a)}
  ELSE {ByAdapter(a)} \ {"unknown"}

\* probeConfigEndpoint.
ConfigOf(a) == IF ~IsOpenClaw(a) THEN "none" ELSE IF "ui" \in a THEN "full" ELSE "compat"

\* What the health checks ask for: less than, or not what, the probes accept.
OpenClawOk(a) == "config" \in a
NanoBotOk(a)  == NanoBotHealth(a)
OpenFangOk(a) == {"api", "api.ok"} \subseteq a
RootOk(a)     == "/" \in a

\* checkOne: the check of the implementation recorded, OpenClaw's if there is none and
\* the root's if no adapter has its name.
HealthOk(impl, a) ==
  CASE impl \in {"openclaw", "goclaw", None}      -> OpenClawOk(a)
    [] impl = "nanobot"                           -> NanoBotOk(a)
    [] impl = "openfang"                          -> OpenFangOk(a)
    [] impl = "nanoclaw"                          -> FALSE
    [] impl \in {"zeroclaw", "picoclaw", "unknown"} -> RootOk(a)

-----------------------------------------------------------------------------
(* RegistryStore.upsert, and the card fetcher that listens to it.          *)

\* shouldSkip, negated.
WantsCard(h, e) == ~Local(h) /\ e.status = "online" /\ ~(e.card # NoCard /\ e.fresh)

\* Mutant of AskCards: a key under way is asked again.
AskCardsAgain(H) ==
  /\ pending' = pending \cup H
  /\ fetches' = [h \in Hosts |-> IF h \in H THEN fetches[h] + 1 ELSE fetches[h]]

\* onUpsert and refreshAll: a request for each host of H that has none under way.
AskCards(H) ==
  /\ pending' = pending \cup H
  /\ fetches' = [h \in Hosts |-> IF h \in H \ pending THEN fetches[h] + 1 ELSE fetches[h]]

\* fetchCard: there is a card to be had.
Serves(h) == h \in up /\ served[h] # NoCard

\* What an upsert does not say is kept.
Kept(e, old) ==
  [e EXCEPT !.impl = IF e.impl = None THEN old.impl ELSE e.impl,
            !.card = IF e.card = NoCard THEN old.card ELSE e.card,
            !.fresh = IF e.card = NoCard THEN old.fresh ELSE e.fresh]

\* The object e becomes the entry of h; the event reaches the fetcher at once.
Upsert(h, e) ==
  LET new == Kept(e, entry[h]) IN
    /\ entry' = [entry EXCEPT ![h] = new]
    /\ AskCards({x \in {h} : WantsCard(h, new)})

\* The same, of an object made for it: the one a check holds is no longer the map's.
UpsertNew(h, impl, status) ==
  /\ Upsert(h, [Absent EXCEPT !.impl = impl, !.status = status])
  /\ live' = live \ {h} /\ held' = held

\* Mutant of CardAnswer: only a card that is applied ends the request.
CardAnswerApplied(h) ==
  /\ fetches[h] > 0 /\ fetches' = [fetches EXCEPT ![h] = @ - 1]
  /\ IF Serves(h) /\ Known(h)
     THEN LET new == [entry[h] EXCEPT !.card = served[h], !.fresh = TRUE] IN
            /\ pending' = pending \ {h}
            /\ entry' = [entry EXCEPT ![h] = new]
            /\ held' = [held EXCEPT ![h] = IF h \in live THEN new ELSE @]
     ELSE UNCHANGED <<entry, held, pending>>
  /\ UNCHANGED <<world, live, seen, scan>>

\* fetchAndApply ends: the card goes to the object now in the map, which is upserted
\* while its key is still pending.
CardAnswer(h) ==
  /\ fetches[h] > 0
  /\ fetches' = [fetches EXCEPT ![h] = @ - 1] /\ pending' = pending \ {h}
  /\ IF Serves(h) /\ Known(h)
     THEN LET new == [entry[h] EXCEPT !.card = served[h], !.fresh = TRUE] IN
            /\ entry' = [entry EXCEPT ![h] = new]
            /\ held' = [held EXCEPT ![h] = IF h \in live THEN new ELSE @]
     ELSE UNCHANGED <<entry, held>>
  /\ UNCHANGED <<world, live, seen, scan>>

\* The timer of the card fetcher.
RefreshAll ==
  /\ AskCards({h \in Hosts : Known(h) /\ WantsCard(h, entry[h])})
  /\ UNCHANGED <<world, entry, held, live, seen, scan>>

\* Five minutes later.
CardAges(h) ==
  /\ entry[h].fresh
  /\ entry' = [entry EXCEPT ![h].fresh = FALSE]
  /\ held' = [held EXCEPT ![h].fresh = FALSE]
  /\ UNCHANGED <<world, live, pending, fetches, seen, scan>>

\* DELETE /instances/:id.
Remove(h) ==
  /\ Known(h) /\ entry' = [entry EXCEPT ![h] = Absent] /\ live' = live \ {h}
  /\ steady' = steady \ {h}
  /\ UNCHANGED <<world, held, pending, fetches, seen, scanning, todo, reply>>

-----------------------------------------------------------------------------
(* ActiveScanner.                                                          *)

\* detectWireGuard: are the interfaces found, and wg says which peers they have?  Without
\* the tool, without the right to ask it, or after three seconds it does not.
PeersKnown == BOOLEAN

\* extractPeerIPs: only an address that is allowed by itself is a peer's.
IsPeer(h) == kind[h].net = "peer"

\* detectSubnets, and the addresses probed in each: all of it, or the known peers.
InSubnets(known) ==
  {h \in Hosts : ~Local(h) /\ (kind[h].net # "lan" /\ known => IsPeer(h))}

\* scan(): one at a time.
StartScan(H) ==
  /\ ~scanning /\ scanning' = TRUE /\ todo' = H /\ steady' = H \cap up
  /\ UNCHANGED <<world, entry, held, live, pending, fetches, seen, reply>>

\* POST /scan with targets, or without.
ScanTargets == \E H \in SUBSET {h \in Hosts : ~Local(h)} : StartScan(H)
ScanSubnets == \E known \in PeersKnown : StartScan(InSubnets(known))

\* A worker takes a target and has the answer to its first request.
ProbeConfig(h) ==
  /\ h \in todo /\ todo' = todo \ {h}
  /\ reply' = [reply EXCEPT ![h] = ConfigOf(Answers(h))]
  /\ UNCHANGED <<world, entry, held, live, pending, fetches, seen, scanning, steady>>

\* Mutant of ProbeHost: only a host with a config is an instance.
ProbeHostConfig(h) ==
  /\ scanning /\ h \notin todo /\ reply[h] # "idle"
  /\ reply' = [reply EXCEPT ![h] = "idle"]
  /\ IF reply[h] # "none" THEN UpsertNew(h, Analyzed(reply[h]), "online")
                          ELSE UNCHANGED <<entry, held, live, pending, fetches>>
  /\ UNCHANGED <<world, seen, scanning, todo, steady>>

\* The requests that follow, and the upsert.
ProbeHost(h) ==
  /\ scanning /\ h \notin todo /\ reply[h] # "idle"
  /\ reply' = [reply EXCEPT ![h] = "idle"]
  /\ \/ \E impl \in Found(reply[h], Id(h), Answers(h)) : UpsertNew(h, impl, "online")
     \/ Found(reply[h], Id(h), Answers(h)) = {} /\ UNCHANGED <<entry, held, live, pending, fetches>>
  /\ UNCHANGED <<world, seen, scanning, todo, steady>>

ScanEnds ==
  /\ scanning /\ todo = {} /\ \A h \in Hosts : reply[h] = "idle"
  /\ scanning' = FALSE /\ steady' = {}
  /\ UNCHANGED <<world, entry, held, live, pending, fetches, seen, todo, reply>>

-----------------------------------------------------------------------------
(* Broadcast, mDNS and the local probe.                                    *)

\* A daemon announces the OpenClaw of its own machine, as it last knew it,
Announces(h) == IsOpenClaw(kind[h].answers)

\* on its interfaces that are not virtual,
Broadcasts(h) == kind[h].net = "lan"

\* and is heard in the same subnet, except by itself.
Heard(h) == ~Local(h) /\ Broadcasts(h)

\* _tcpProbe: any HTTP response is enough of a proof.
Responds(h) == h \in up

Announce(h) ==
  /\ Announces(h) /\ Heard(h) /\ Responds(h)
  /\ UpsertNew(h, None, "online")
  /\ UNCHANGED <<world, seen, scan>>

\* fetchAgentId.
GivesConfig(h) == IsOpenClaw(Answers(h))

\* The first mDNS answer of a gateway: its config is fetched once, whatever comes of it.
\* Multicast does not pass a VPN.
MdnsAnswer(h) ==
  /\ ~Local(h) /\ kind[h].net = "lan" /\ IsOpenClaw(kind[h].answers) /\ h \notin seen
  /\ seen' = seen \cup {h}
  /\ IF GivesConfig(h) THEN UpsertNew(h, None, "online")
                     ELSE UNCHANGED <<entry, held, live, pending, fetches>>
  /\ UNCHANGED <<world, scan>>

\* probeOpenClaw of the local probe.
OpenClawHere(h) == IsOpenClaw(Answers(h))

\* probeLocal of NanoClaw: a project directory, whether or not anything runs in it.
NanoClawHere(h) == kind[h].dir

\* OpenClaw, or the first adapter that finds its framework here.
FoundHere(h) ==
  CASE OpenClawHere(h)                       -> "openclaw"
    [] ~OpenClawHere(h) /\ NanoClawHere(h)   -> "nanoclaw"
    [] ~OpenClawHere(h) /\ ~NanoClawHere(h)  -> ByAdapter(Answers(h))

\* Mutant of LocalProbe: what is not found stays as it is.
LocalProbeFinds(h) ==
  /\ Local(h) /\ FoundHere(h) # "unknown"
  /\ UpsertNew(h, FoundHere(h), "online")
  /\ UNCHANGED <<world, seen, scan>>

\* What was online and is not found is marked offline, by a copy.
MarkOffline(h) == entry[h].status = "online" /\ UpsertNew(h, None, "offline")

LocalProbe(h) ==
  /\ Local(h)
  /\ \/ FoundHere(h) # "unknown" /\ UpsertNew(h, FoundHere(h), "online")
     \/ FoundHere(h) = "unknown" /\ MarkOffline(h)
  /\ UNCHANGED <<world, seen, scan>>

-----------------------------------------------------------------------------
(* HealthChecker.                                                          *)

\* Mutant of Checked: an instance that is offline is not checked again.
CheckedOnline == {h \in Hosts : entry[h].status = "online" /\ ~Local(h)}

Checked == {h \in Hosts : Known(h) /\ ~Local(h)}

\* The timer: every check holds the object of the map while it waits.
CheckAll ==
  /\ \A h \in Hosts : held[h] = Absent
  /\ live' = Checked
  /\ held' = [h \in Hosts |-> IF h \in live' THEN entry[h] ELSE Absent]
  /\ UNCHANGED <<world, entry, pending, fetches, seen, scan>>

\* checkOne: the object held is upserted, wherever it is now.
CheckOne(h) ==
  /\ held[h] # Absent
  /\ Upsert(h, [held[h] EXCEPT !.status =
                  IF HealthOk(held[h].impl, Answers(h)) THEN "online" ELSE "offline"])
  /\ held' = [held EXCEPT ![h] = Absent] /\ live' = live \ {h}
  /\ UNCHANGED <<world, seen, scan>>

-----------------------------------------------------------------------------
(* The instances themselves.                                               *)

StartsOrStops(h) ==
  /\ \/ h \in up /\ up' = up \ {h}
     \/ h \notin up /\ up' = up \cup {h}
  /\ steady' = steady \ {h}
  /\ UNCHANGED <<kind, served, entry, held, live, pending, fetches, seen, scanning, todo, reply>>

NewCard(h) ==
  /\ ~Local(h)
  /\ \E c \in Cards \ {served[h]} : served' = [served EXCEPT ![h] = c]
  /\ UNCHANGED <<kind, up, entry, held, live, pending, fetches, seen, scan>>

Next ==
  \/ ScanTargets \/ ScanSubnets \/ ScanEnds \/ CheckAll \/ RefreshAll
  \/ \E h \in Hosts : \/ ProbeConfig(h) \/ ProbeHost(h)
                      \/ Announce(h) \/ MdnsAnswer(h) \/ LocalProbe(h)
                      \/ CheckOne(h) \/ CardAnswer(h) \/ CardAges(h) \/ Remove(h)
                      \/ StartsOrStops(h) \/ NewCard(h)

\* The timers fire, requests end, and a card grows old.
Fairness ==
  /\ WF_vars(CheckAll) /\ WF_vars(RefreshAll)
  /\ \A h \in Hosts : /\ WF_vars(CheckOne(h)) /\ WF_vars(CardAnswer(h))
                      /\ WF_vars(LocalProbe(h)) /\ WF_vars(CardAges(h))

Spec     == Init /\ [][Next]_vars
FairSpec == Spec /\ Fairness

-----------------------------------------------------------------------------
\* No instance is asked for its card twice at a time: an upsert starts a request whose
\* answer is an upsert, and the refresh timer starts more (fetcher.ts:71).
OneFetch == \A h \in Hosts : fetches[h] = IF h \in pending THEN 1 ELSE 0

\* An instance that runs for good is, in the end, shown online for good, whoever found
\* it and as whatever, unless it is of a kind the health check does not confirm.
UpIsShown ==
  \A h \in Hosts :
    <>[](h \in up /\ kind[h] \notin Flapping) => <>[](entry[h].status # "offline")

\* One that has stopped for good is, in the end, not shown online again: no late probe,
\* announcement or check restores it.  A NanoClaw project is found by its directory.
DownIsShown ==
  \A h \in Hosts : <>[](h \notin up /\ ~kind[h].dir) => <>[](entry[h].status # "online")

\* A scan that ends shows every target that has run since it began, whatever it is told
\* by, unless the user removed it meanwhile or nothing tells what it is.
ScanShows ==
  [][scanning /\ ~scanning' =>
       \A h \in steady : Found(ConfigOf(Answers(h)), Id(h), Answers(h)) # {} => Known(h)]_vars

\* The card of an instance known and online for good is asked for again and again: the
\* card that it serves from some time on is shown.
CardsCatchUp ==
  \A h \in Hosts, c \in Cards :
    <>[](h \in up /\ served[h] = c /\ entry[h].status = "online") /\ ~Local(h)
      => []<>(entry[h].card = c)
=============================================================================
