---------------------------- MODULE DiscoveryProofs ----------------------------
(* Machine-checked properties of Discovery, for every set of hosts, kinds and *)
(* cards.                                                                   *)
EXTENDS Discovery, TLAPS

-----------------------------------------------------------------------------
(* Types.                                                                  *)

Configs == {"none", "compat", "full"}

\* Whatever answers, what is found is the name of an implementation.
LEMMA FoundType ==
  ASSUME NEW config \in Configs, NEW id \in Implementations \cup {None}, NEW a
  PROVE  Found(config, id, a) \subseteq Implementations
<1>1. ByAdapter(a) \in Implementations
  BY DEF ByAdapter, Implementations
<1>2. ByHealth(a) \in Implementations
  BY DEF ByHealth, Implementations
<1>3. Analyzed(config) \in Implementations
  BY DEF Analyzed, Implementations
<1>4. Identify(config, id, a) \in Implementations
  <2>1. CASE Declared(id)
    BY <2>1 DEF Identify, Declared
  <2>2. CASE ~Declared(id) /\ config # "none"
    BY <1>3, <2>2 DEF Identify
  <2>3. CASE ~Declared(id) /\ config = "none"
    BY <1>2, <2>3 DEF Identify
  <2>. QED
    BY <2>1, <2>2, <2>3
<1>. QED
  BY <1>1, <1>4 DEF Found

LEMMA ConfigType == ASSUME NEW a PROVE ConfigOf(a) \in Configs
BY DEF ConfigOf, Configs

LEMMA IdType ==
  ASSUME TypeOK, NEW h \in Hosts
  PROVE  Id(h) \in Implementations \cup {None}
BY DiscoveryAssumption DEF TypeOK, Id

LEMMA AbsentType == Absent \in Entry
BY DEF Absent, Entry

LEMMA KeptType ==
  ASSUME NEW e \in Entry, NEW old \in Entry
  PROVE  Kept(e, old) \in Entry /\ Kept(e, old).status = e.status
BY DEF Kept, Entry

LEMMA AskingType ==
  ASSUME TypeOK, NEW H \in SUBSET Hosts, AskCards(H)
  PROVE  pending' \subseteq Hosts /\ fetches' \in [Hosts -> Nat]
BY DEF AskCards, TypeOK

\* An upsert changes one entry, which is known if the object is, and no other.
LEMMA UpsertEffect ==
  ASSUME TypeOK, NEW h \in Hosts, NEW e \in Entry, Upsert(h, e)
  PROVE  /\ entry' \in [Hosts -> Entry]
         /\ pending' \subseteq Hosts /\ fetches' \in [Hosts -> Nat]
         /\ entry'[h].status = e.status
         /\ \A x \in Hosts \ {h} : entry'[x] = entry[x]
<1> DEFINE new == Kept(e, entry[h])
<1>1. new \in Entry /\ new.status = e.status
  BY KeptType DEF TypeOK
<1>2. entry' = [entry EXCEPT ![h] = new]
  BY DEF Upsert
<1>3. {x \in {h} : WantsCard(h, new)} \in SUBSET Hosts
  OBVIOUS
<1>4. AskCards({x \in {h} : WantsCard(h, new)})
  BY DEF Upsert
<1>5. pending' \subseteq Hosts /\ fetches' \in [Hosts -> Nat]
  BY <1>3, <1>4, AskingType
<1>. QED
  BY <1>1, <1>2, <1>5 DEF TypeOK

LEMMA UpsertNewEffect ==
  ASSUME TypeOK, NEW h \in Hosts, NEW impl \in Implementations \cup {None},
         NEW status \in {"online", "offline"}, UpsertNew(h, impl, status)
  PROVE  /\ entry' \in [Hosts -> Entry] /\ held' = held /\ live' \subseteq Hosts
         /\ pending' \subseteq Hosts /\ fetches' \in [Hosts -> Nat]
         /\ entry'[h].status = status
         /\ \A x \in Hosts \ {h} : entry'[x] = entry[x]
<1> DEFINE e == [Absent EXCEPT !.impl = impl, !.status = status]
<1>1. e \in Entry /\ e.status = status
  BY DEF Absent, Entry
<1>2. Upsert(h, e) /\ live' = live \ {h} /\ held' = held
  BY DEF UpsertNew
<1>. QED
  BY <1>1, <1>2, UpsertEffect DEF TypeOK

-----------------------------------------------------------------------------
(* Card requests.                                                          *)

\* fetches is a function on the hosts, so that OneFetch speaks of each of them.
Counts == fetches \in [Hosts -> Nat]

IInv == Counts /\ OneFetch

\* An upsert or the timer asks only hosts that have no request under way.
LEMMA Asking ==
  ASSUME IInv, NEW H, AskCards(H)
  PROVE  IInv'
<1>1. ASSUME NEW h \in Hosts
      PROVE  fetches'[h] \in Nat /\ fetches'[h] = IF h \in pending' THEN 1 ELSE 0
  <2>1. fetches[h] = IF h \in pending THEN 1 ELSE 0
    BY DEF IInv, OneFetch
  <2>2. fetches'[h] = IF h \in H \ pending THEN fetches[h] + 1 ELSE fetches[h]
    BY DEF AskCards
  <2>3. h \in pending' <=> h \in pending \/ h \in H
    BY DEF AskCards
  <2>. QED
    BY <2>1, <2>2, <2>3
<1>2. fetches' \in [Hosts -> Nat]
  <2>1. fetches' = [h \in Hosts |-> fetches'[h]]
    BY DEF AskCards
  <2>. QED
    BY <1>1, <2>1
<1>. QED
  BY <1>1, <1>2 DEF IInv, Counts, OneFetch

LEMMA Upserting ==
  ASSUME IInv, NEW h, NEW e, Upsert(h, e)
  PROVE  IInv'
BY Asking DEF Upsert

LEMMA UpsertingNew ==
  ASSUME IInv, NEW h, NEW impl, NEW status, UpsertNew(h, impl, status)
  PROVE  IInv'
BY Upserting DEF UpsertNew

\* No request starts or ends.
LEMMA NoRequest ==
  ASSUME IInv, UNCHANGED <<pending, fetches>>
  PROVE  IInv'
BY DEF IInv, Counts, OneFetch

\* The answer ends the only request there is.
LEMMA Answering ==
  ASSUME IInv, NEW h \in Hosts, CardAnswer(h)
  PROVE  IInv'
<1>1. fetches[h] = 1 /\ h \in pending
  BY DEF CardAnswer, IInv, OneFetch
<1>2. /\ fetches' = [fetches EXCEPT ![h] = fetches[h] - 1]
      /\ pending' = pending \ {h}
  BY DEF CardAnswer
<1>3. fetches[h] - 1 = 0
  BY <1>1
<1>. QED
  BY <1>1, <1>2, <1>3 DEF IInv, Counts, OneFetch

LEMMA Initially == Init => IInv
BY DEF Init, IInv, Counts, OneFetch

LEMMA Step == IInv /\ [Next]_vars => IInv'
<1>. SUFFICES ASSUME IInv, [Next]_vars PROVE IInv'
  OBVIOUS
<1>1. CASE ScanTargets \/ ScanSubnets \/ ScanEnds
  BY <1>1, NoRequest DEF ScanTargets, ScanSubnets, ScanEnds, StartScan
<1>2. CASE CheckAll
  BY <1>2, NoRequest DEF CheckAll
<1>3. CASE RefreshAll
  BY <1>3, Asking DEF RefreshAll
<1>4. ASSUME NEW h \in Hosts,
             ProbeConfig(h) \/ CardAges(h) \/ Remove(h) \/ StartsOrStops(h) \/ NewCard(h)
      PROVE  IInv'
  BY <1>4, NoRequest DEF ProbeConfig, CardAges, Remove, StartsOrStops, NewCard, scan
<1>5. ASSUME NEW h \in Hosts, ProbeHost(h) PROVE IInv'
  BY <1>5, NoRequest, UpsertingNew DEF ProbeHost
<1>6. ASSUME NEW h \in Hosts, Announce(h) \/ MdnsAnswer(h) PROVE IInv'
  BY <1>6, NoRequest, UpsertingNew DEF Announce, MdnsAnswer
<1>7. ASSUME NEW h \in Hosts, LocalProbe(h) PROVE IInv'
  BY <1>7, UpsertingNew DEF LocalProbe, MarkOffline
<1>8. ASSUME NEW h \in Hosts, CheckOne(h) PROVE IInv'
  BY <1>8, Upserting DEF CheckOne
<1>9. ASSUME NEW h \in Hosts, CardAnswer(h) PROVE IInv'
  BY <1>9, Answering
<1>10. CASE UNCHANGED vars
  BY <1>10, NoRequest DEF vars
<1>. QED
  BY <1>1, <1>2, <1>3, <1>4, <1>5, <1>6, <1>7, <1>8, <1>9, <1>10 DEF Next

\* No instance is asked for its card twice at a time, though an upsert starts a request
\* whose answer is an upsert and the refresh timer starts more (a2a/fetcher.ts:71).
THEOREM AskedOnce == Spec => []OneFetch
<1>1. IInv => OneFetch
  BY DEF IInv
<1>. QED
  BY Initially, Step, <1>1, PTL DEF Spec

-----------------------------------------------------------------------------
(* The type invariant.                                                     *)

LEMMA HereType ==
  ASSUME NEW h
  PROVE  FoundHere(h) \in Implementations
BY DEF FoundHere, ByAdapter, Implementations

\* An upsert, with the state around it that it leaves alone.
LEMMA UpsertNewTyped ==
  ASSUME TypeOK, NEW h \in Hosts, NEW impl \in Implementations \cup {None},
         NEW status \in {"online", "offline"}, UpsertNew(h, impl, status), UNCHANGED world,
         seen' \subseteq Hosts, UNCHANGED <<scanning, todo, steady>>,
         reply' \in [Hosts -> {"idle"} \cup Configs]
  PROVE  TypeOK'
BY UpsertNewEffect DEF TypeOK, world, Configs

LEMMA TypedScan ==
  ASSUME TypeOK, UNCHANGED <<world, entry, held, live, pending, fetches>>,
         seen' \subseteq Hosts, scanning' \in BOOLEAN, todo' \subseteq Hosts,
         steady' \subseteq Hosts, reply' \in [Hosts -> {"idle"} \cup Configs]
  PROVE  TypeOK'
BY DEF TypeOK, world, Configs

LEMMA ProbeHostTyped ==
  ASSUME TypeOK, NEW h \in Hosts, ProbeHost(h)
  PROVE  TypeOK'
<1>1. /\ reply' \in [Hosts -> {"idle"} \cup Configs] /\ seen' \subseteq Hosts
      /\ UNCHANGED <<world, scanning, todo, steady>> /\ reply[h] \in Configs
  BY DEF ProbeHost, TypeOK, Configs
<1>2. ASSUME NEW impl \in Found(reply[h], Id(h), Answers(h)), UpsertNew(h, impl, "online")
      PROVE  TypeOK'
  <2>1. impl \in Implementations
    BY <1>1, <1>2, IdType, FoundType
  <2>. QED
    BY <1>1, <1>2, <2>1, UpsertNewTyped
<1>3. CASE UNCHANGED <<entry, held, live, pending, fetches>>
  BY <1>1, <1>3, TypedScan DEF TypeOK
<1>. QED
  BY <1>2, <1>3 DEF ProbeHost

LEMMA FoundTyped ==
  ASSUME TypeOK, NEW h \in Hosts, Announce(h) \/ MdnsAnswer(h) \/ LocalProbe(h)
  PROVE  TypeOK'
<1>1. reply \in [Hosts -> {"idle"} \cup Configs]
  BY DEF TypeOK, Configs
<1>2. CASE Announce(h)
  BY <1>1, <1>2, UpsertNewTyped DEF Announce, TypeOK, scan
<1>3. CASE MdnsAnswer(h)
  <2>1. /\ seen' \subseteq Hosts /\ UNCHANGED world /\ UNCHANGED scan
        /\ \/ UpsertNew(h, None, "online")
           \/ UNCHANGED <<entry, held, live, pending, fetches>>
    BY <1>3 DEF MdnsAnswer, TypeOK
  <2>2. CASE UpsertNew(h, None, "online")
    BY <1>1, <2>1, <2>2, UpsertNewTyped DEF scan
  <2>3. CASE UNCHANGED <<entry, held, live, pending, fetches>>
    BY <1>1, <2>1, <2>3, TypedScan DEF scan, TypeOK
  <2>. QED
    BY <2>1, <2>2, <2>3
<1>4. CASE LocalProbe(h)
  <2>1. UNCHANGED <<world, seen, scan>> /\ seen' \subseteq Hosts
    BY <1>4 DEF LocalProbe, TypeOK
  <2>2. UpsertNew(h, FoundHere(h), "online") \/ UpsertNew(h, None, "offline")
    BY <1>4 DEF LocalProbe, MarkOffline
  <2>3. CASE UpsertNew(h, FoundHere(h), "online")
    BY <1>1, <2>1, <2>3, HereType, UpsertNewTyped DEF scan
  <2>4. CASE UpsertNew(h, None, "offline")
    BY <1>1, <2>1, <2>4, UpsertNewTyped DEF scan
  <2>. QED
    BY <2>2, <2>3, <2>4
<1>. QED
  BY <1>2, <1>3, <1>4

LEMMA CheckTyped ==
  ASSUME TypeOK, NEW h \in Hosts, CheckOne(h)
  PROVE  TypeOK' /\ entry'[h].status # "absent" /\ \A x \in Hosts \ {h} : entry'[x] = entry[x]
<1>. PICK status \in {"online", "offline"} : Upsert(h, [held[h] EXCEPT !.status = status])
  BY DEF CheckOne
<1>1. [held[h] EXCEPT !.status = status] \in Entry
  BY DEF TypeOK, Entry
<1>2. [held[h] EXCEPT !.status = status].status = status
  BY DEF TypeOK, Entry
<1>3. /\ entry' \in [Hosts -> Entry] /\ pending' \subseteq Hosts /\ fetches' \in [Hosts -> Nat]
      /\ entry'[h].status = status /\ \A x \in Hosts \ {h} : entry'[x] = entry[x]
  BY <1>1, <1>2, UpsertEffect
<1>4. held' \in [Hosts -> Entry] /\ live' \subseteq Hosts
  BY AbsentType DEF CheckOne, TypeOK
<1>. QED
  BY <1>3, <1>4 DEF CheckOne, TypeOK, world, scan

LEMMA CardType ==
  ASSUME NEW e \in Entry, NEW c \in Cards \cup {NoCard}, NEW b \in BOOLEAN
  PROVE  /\ [e EXCEPT !.fresh = b] \in Entry /\ [e EXCEPT !.fresh = b].status = e.status
         /\ [e EXCEPT !.card = c, !.fresh = b] \in Entry
         /\ [e EXCEPT !.card = c, !.fresh = b].status = e.status
BY DEF Entry

LEMMA AnswerTyped ==
  ASSUME TypeOK, NEW h \in Hosts, CardAnswer(h)
  PROVE  TypeOK' /\ \A x \in Hosts : entry'[x].status = entry[x].status
<1> DEFINE new == [entry[h] EXCEPT !.card = served[h], !.fresh = TRUE]
<1>1. new \in Entry /\ new.status = entry[h].status
  BY CardType DEF TypeOK
<1>2. /\ entry' \in [Hosts -> Entry] /\ held' \in [Hosts -> Entry]
      /\ \A x \in Hosts : entry'[x].status = entry[x].status
  <2>1. CASE /\ entry' = [entry EXCEPT ![h] = new]
             /\ held' = [held EXCEPT ![h] = IF h \in live THEN new ELSE held[h]]
    BY <1>1, <2>1 DEF TypeOK
  <2>2. CASE UNCHANGED <<entry, held>>
    BY <2>2 DEF TypeOK
  <2>. QED
    BY <2>1, <2>2 DEF CardAnswer
<1>3. fetches' \in [Hosts -> Nat] /\ pending' \subseteq Hosts
  BY DEF CardAnswer, TypeOK
<1>. QED
  BY <1>2, <1>3 DEF CardAnswer, TypeOK, world, scan

LEMMA TypeStep == TypeOK /\ [Next]_vars => TypeOK'
<1>. SUFFICES ASSUME TypeOK, [Next]_vars PROVE TypeOK'
  OBVIOUS
<1>. reply \in [Hosts -> {"idle"} \cup Configs]
  BY DEF TypeOK, Configs
<1>1. ASSUME NEW H \in SUBSET Hosts, StartScan(H) PROVE TypeOK'
  BY <1>1, TypedScan DEF StartScan, TypeOK
<1>2. CASE ScanTargets \/ ScanSubnets
  BY <1>1, <1>2 DEF ScanTargets, ScanSubnets, InSubnets
<1>3. CASE ScanEnds
  BY <1>3, TypedScan DEF ScanEnds, TypeOK
<1>4. CASE CheckAll
  BY <1>4, AbsentType DEF CheckAll, Checked, TypeOK, world, scan
<1>5. CASE RefreshAll
  <2>1. {h \in Hosts : Known(h) /\ WantsCard(h, entry[h])} \in SUBSET Hosts
    OBVIOUS
  <2>2. pending' \subseteq Hosts /\ fetches' \in [Hosts -> Nat]
    BY <1>5, <2>1, AskingType DEF RefreshAll
  <2>. QED
    BY <1>5, <2>2 DEF RefreshAll, TypeOK, world, scan
<1>6. ASSUME NEW h \in Hosts, ProbeConfig(h) PROVE TypeOK'
  <2>1. reply' \in [Hosts -> {"idle"} \cup Configs]
    BY <1>6, ConfigType DEF ProbeConfig
  <2>. QED
    BY <1>6, <2>1, TypedScan DEF ProbeConfig, TypeOK
<1>7. ASSUME NEW h \in Hosts, CardAges(h) PROVE TypeOK'
  <2>1. /\ [entry[h] EXCEPT !.fresh = FALSE] \in Entry
        /\ [held[h] EXCEPT !.fresh = FALSE] \in Entry
    BY CardType DEF TypeOK
  <2>. QED
    BY <1>7, <2>1 DEF CardAges, TypeOK, world, scan
<1>8. ASSUME NEW h \in Hosts, Remove(h) PROVE TypeOK'
  BY <1>8, AbsentType DEF Remove, TypeOK, world
<1>9. ASSUME NEW h \in Hosts, StartsOrStops(h) PROVE TypeOK'
  BY <1>9 DEF StartsOrStops, TypeOK
<1>10. ASSUME NEW h \in Hosts, NewCard(h) PROVE TypeOK'
  BY <1>10 DEF NewCard, TypeOK, scan
<1>11. CASE UNCHANGED vars
  BY <1>11 DEF vars, TypeOK
<1>. QED
  BY <1>2, <1>3, <1>4, <1>5, <1>6, <1>7, <1>8, <1>9, <1>10, <1>11, ProbeHostTyped, FoundTyped,
     CheckTyped, AnswerTyped DEF Next

LEMMA TypeInit == Init => TypeOK
<1>. SUFFICES ASSUME Init PROVE TypeOK
  OBVIOUS
<1>1. entry \in [Hosts -> Entry] /\ held \in [Hosts -> Entry]
  BY AbsentType DEF Init
<1>2. fetches \in [Hosts -> Nat] /\ served \in [Hosts -> Cards \cup {NoCard}]
  BY DEF Init
<1>3. reply \in [Hosts -> {"idle", "none", "compat", "full"}]
  BY DEF Init
<1>. QED
  BY <1>1, <1>2, <1>3 DEF Init, TypeOK

\* Every entry, the registry's and the one a health check holds, is of a known
\* implementation and status, whatever answers the probes (health/checker.ts:118,
\* registry/store.ts upsert).
THEOREM TypeCorrect == Spec => []TypeOK
BY TypeInit, TypeStep, PTL DEF Spec

-----------------------------------------------------------------------------
(* A scan shows what it finds.                                             *)

\* A target that runs for the whole scan is in the queue, or its first answer waits for
\* the others, or the scan is done with it.
Tells(h) == Found(ConfigOf(Answers(h)), Id(h), Answers(h)) # {}

ScanInv ==
  \A h \in steady :
    /\ h \in Hosts /\ h \in up /\ scanning
    /\ h \in todo \/ reply[h] = ConfigOf(Answers(h)) \/ Known(h) \/ ~Tells(h)

\* What a target that goes on running answers does not change.
LEMMA SameAnswers ==
  ASSUME NEW h, h \in up, h \in up', kind' = kind
  PROVE  Answers(h)' = Answers(h) /\ Tells(h)' = Tells(h)
<1>1. Answers(h)' = Answers(h) /\ Id(h)' = Id(h)
  BY DEF Answers, Id
<1>. QED
  BY <1>1 DEF Tells

\* Steps that are not of the scan: they forget no instance but one that leaves steady.
LEMMA Others ==
  ASSUME ScanInv, UNCHANGED <<kind, scanning, todo, reply>>, steady' \subseteq steady,
         \A h \in steady' : h \in up' /\ (Known(h) => Known(h)')
  PROVE  ScanInv'
<1>. SUFFICES ASSUME NEW h \in steady'
              PROVE  /\ h \in Hosts /\ h \in up' /\ scanning'
                     /\ \/ h \in todo' \/ reply'[h] = ConfigOf(Answers(h)')
                        \/ Known(h)' \/ ~Tells(h)'
  BY DEF ScanInv
<1>1. Answers(h)' = Answers(h) /\ Tells(h)' = Tells(h)
  BY SameAnswers DEF ScanInv
<1>. QED
  BY <1>1 DEF ScanInv

LEMMA OthersUnchanged ==
  ASSUME ScanInv, UNCHANGED <<kind, up, scanning, todo, reply, steady>>,
         \A h \in Hosts : Known(h) => Known(h)'
  PROVE  ScanInv'
BY Others DEF ScanInv

\* An upsert makes its instance known and forgets no other.
LEMMA UpsertKnows ==
  ASSUME TypeOK, NEW h \in Hosts, NEW impl \in Implementations \cup {None},
         NEW status \in {"online", "offline"}, UpsertNew(h, impl, status)
  PROVE  Known(h)' /\ \A x \in Hosts : Known(x) => Known(x)'
BY UpsertNewEffect DEF Known

LEMMA ScanProbeConfig ==
  ASSUME TypeOK, ScanInv, NEW h \in Hosts, ProbeConfig(h)
  PROVE  ScanInv'
<1>. SUFFICES ASSUME NEW x \in steady'
              PROVE  /\ x \in Hosts /\ x \in up' /\ scanning'
                     /\ \/ x \in todo' \/ reply'[x] = ConfigOf(Answers(x)')
                        \/ Known(x)' \/ ~Tells(x)'
  BY DEF ScanInv
<1>1. /\ x \in Hosts /\ x \in up /\ x \in up' /\ scanning'
      /\ x \in todo \/ reply[x] = ConfigOf(Answers(x)) \/ Known(x) \/ ~Tells(x)
  BY DEF ProbeConfig, ScanInv, world
<1>2. Answers(x)' = Answers(x) /\ Tells(x)' = Tells(x)
  BY <1>1, SameAnswers DEF ProbeConfig, world
<1>3. CASE x = h
  BY <1>1, <1>2, <1>3 DEF ProbeConfig, TypeOK
<1>4. CASE x # h
  BY <1>1, <1>2, <1>4 DEF ProbeConfig, TypeOK, Known
<1>. QED
  BY <1>3, <1>4

LEMMA ScanProbeHost ==
  ASSUME TypeOK, ScanInv, NEW h \in Hosts, ProbeHost(h)
  PROVE  ScanInv'
<1>. SUFFICES ASSUME NEW x \in steady'
              PROVE  /\ x \in Hosts /\ x \in up' /\ scanning'
                     /\ \/ x \in todo' \/ reply'[x] = ConfigOf(Answers(x)')
                        \/ Known(x)' \/ ~Tells(x)'
  BY DEF ScanInv
<1>1. /\ x \in Hosts /\ x \in up /\ x \in up' /\ scanning'
      /\ x \in todo \/ reply[x] = ConfigOf(Answers(x)) \/ Known(x) \/ ~Tells(x)
  BY DEF ProbeHost, ScanInv, world
<1>2. Answers(x)' = Answers(x) /\ Tells(x)' = Tells(x)
  BY <1>1, SameAnswers DEF ProbeHost, world
<1>3. CASE /\ Found(reply[h], Id(h), Answers(h)) = {}
           /\ UNCHANGED <<entry, held, live, pending, fetches>>
  <2>1. Known(x) => Known(x)'
    BY <1>3 DEF Known
  <2>2. CASE x = h
    BY <1>1, <1>2, <1>3, <2>1, <2>2 DEF ProbeHost, Tells
  <2>3. CASE x # h
    BY <1>1, <1>2, <2>1, <2>3 DEF ProbeHost, TypeOK
  <2>. QED
    BY <2>2, <2>3
<1>4. ASSUME NEW impl \in Found(reply[h], Id(h), Answers(h)), UpsertNew(h, impl, "online")
      PROVE  Known(h)' /\ (Known(x) => Known(x)')
  <2>1. reply[h] \in Configs
    BY DEF ProbeHost, TypeOK, Configs
  <2>2. impl \in Implementations
    BY <1>4, <2>1, IdType, FoundType
  <2>. QED
    BY <1>1, <1>4, <2>2, UpsertKnows
<1>5. CASE Known(h)' /\ (Known(x) => Known(x)')
  <2>1. CASE x = h
    BY <1>1, <1>5, <2>1
  <2>2. CASE x # h
    BY <1>1, <1>2, <1>5, <2>2 DEF ProbeHost, TypeOK
  <2>. QED
    BY <2>1, <2>2
<1>. QED
  BY <1>3, <1>4, <1>5 DEF ProbeHost

LEMMA ScanOfOthers ==
  ASSUME TypeOK, ScanInv, NEW h \in Hosts,
         \/ Announce(h) \/ MdnsAnswer(h) \/ LocalProbe(h)
         \/ CheckOne(h) \/ CardAnswer(h) \/ CardAges(h)
  PROVE  ScanInv'
<1>1. UNCHANGED <<kind, up, scanning, todo, reply, steady>>
  BY DEF Announce, MdnsAnswer, LocalProbe, CheckOne, CardAnswer, CardAges, world, scan
<1>2. \A x \in Hosts : Known(x) => Known(x)'
  <2>1. CASE Announce(h)
    BY <2>1, UpsertKnows DEF Announce
  <2>2. CASE MdnsAnswer(h)
    BY <2>2, UpsertKnows DEF MdnsAnswer, Known
  <2>3. CASE LocalProbe(h)
    <3>1. UpsertNew(h, FoundHere(h), "online") \/ UpsertNew(h, None, "offline")
      BY <2>3 DEF LocalProbe, MarkOffline
    <3>. QED
      BY <3>1, HereType, UpsertKnows
  <2>4. CASE CheckOne(h)
    BY <2>4, CheckTyped DEF Known
  <2>5. CASE CardAnswer(h)
    BY <2>5, AnswerTyped DEF Known
  <2>6. CASE CardAges(h)
    BY <2>6 DEF CardAges, Known, TypeOK, Entry
  <2>. QED
    BY <2>1, <2>2, <2>3, <2>4, <2>5, <2>6
<1>. QED
  BY <1>1, <1>2, OthersUnchanged

LEMMA ScanStep == TypeOK /\ ScanInv /\ [Next]_vars => ScanInv'
<1>. SUFFICES ASSUME TypeOK, ScanInv, [Next]_vars PROVE ScanInv'
  OBVIOUS
<1>1. ASSUME NEW H \in SUBSET Hosts, StartScan(H) PROVE ScanInv'
  BY <1>1 DEF StartScan, ScanInv, world
<1>2. CASE ScanTargets \/ ScanSubnets
  BY <1>1, <1>2 DEF ScanTargets, ScanSubnets, InSubnets
<1>3. CASE ScanEnds
  BY <1>3 DEF ScanEnds, ScanInv
<1>4. CASE CheckAll \/ RefreshAll \/ UNCHANGED vars
  BY <1>4, OthersUnchanged DEF CheckAll, RefreshAll, vars, world, scan, Known
<1>5. ASSUME NEW h \in Hosts, NewCard(h) PROVE ScanInv'
  BY <1>5, OthersUnchanged DEF NewCard, scan, Known
<1>6. ASSUME NEW h \in Hosts, Remove(h) PROVE ScanInv'
  <2>1. \A x \in steady' : x \in up' /\ (Known(x) => Known(x)')
    BY <1>6 DEF Remove, ScanInv, Known, TypeOK, world
  <2>. QED
    BY <1>6, <2>1, Others DEF Remove, world
<1>7. ASSUME NEW h \in Hosts, StartsOrStops(h) PROVE ScanInv'
  <2>1. \A x \in steady' : x \in up' /\ (Known(x) => Known(x)')
    BY <1>7 DEF StartsOrStops, ScanInv, Known
  <2>. QED
    BY <1>7, <2>1, Others DEF StartsOrStops
<1>. QED
  BY <1>2, <1>3, <1>4, <1>5, <1>6, <1>7, ScanProbeConfig, ScanProbeHost, ScanOfOthers DEF Next

\* A scan that ends shows every target that has run since it began, whatever it is told
\* by (scanner/active.ts:138), though others are found, checked and removed meanwhile.
THEOREM ScanFinds == Spec => ScanShows
<1>1. Init => ScanInv
  BY DEF Init, ScanInv
<1>2. TypeOK /\ ScanInv /\ [Next]_vars =>
        [scanning /\ ~scanning' =>
           \A h \in steady : Found(ConfigOf(Answers(h)), Id(h), Answers(h)) # {} => Known(h)]_vars
  <2>. SUFFICES ASSUME TypeOK, ScanInv, Next, scanning, ~scanning', NEW h \in steady, Tells(h)
                PROVE  Known(h)
    BY DEF Tells, vars
  <2>1. ScanEnds
    BY DEF Next, ScanTargets, ScanSubnets, StartScan, CheckAll, RefreshAll, ProbeConfig,
           ProbeHost, Announce, MdnsAnswer, LocalProbe, CheckOne, CardAnswer, CardAges, Remove,
           StartsOrStops, NewCard, scan
  <2>2. reply[h] = "idle" /\ h \notin todo
    BY <2>1 DEF ScanEnds, ScanInv
  <2>3. ConfigOf(Answers(h)) # "idle"
    BY DEF ConfigOf
  <2>. QED
    BY <2>2, <2>3 DEF ScanInv
<1>. QED
  BY <1>1, <1>2, TypeInit, TypeStep, ScanStep, PTL DEF Spec, ScanShows
=============================================================================
