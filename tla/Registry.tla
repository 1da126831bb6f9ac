------------------------------ MODULE Registry ------------------------------
(***************************************************************************)
(* The map of known instances (registry/store.ts) and those who write it:  *)
(* mDNS, broadcast and scan discovery, the local probe, the lookups in the *)
(* public registry, the health checker and the user.                       *)
(*                                                                         *)
(* getAll() hands out the map's own objects, so a writer that awaits the   *)
(* network may come back with an object the map has replaced, merged or    *)
(* removed.  heap holds the objects; one neither in the map nor held by a  *)
(* check under way is garbage, and its identity is used again.             *)
(*                                                                         *)
(* A key address:port is a place.  All places but ":0" have one port.  A   *)
(* machine is told by what _findDuplicate compares, agent_id and lan_host, *)
(* already normalised; auto_name is a base and the suffix ensureUnique     *)
(* appends.  Labels, claw_name, cards and timestamps follow the rules of   *)
(* alias or are plain data, and are left out.                              *)
(***************************************************************************)
EXTENDS Naturals, FiniteSets

CONSTANTS Places,         \* network keys
          Loopback,       \* 127.0.0.1:port, where LocalProbe looks
          Synthetic,      \* ":0", the key of every instance found by a lookup
          Own,            \* this machine's own network addresses
          Vpn,            \* addresses in a WireGuard subnet
          Scanned,        \* addresses in a subnet scanned, or given as targets
          Agents, Hosts,  \* agent ids, host names
          ClawIds,        \* what the public registry may answer, an agent id each
          Aliases,
          Objects,        \* identities for objects (a bound)
          MaxSuffix,      \* ensureUnique's last suffix
          NoObject, NoAlias, NoName, NoHost

ASSUME RegistryAssumption ==
  /\ Loopback \in Places /\ Synthetic \in Places /\ Loopback # Synthetic
  /\ Own \subseteq Places \ {Loopback, Synthetic}
  /\ Vpn \subseteq Places \ {Loopback, Synthetic}
  /\ Scanned \subseteq Places \ {Synthetic}
  /\ ClawIds \subseteq Agents /\ Agents # {}
  /\ MaxSuffix \in Nat \ {0}
  /\ NoObject \notin Objects /\ NoAlias \notin Aliases
  /\ NoHost \notin Hosts \cup Places

VARIABLES
  instances,  \* the object at each place, or NoObject
  heap,       \* the objects' fields
  checking,   \* the objects that checkOne calls under way hold
  seen,       \* MdnsListener.seen
  probing,    \* a probe is under way
  noted       \* existingSelfKeys of that probe

vars == <<instances, heap, checking, seen, probing, noted>>

Bases     == Hosts \cup Agents
Names     == Bases \X (1 .. MaxSuffix)
Statuses  == {"online", "offline", "unknown"}
Scopes    == {"local", "vpn", "public"}
Instance  == [place: Places, agent: Agents, host: Hosts \cup Places \cup {NoHost},
              name: Names \cup {NoName}, alias: Aliases \cup {NoAlias},
              scope: Scopes, status: Statuses, self: BOOLEAN]

Known     == {p \in Places : instances[p] # NoObject}
Live      == {instances[p] : p \in Known}
At(p)     == heap[instances[p]]
Stale     == checking \ Live
UsedNames == {At(p).name : p \in Known}

TypeOK ==
  /\ instances \in [Places -> Objects \cup {NoObject}]
  /\ heap \in [Objects -> Instance]
  /\ checking \subseteq Objects
  /\ seen \subseteq Places
  /\ probing \in BOOLEAN /\ noted \subseteq Places

\* What garbage is set to.
Blank == [place |-> Loopback, agent |-> CHOOSE a \in Agents : TRUE, host |-> NoHost,
          name |-> NoName, alias |-> NoAlias,
          scope |-> "local", status |-> "unknown", self |-> FALSE]

Init ==
  /\ instances = [p \in Places |-> NoObject]
  /\ heap = [o \in Objects |-> Blank]
  /\ checking = {} /\ seen = {}
  /\ probing = FALSE /\ noted = {}

Fresh == Objects \ (Live \cup checking)

\* The map becomes m and the object o, if it is in it, gets the fields r.  The
\* unreachable objects go; one that only a check holds keeps no status, for the check
\* sets it.
Put(m, o, r) ==
  LET live == {m[p] : p \in Places} IN
    /\ instances' = m
    /\ heap' = [x \in Objects |->
         IF x \in live THEN IF x = o THEN r ELSE heap[x]
         ELSE IF x \in checking' THEN [heap[x] EXCEPT !.status = "unknown"]
         ELSE Blank]

-----------------------------------------------------------------------------
(* RegistryStore.                                                          *)

Or(x, none, y) == IF x # none THEN x ELSE y     \* x ?? y

\* Mutant of Update: the incoming name is taken when there is one.
UpdateRenaming(o, r) ==
  Put([instances EXCEPT ![r.place] = o], o,
      [r EXCEPT !.alias = Or(r.alias, NoAlias, At(r.place).alias),
                !.name = Or(r.name, NoName, At(r.place).name)])

\* upsert on a known key: user fields survive, the name is never generated again.
Update(o, r) ==
  Put([instances EXCEPT ![r.place] = o], o,
      [r EXCEPT !.alias = Or(r.alias, NoAlias, At(r.place).alias),
                !.name = At(r.place).name])

Duplicates(r) == {p \in Known : At(p).agent = r.agent /\ At(p).host = r.host}

\* _addressPriority.
Priority(scope) == CASE scope = "local" -> 2 [] scope = "vpn" -> 1 [] scope = "public" -> 0

\* _mergeInstances: the better address by network scope, the first seen if they are
\* equal, the identity known already, the incoming status.
Merged(old, new) ==
  LET best == IF Priority(old.scope) >= Priority(new.scope) THEN old ELSE new IN
    [old EXCEPT !.place = best.place, !.scope = best.scope,
                !.status = new.status, !.self = @ \/ new.self]

\* Mutant of Merge: the merged instance is stored under the incoming key.
MergeAtIncoming(o, r, p) ==
  Put([instances EXCEPT ![p] = NoObject, ![r.place] = o], o, Merged(At(p), r))

\* Mutant of Merge: the key of the old address is not deleted.
MergeKeepingBoth(o, r, p) ==
  LET m == Merged(At(p), r) IN Put([instances EXCEPT ![m.place] = o], o, m)

\* upsert of a duplicate: the merged literal replaces the instance at p.
Merge(o, r, p) ==
  LET m == Merged(At(p), r) IN
    Put([instances EXCEPT ![p] = NoObject, ![m.place] = o], o, m)

\* generateAutoName: the host name, or else the display name, here the agent's.
Base(r) == IF r.host \in Hosts THEN r.host ELSE r.agent

\* Mutant of AutoNames: the suffix counts the instances with that base.
AutoNamesCounted(base) ==
  {<<base, n>> : n \in {1 + Cardinality({p \in Known : At(p).name[1] = base})}}

\* ensureUnique: the first suffix that is free, a singleton but for the bound.
AutoNames(base) ==
  {<<base, n>> : n \in {m \in 1 .. MaxSuffix :
     /\ <<base, m>> \notin UsedNames
     /\ \A k \in 1 .. m - 1 : <<base, k>> \in UsedNames}}

\* First discovery: a name that is set already is kept, used or not.
Insert(o, r) ==
  \E name \in IF r.name # NoName THEN {r.name} ELSE AutoNames(Base(r)) :
    Put([instances EXCEPT ![r.place] = o], o, [r EXCEPT !.name = name])

\* upsert(r).  o is the object stored: r's own, or the literal of a merge.
\* _findDuplicate takes the first match in the map's order; here, any.
Upsert(o, r) ==
  \/ r.place \in Known /\ Update(o, r)
  \/ r.place \notin Known /\ \E p \in Duplicates(r) : Merge(o, r, p)
  \/ r.place \notin Known /\ Duplicates(r) = {} /\ Insert(o, r)

\* PUT /instances/:id/alias changes the object in place.
SetAlias(p, x) ==
  /\ p \in Known
  /\ \A q \in Known : At(q).alias = x => q = p
  /\ heap' = [heap EXCEPT ![instances[p]].alias = x]
  /\ UNCHANGED <<instances, checking, seen, probing, noted>>

\* DELETE /instances/:id.
Remove(p) ==
  /\ p \in Known
  /\ UNCHANGED <<checking, seen, probing, noted>>
  /\ Put([instances EXCEPT ![p] = NoObject], NoObject, Blank)

-----------------------------------------------------------------------------
(* Discovery: a new object, upserted in the callback that builds it.       *)

Found(p, a, h) == [place |-> p, agent |-> a, host |-> h, name |-> NoName,
                   alias |-> NoAlias, scope |-> "local", status |-> "online",
                   self |-> FALSE]

Remote == Places \ {Loopback, Synthetic}

\* An mDNS answer: each key is fetched once, whether that succeeds or not.
MdnsAnswer(p, a, h) ==
  /\ p \notin seen /\ seen' = seen \cup {p}
  /\ UNCHANGED <<checking, probing, noted>>
  /\ \/ \E o \in Fresh : Upsert(o, Found(p, a, h))
     \/ UNCHANGED <<instances, heap>>

\* A broadcast announcement from another machine: its address stands for its host.
Announce(p, a) ==
  /\ p \notin Own
  /\ UNCHANGED <<checking, seen, probing, noted>>
  /\ \E o \in Fresh : Upsert(o, Found(p, a, p))

\* resolveHostForDedup: the host name under which the agent is known, if it is.
ScanHosts(p, a) ==
  LET named == {q \in Known \ {Synthetic} : At(q).agent = a /\ At(q).host \in Hosts}
  IN  IF named = {} THEN {p} ELSE {At(q).host : q \in named}

\* A sweep of a WireGuard subnet finds instances of scope vpn, all else is local.
ScanFinds(p, a) ==
  /\ UNCHANGED <<checking, seen, probing, noted>>
  /\ \E o \in Fresh, h \in ScanHosts(p, a), s \in {"local"} \cup {"vpn" : q \in {p} \cap Vpn} :
       Upsert(o, [Found(p, a, h) EXCEPT !.scope = s])

\* RemoteDiscovery.resolve: no address, and the claw id for a name.
Lookup(a) ==
  /\ UNCHANGED <<checking, seen, probing, noted>>
  /\ \E o \in Fresh :
       Upsert(o, [Found(Synthetic, a, NoHost) EXCEPT
                    !.name = <<a, 1>>, !.scope = "public", !.status = "unknown"])

-----------------------------------------------------------------------------
(* LocalProbe.                                                             *)

ProbeStarts ==
  /\ ~probing /\ probing' = TRUE
  /\ noted' = {p \in Known : At(p).self}
  /\ UNCHANGED <<instances, heap, checking, seen>>

ProbeEnds == probing /\ probing' = FALSE /\ noted' = {}

\* The local agent answers and is upserted.  For every other self key noted,
\* _markOffline looks at 127.0.0.1 and the key's port: at what has just been found.
ProbeFinds(a, h) ==
  /\ ProbeEnds
  /\ UNCHANGED <<checking, seen>>
  /\ \E o \in Fresh, s \in {"online", "offline"} :
       /\ Upsert(o, [Found(Loopback, a, h) EXCEPT !.self = TRUE, !.status = s])
       /\ s = "offline" <=> noted \ {Loopback} # {} /\ instances'[Loopback] = o

\* Nothing answers: again 127.0.0.1 is marked offline, by a copy.
ProbeFails ==
  /\ ProbeEnds
  /\ UNCHANGED <<checking, seen>>
  /\ IF noted # {} /\ Loopback \in Known /\ At(Loopback).status # "offline"
     THEN \E o \in Fresh : Update(o, [At(Loopback) EXCEPT !.status = "offline"])
     ELSE UNCHANGED <<instances, heap>>

-----------------------------------------------------------------------------
(* HealthChecker.                                                          *)

CheckAll ==
  /\ checking' = checking \cup {instances[p] : p \in {q \in Known : ~At(q).self}}
  /\ UNCHANGED <<instances, heap, seen, probing, noted>>

\* checkOne after its await: the object it was given is upserted, wherever it is now.
CheckEnds(o, s) ==
  /\ o \in checking /\ checking' = checking \ {o}
  /\ UNCHANGED <<seen, probing, noted>>
  /\ Upsert(o, [heap[o] EXCEPT !.status = s])

Next ==
  \/ \E p \in Remote, a \in Agents : Announce(p, a) \/ \E h \in Hosts : MdnsAnswer(p, a, h)
  \/ \E p \in Scanned, a \in Agents : ScanFinds(p, a)
  \/ \E a \in ClawIds : Lookup(a)
  \/ ProbeStarts \/ ProbeFails \/ \E a \in Agents, h \in Hosts : ProbeFinds(a, h)
  \/ CheckAll \/ \E o \in checking, s \in {"online", "offline"} : CheckEnds(o, s)
  \/ \E p \in Places : Remove(p) \/ \E x \in Aliases : SetAlias(p, x)

Spec == Init /\ [][Next]_vars

-----------------------------------------------------------------------------
\* The instance stored under a key has that address: what _markOffline, the card
\* fetcher and the API rely on when they go from one to the other.
KeyedByAddress == \A p \in Known : At(p).place = p

AliasesUnique ==
  \A p, q \in Known : At(p).alias = At(q).alias /\ At(p).alias # NoAlias => p = q

NamesUnique == \A p, q \in Known : At(p).name = At(q).name => p = q

\* An auto_name, once assigned, is known until its instance is deleted, whichever
\* address, agent or host it is found with later (store.ts:179).
NamesStay ==
  [][(\E p \in Places : Remove(p)) \/ UsedNames \subseteq UsedNames']_vars

UsedAliases == {At(p).alias : p \in Known} \ {NoAlias}

\* Discovery never takes an alias from the user nor gives it to two instances, as long
\* as no health check holds an instance that has left the map.
AliasesSurvive ==
  [][Stale = {} =>
       /\ AliasesUnique => AliasesUnique'
       /\ \/ UsedAliases \subseteq UsedAliases'
          \/ \E p \in Places : Remove(p) \/ \E x \in Aliases : SetAlias(p, x)]_vars

\* Two instances get the same auto_name only by a lookup, which brings its own, or by
\* a health check that holds an instance that has left the map.
NamesStayUnique ==
  [][NamesUnique /\ Stale = {} => NamesUnique' \/ \E a \in ClawIds : Lookup(a)]_vars

=============================================================================
