--------------------------- MODULE RegistryProofs ---------------------------
(* Proofs about Registry, for every set of places, agents, hosts and objects. *)
EXTENDS Registry, TLAPS

Maps == [Places -> Objects \cup {NoObject}]

\* o is stored nowhere but, it may be, at r's place: so for a new object, and for one
\* a health check holds.
OnlyAt(o, r) == \A p \in Known : instances[p] = o => p = r.place

-----------------------------------------------------------------------------
(* What Put makes of the map and of the objects in it.                     *)

\* The object stored gets the fields given, the others in the map keep theirs.
LEMMA PutEffect ==
  ASSUME TypeOK, NEW m \in Maps, NEW o \in Objects, NEW r, Put(m, o, r)
  PROVE  /\ instances' = m
         /\ \A p \in Places : m[p] # NoObject =>
              heap'[m[p]] = IF m[p] = o THEN r ELSE heap[m[p]]
<1>1. ASSUME NEW p \in Places, m[p] # NoObject
      PROVE  heap'[m[p]] = IF m[p] = o THEN r ELSE heap[m[p]]
  <2>1. m[p] \in Objects
    BY <1>1 DEF Maps
  <2>. QED
    BY <2>1 DEF Put
<1>. QED
  BY <1>1 DEF Put

\* When nothing is stored, the objects left in the map keep their fields.
LEMMA RemoveEffect ==
  ASSUME TypeOK, NEW m \in Maps, Put(m, NoObject, Blank)
  PROVE  /\ instances' = m
         /\ \A p \in Places : m[p] # NoObject => heap'[m[p]] = heap[m[p]]
<1>1. ASSUME NEW p \in Places, m[p] # NoObject
      PROVE  heap'[m[p]] = heap[m[p]]
  <2>1. m[p] \in Objects
    BY <1>1 DEF Maps
  <2>. QED
    BY <1>1, <2>1 DEF Put
<1>. QED
  BY <1>1 DEF Put

\* What garbage is set to is a record of an instance.
LEMMA BlankType == Blank \in Instance
<1>1. (CHOOSE a \in Agents : TRUE) \in Agents
  BY RegistryAssumption
<1>. QED
  BY <1>1, RegistryAssumption DEF Blank, Instance, Statuses, Scopes

\* o need not be an object: Remove gives none.
LEMMA PutType ==
  ASSUME TypeOK, NEW m \in Maps, NEW o, NEW r \in Instance, Put(m, o, r)
  PROVE  instances' \in Maps /\ heap' \in [Objects -> Instance]
<1>1. ASSUME NEW x \in Objects
      PROVE  [heap[x] EXCEPT !.status = "unknown"] \in Instance
  <2>1. heap[x] \in Instance
    BY DEF TypeOK
  <2>. QED
    BY <2>1 DEF Instance, Statuses
<1>. QED
  BY <1>1, BlankType DEF Put, TypeOK

-----------------------------------------------------------------------------
(* What upsert makes of the map: the instance at q, if there is one, moves *)
(* to b with its name and alias; the others stay.                          *)

\* r takes no alias to a key that has not got it.
AliasKept(r) ==
  r.alias # NoAlias => r.place \in Known /\ r.alias = At(r.place).alias

Moves(q, b) ==
  /\ \A p \in Places \ {q, b} :
       /\ instances'[p] = instances[p]
       /\ p \in Known => heap'[instances[p]] = heap[instances[p]]
  /\ instances'[b] # NoObject
  /\ q # b => instances'[q] = NoObject /\ q \in Known /\ b \notin Known

Upserted(q, b, r) ==
  /\ Moves(q, b)
  /\ At(b)'.place = b
  /\ q \in Known => /\ At(b)'.name = At(q).name
                    /\ AliasKept(r) => At(b)'.alias = At(q).alias
  /\ q \notin Known => /\ r.place \notin Known
                       /\ r.name = NoName => At(b)'.name \notin UsedNames
                       /\ AliasKept(r) => At(b)'.alias = NoAlias

\* upsert of a known key (store.ts:174) stores an instance.
LEMMA UpdateType ==
  ASSUME TypeOK, NEW o \in Objects, NEW r \in Instance, r.place \in Known, Update(o, r)
  PROVE  instances' \in Maps /\ heap' \in [Objects -> Instance]
<1>. DEFINE m == [instances EXCEPT ![r.place] = o]
            s == [r EXCEPT !.alias = Or(r.alias, NoAlias, At(r.place).alias),
                           !.name = At(r.place).name]
<1>1. m \in Maps
  BY DEF TypeOK, Maps
<1>2. At(r.place) \in Instance
  BY DEF TypeOK, Known, At
<1>3. s \in Instance
  BY <1>2 DEF Instance, Or
<1>4. Put(m, o, s)
  BY DEF Update
<1>. QED
  BY <1>1, <1>3, <1>4, PutType

\* upsert of a known key keeps that key's name, and its alias if r brings none.
LEMMA UpdateMoves ==
  ASSUME TypeOK, NEW o \in Objects, NEW r \in Instance, r.place \in Known, OnlyAt(o, r),
         Update(o, r)
  PROVE  Upserted(r.place, r.place, r)
<1>. DEFINE b == r.place
            m == [instances EXCEPT ![b] = o]
            s == [r EXCEPT !.alias = Or(r.alias, NoAlias, At(r.place).alias),
                           !.name = At(r.place).name]
<1>1. m \in Maps /\ Put(m, o, s) /\ b \in Places
  BY DEF TypeOK, Maps, Update, Known
<1>2. /\ instances' = m
      /\ \A p \in Places : m[p] # NoObject => heap'[m[p]] = IF m[p] = o THEN s ELSE heap[m[p]]
  BY <1>1, PutEffect
<1>3. instances'[b] = o /\ o # NoObject
  BY <1>1, <1>2, RegistryAssumption DEF TypeOK
<1>4. ASSUME NEW p \in Places \ {b}
      PROVE  /\ instances'[p] = instances[p]
             /\ p \in Known => heap'[instances[p]] = heap[instances[p]]
  <2>1. m[p] = instances[p]
    BY DEF TypeOK
  <2>2. p \in Known => instances[p] # o
    BY <1>4 DEF OnlyAt
  <2>. QED
    BY <1>2, <2>1, <2>2 DEF Known
<1>5. Moves(b, b)
  BY <1>3, <1>4 DEF Moves
<1>6. heap'[instances'[b]] = s
  BY <1>1, <1>2, <1>3
<1>7. s.place = b /\ s.name = At(b).name /\ s.alias = Or(r.alias, NoAlias, At(b).alias)
  BY DEF Instance
<1>. QED
  BY <1>5, <1>6, <1>7 DEF Upserted, AliasKept, Or, At

\* _mergeInstances (store.ts:287) takes one of the two addresses, and name and alias from
\* the instance known already.
LEMMA MergedFields ==
  ASSUME NEW old \in Instance, NEW new \in Instance
  PROVE  LET s == Merged(old, new) IN
           /\ s \in Instance
           /\ s.place \in {old.place, new.place}
           /\ s.name = old.name /\ s.alias = old.alias
<1>. DEFINE best == IF Priority(old.scope) >= Priority(new.scope) THEN old ELSE new
<1>1. best \in Instance /\ best \in {old, new}
  OBVIOUS
<1>2. Merged(old, new) = [old EXCEPT !.place = best.place, !.scope = best.scope,
                                     !.status = new.status, !.self = @ \/ new.self]
  BY DEF Merged
<1>3. best.place \in Places /\ best.scope \in Scopes /\ new.status \in Statuses
      /\ (old.self \/ new.self) \in BOOLEAN
  BY <1>1 DEF Instance
<1>. HIDE DEF best
<1>. QED
  BY <1>1, <1>2, <1>3 DEF Instance

\* upsert of a duplicate (store.ts:193) stores an instance.
LEMMA MergeType ==
  ASSUME TypeOK, NEW o \in Objects, NEW r \in Instance, NEW p \in Known, Merge(o, r, p)
  PROVE  instances' \in Maps /\ heap' \in [Objects -> Instance]
<1>. DEFINE s == Merged(At(p), r)
            m == [instances EXCEPT ![p] = NoObject, ![s.place] = o]
<1>1. At(p) \in Instance
  BY DEF TypeOK, Known, At
<1>2. s \in Instance
  BY <1>1, MergedFields
<1>3. m \in Maps
  BY <1>2 DEF TypeOK, Maps, Instance
<1>4. Put(m, o, s)
  BY DEF Merge
<1>. QED
  BY <1>2, <1>3, <1>4, PutType

\* upsert of a duplicate moves the instance known already to the better address.
LEMMA MergeMoves ==
  ASSUME TypeOK, KeyedByAddress, NEW o \in Objects, NEW r \in Instance, r.place \notin Known,
         OnlyAt(o, r), NEW q \in Known, Merge(o, r, q)
  PROVE  \E b \in Places : Upserted(q, b, r)
<1>. DEFINE s == Merged(At(q), r)
            b == s.place
            m == [instances EXCEPT ![q] = NoObject, ![b] = o]
<1>1. At(q) \in Instance /\ At(q).place = q /\ q \in Places
  BY DEF TypeOK, Known, At, KeyedByAddress
<1>2. s \in Instance /\ b \in {q, r.place} /\ s.name = At(q).name /\ s.alias = At(q).alias
  BY <1>1, MergedFields
<1>3. b \in Places /\ m \in Maps /\ Put(m, o, s)
  BY <1>2 DEF TypeOK, Maps, Instance, Merge
<1>. HIDE DEF b, s, m
<1>4. /\ instances' = m
      /\ \A p \in Places : m[p] # NoObject => heap'[m[p]] = IF m[p] = o THEN s ELSE heap[m[p]]
  BY <1>2, <1>3, PutEffect
<1>5. m[b] = o /\ o # NoObject /\ (q # b => m[q] = NoObject)
  BY <1>1, <1>3, RegistryAssumption DEF TypeOK, m
<1>6. ASSUME NEW p \in Places \ {q, b}
      PROVE  /\ instances'[p] = instances[p]
             /\ p \in Known => heap'[instances[p]] = heap[instances[p]]
  <2>1. m[p] = instances[p]
    BY DEF TypeOK, m
  <2>2. p \in Known => instances[p] # o
    BY DEF OnlyAt
  <2>. QED
    BY <1>4, <2>1, <2>2 DEF Known
<1>7. Moves(q, b)
  BY <1>2, <1>4, <1>5, <1>6 DEF Moves
<1>8. heap'[instances'[b]] = s
  BY <1>3, <1>4, <1>5
<1>9. s.place = b
  BY DEF b
<1>. QED
  BY <1>2, <1>3, <1>7, <1>8, <1>9 DEF Upserted, At

\* The name of a first discovery is free if it was generated (auto-name.ts:47).
LEMMA InsertedName ==
  ASSUME NEW r \in Instance,
         NEW name \in IF r.name # NoName THEN {r.name} ELSE AutoNames(Base(r))
  PROVE  /\ name \in Names \cup {NoName}
         /\ r.name = NoName => name \notin UsedNames
<1>1. CASE r.name # NoName
  BY <1>1 DEF Instance
<1>2. CASE r.name = NoName
  <2>1. Base(r) \in Bases
    BY DEF Base, Bases, Instance
  <2>2. name \in AutoNames(Base(r))
    BY <1>2
  <2>3. PICK n \in 1 .. MaxSuffix : name = <<Base(r), n>> /\ name \notin UsedNames
    BY <2>2 DEF AutoNames
  <2>. QED
    BY <2>1, <2>3 DEF Names
<1>. QED
  BY <1>1, <1>2

\* upsert of a first discovery (store.ts:208) stores an instance.
LEMMA InsertType ==
  ASSUME TypeOK, NEW o \in Objects, NEW r \in Instance, Insert(o, r)
  PROVE  instances' \in Maps /\ heap' \in [Objects -> Instance]
<1>. DEFINE m == [instances EXCEPT ![r.place] = o]
<1>1. PICK name \in IF r.name # NoName THEN {r.name} ELSE AutoNames(Base(r)) :
        Put(m, o, [r EXCEPT !.name = name])
  BY DEF Insert
<1>2. name \in Names \cup {NoName}
  BY InsertedName
<1>3. [r EXCEPT !.name = name] \in Instance
  BY <1>2 DEF Instance
<1>4. m \in Maps
  BY DEF TypeOK, Maps
<1>. QED
  BY <1>1, <1>3, <1>4, PutType

\* upsert of a first discovery adds one instance and touches no other.
LEMMA InsertMoves ==
  ASSUME TypeOK, NEW o \in Objects, NEW r \in Instance, r.place \notin Known, OnlyAt(o, r),
         Insert(o, r)
  PROVE  Upserted(r.place, r.place, r)
<1>. DEFINE b == r.place
            m == [instances EXCEPT ![b] = o]
<1>1. PICK name \in IF r.name # NoName THEN {r.name} ELSE AutoNames(Base(r)) :
        Put(m, o, [r EXCEPT !.name = name])
  BY DEF Insert
<1>2. r.name = NoName => name \notin UsedNames
  BY InsertedName
<1>. DEFINE s == [r EXCEPT !.name = name]
<1>3. b \in Places /\ m \in Maps
  BY DEF TypeOK, Maps, Instance
<1>4. /\ instances' = m
      /\ \A p \in Places : m[p] # NoObject => heap'[m[p]] = IF m[p] = o THEN s ELSE heap[m[p]]
  BY <1>1, <1>3, PutEffect
<1>5. instances'[b] = o /\ o # NoObject
  BY <1>3, <1>4, RegistryAssumption DEF TypeOK
<1>6. ASSUME NEW p \in Places \ {b}
      PROVE  /\ instances'[p] = instances[p]
             /\ p \in Known => heap'[instances[p]] = heap[instances[p]]
  <2>1. m[p] = instances[p]
    BY DEF TypeOK
  <2>2. p \in Known => instances[p] # o
    BY DEF OnlyAt
  <2>. QED
    BY <1>4, <2>1, <2>2 DEF Known
<1>7. Moves(b, b)
  BY <1>5, <1>6 DEF Moves
<1>8. heap'[instances'[b]] = s
  BY <1>3, <1>4, <1>5
<1>9. s.place = b /\ s.name = name /\ s.alias = r.alias
  BY DEF Instance
<1>. QED
  BY <1>2, <1>7, <1>8, <1>9 DEF Upserted, AliasKept, At

\* upsert stores instances.
LEMMA UpsertType ==
  ASSUME TypeOK, NEW o \in Objects, NEW r \in Instance, Upsert(o, r)
  PROVE  instances' \in Maps /\ heap' \in [Objects -> Instance]
<1>1. CASE r.place \in Known /\ Update(o, r)
  BY <1>1, UpdateType
<1>2. CASE \E p \in Duplicates(r) : Merge(o, r, p)
  BY <1>2, MergeType DEF Duplicates
<1>3. CASE Insert(o, r)
  BY <1>3, InsertType
<1>. QED
  BY <1>1, <1>2, <1>3 DEF Upsert

\* upsert touches one instance, which may change its key, and no other.
LEMMA UpsertMoves ==
  ASSUME TypeOK, KeyedByAddress, NEW o \in Objects, NEW r \in Instance, OnlyAt(o, r),
         Upsert(o, r)
  PROVE  \E q, b \in Places : Upserted(q, b, r)
<1>1. CASE r.place \in Known /\ Update(o, r)
  BY <1>1, UpdateMoves DEF Known
<1>2. CASE r.place \notin Known /\ \E p \in Duplicates(r) : Merge(o, r, p)
  BY <1>2, MergeMoves DEF Duplicates, Known
<1>3. CASE r.place \notin Known /\ Insert(o, r)
  <2>1. r.place \in Places
    BY DEF Instance
  <2>. QED
    BY <1>3, <2>1, InsertMoves
<1>. QED
  BY <1>1, <1>2, <1>3 DEF Upsert
\* The instances but the one that moves are the same before and after.
LEMMA MovesKnown ==
  ASSUME NEW q \in Places, NEW b \in Places, Moves(q, b)
  PROVE  /\ b \in Known'
         /\ \A p \in Known' \ {b} : p \in Known \ {q} /\ At(p)' = At(p)
         /\ \A p \in Known \ {q} : p \in Known' \ {b} /\ At(p)' = At(p)
<1>1. ASSUME NEW p \in Known' \ {b}
      PROVE  p \in Known \ {q} /\ At(p)' = At(p)
  <2>1. p # q /\ p \in Places
    BY DEF Moves, Known
  <2>. QED
    BY <2>1 DEF Moves, Known, At
<1>2. ASSUME NEW p \in Known \ {q}
      PROVE  p \in Known' \ {b} /\ At(p)' = At(p)
  <2>1. p # b /\ p \in Places
    BY DEF Moves, Known
  <2>. QED
    BY <2>1 DEF Moves, Known, At
<1>. QED
  BY <1>1, <1>2 DEF Moves, Known

-----------------------------------------------------------------------------
(* What a step writes.                                                     *)

\* r is upserted as the object o; if no check holds an instance that has left the map,
\* r brings no alias of its own, and only a lookup brings a name to a new key.
Writes(o, r) ==
  /\ OnlyAt(o, r) /\ Upsert(o, r)
  /\ Stale = {} => AliasKept(r)
  /\ Stale = {} => r.name = NoName \/ r.place \in Known \/ \E a \in ClawIds : Lookup(a)

\* Discovery builds instances that bring neither name nor alias.
LEMMA FoundType ==
  ASSUME NEW p \in Places, NEW a \in Agents, NEW h \in Hosts \cup Places \cup {NoHost}
  PROVE  /\ Found(p, a, h) \in Instance
         /\ Found(p, a, h).name = NoName /\ Found(p, a, h).alias = NoAlias
BY RegistryAssumption DEF Found, Instance, Statuses, Scopes

\* A new object is stored nowhere.
LEMMA FreshOnly ==
  ASSUME NEW o \in Fresh, NEW r
  PROVE  o \in Objects /\ OnlyAt(o, r)
BY DEF Fresh, Live, OnlyAt

\* What a new object brings.
LEMMA FreshWrites ==
  ASSUME NEW o \in Fresh, NEW r, Upsert(o, r), r.alias = NoAlias, r.name = NoName
  PROVE  o \in Objects /\ Writes(o, r)
<1>1. o \in Objects /\ OnlyAt(o, r)
  BY FreshOnly
<1>2. AliasKept(r)
  BY DEF AliasKept
<1>. QED
  BY <1>1, <1>2 DEF Writes

\* What an mDNS answer writes (listener.ts:165).
LEMMA MdnsWrites ==
  ASSUME NEW p \in Remote, NEW a \in Agents, NEW h \in Hosts, MdnsAnswer(p, a, h)
  PROVE  \/ \E o \in Objects, r \in Instance : Writes(o, r)
         \/ UNCHANGED <<instances, heap>>
<1>1. CASE \E o \in Fresh : Upsert(o, Found(p, a, h))
  BY <1>1, FoundType, FreshWrites DEF Remote
<1>. QED
  BY <1>1 DEF MdnsAnswer

\* What a broadcast announcement writes (broadcast.ts:254).
LEMMA AnnounceWrites ==
  ASSUME NEW p \in Remote, NEW a \in Agents, Announce(p, a)
  PROVE  \E o \in Objects, r \in Instance : Writes(o, r)
BY FoundType, FreshWrites DEF Announce, Remote

\* What a scan writes (active.ts:160).
LEMMA ScanWrites ==
  ASSUME TypeOK, NEW p \in Scanned, NEW a \in Agents, ScanFinds(p, a)
  PROVE  \E o \in Objects, r \in Instance : Writes(o, r)
<1>1. PICK o \in Fresh, h \in ScanHosts(p, a), s \in {"local"} \cup {"vpn" : q \in {p} \cap Vpn} :
        Upsert(o, [Found(p, a, h) EXCEPT !.scope = s])
  BY DEF ScanFinds
<1>2. h \in Hosts \cup Places /\ p \in Places
  BY RegistryAssumption DEF ScanHosts
<1>. DEFINE r == [Found(p, a, h) EXCEPT !.scope = s]
<1>3. s \in Scopes
  BY DEF Scopes
<1>4. r \in Instance /\ r.alias = NoAlias /\ r.name = NoName
  BY <1>2, <1>3, FoundType DEF Instance
<1>. QED
  BY <1>1, <1>4, FreshWrites

\* What a lookup in the public registry writes (discovery.ts:56).
LEMMA LookupWrites ==
  ASSUME NEW a \in ClawIds, Lookup(a)
  PROVE  \E o \in Objects, r \in Instance : Writes(o, r)
<1>. DEFINE f == Found(Synthetic, a, NoHost)
            r == [f EXCEPT !.name = <<a, 1>>, !.scope = "public", !.status = "unknown"]
<1>1. PICK o \in Fresh : Upsert(o, r)
  BY DEF Lookup
<1>2. f \in Instance /\ f.alias = NoAlias
  BY FoundType, RegistryAssumption
<1>3. <<a, 1>> \in Names /\ "public" \in Scopes /\ "unknown" \in Statuses
  BY RegistryAssumption DEF Names, Bases, Scopes, Statuses
<1>. HIDE DEF f
<1>4. r \in Instance /\ r.alias = NoAlias
  BY <1>2, <1>3 DEF Instance
<1>. HIDE DEF r
<1>5. o \in Objects /\ OnlyAt(o, r)
  BY FreshOnly
<1>6. AliasKept(r)
  BY <1>4 DEF AliasKept
<1>7. Writes(o, r)
  BY <1>1, <1>5, <1>6 DEF Writes
<1>. QED
  BY <1>4, <1>5, <1>7

\* What a successful probe writes (local/probe.ts:122, 161, 232).
LEMMA ProbeFindsWrites ==
  ASSUME NEW a \in Agents, NEW h \in Hosts, ProbeFinds(a, h)
  PROVE  \E o \in Objects, r \in Instance : Writes(o, r)
<1>. DEFINE f == Found(Loopback, a, h)
<1>1. PICK o \in Fresh, s \in {"online", "offline"} :
        Upsert(o, [f EXCEPT !.self = TRUE, !.status = s])
  BY DEF ProbeFinds
<1>. DEFINE r == [f EXCEPT !.self = TRUE, !.status = s]
<1>2. f \in Instance /\ f.alias = NoAlias /\ f.name = NoName
  BY FoundType, RegistryAssumption
<1>3. s \in Statuses
  BY DEF Statuses
<1>. HIDE DEF f
<1>4. r \in Instance /\ r.alias = NoAlias /\ r.name = NoName
  BY <1>2, <1>3 DEF Instance
<1>. QED
  BY <1>1, <1>4, FreshWrites

\* What a probe that finds nothing writes (local/probe.ts:52).
LEMMA ProbeFailsWrites ==
  ASSUME TypeOK, KeyedByAddress, ProbeFails
  PROVE  \/ \E o \in Objects, r \in Instance : Writes(o, r)
         \/ UNCHANGED <<instances, heap>>
<1>1. CASE /\ Loopback \in Known
           /\ \E o \in Fresh : Update(o, [At(Loopback) EXCEPT !.status = "offline"])
  <2>. DEFINE r == [At(Loopback) EXCEPT !.status = "offline"]
  <2>1. PICK o \in Fresh : Update(o, r)
    BY <1>1
  <2>2. At(Loopback) \in Instance /\ At(Loopback).place = Loopback
    BY <1>1 DEF TypeOK, Known, At, KeyedByAddress
  <2>3. r \in Instance /\ r.place = Loopback /\ r.alias = At(Loopback).alias
    BY <2>2 DEF Instance, Statuses
  <2>. HIDE DEF r
  <2>4. Upsert(o, r) /\ AliasKept(r) /\ r.place \in Known
    BY <1>1, <2>1, <2>3 DEF Upsert, AliasKept
  <2>. QED
    BY <2>3, <2>4, FreshOnly DEF Writes
<1>. QED
  BY <1>1 DEF ProbeFails

\* What a health check writes, on an instance in the map or not (checker.ts:118).
LEMMA CheckWrites ==
  ASSUME TypeOK, KeyedByAddress, NEW o \in checking, NEW s \in {"online", "offline"},
         CheckEnds(o, s)
  PROVE  \E x \in Objects, r \in Instance : Writes(x, r)
<1>. DEFINE r == [heap[o] EXCEPT !.status = s]
<1>1. o \in Objects /\ heap[o] \in Instance
  BY DEF TypeOK
<1>2. r \in Instance /\ r.place = heap[o].place /\ r.alias = heap[o].alias
  BY <1>1 DEF Instance, Statuses
<1>3. Upsert(o, r)
  BY DEF CheckEnds
<1>. HIDE DEF r
<1>4. OnlyAt(o, r)
  BY <1>2 DEF OnlyAt, KeyedByAddress, At
<1>5. ASSUME Stale = {}
      PROVE  r.place \in Known /\ r.alias = At(r.place).alias
  <2>1. PICK p \in Known : instances[p] = o
    BY <1>5 DEF Stale, Live
  <2>. QED
    BY <1>2, <2>1 DEF KeyedByAddress, At
<1>. QED
  BY <1>1, <1>2, <1>3, <1>4, <1>5 DEF Writes, AliasKept
\* Every step upserts one instance, leaves the map alone, or is the user's.
LEMMA NextWrites ==
  ASSUME TypeOK, KeyedByAddress, Next
  PROVE  \/ \E o \in Objects, r \in Instance : Writes(o, r)
         \/ UNCHANGED <<instances, heap>>
         \/ \E p \in Places : Remove(p) \/ \E x \in Aliases : SetAlias(p, x)
<1>1. CASE \E p \in Remote, a \in Agents : Announce(p, a) \/ \E h \in Hosts : MdnsAnswer(p, a, h)
  BY <1>1, AnnounceWrites, MdnsWrites
<1>2. CASE \E p \in Scanned, a \in Agents : ScanFinds(p, a)
  BY <1>2, ScanWrites
<1>3. CASE \E a \in ClawIds : Lookup(a)
  BY <1>3, LookupWrites
<1>4. CASE ProbeStarts \/ CheckAll
  BY <1>4 DEF ProbeStarts, CheckAll
<1>5. CASE ProbeFails
  BY <1>5, ProbeFailsWrites
<1>6. CASE \E a \in Agents, h \in Hosts : ProbeFinds(a, h)
  BY <1>6, ProbeFindsWrites
<1>7. CASE \E o \in checking, s \in {"online", "offline"} : CheckEnds(o, s)
  BY <1>7, CheckWrites
<1>. QED
  BY <1>1, <1>2, <1>3, <1>4, <1>5, <1>6, <1>7 DEF Next

-----------------------------------------------------------------------------
(* TypeOK and KeyedByAddress.                                              *)

\* SetAlias and Remove, which do not upsert.
LEMMA SetAliasEffect ==
  ASSUME TypeOK, KeyedByAddress, NEW p \in Places, NEW x \in Aliases, SetAlias(p, x)
  PROVE  /\ instances' \in Maps /\ heap' \in [Objects -> Instance]
         /\ p \in Known /\ Known' = Known
         /\ \A q \in Known : At(q)' = IF q = p THEN [At(q) EXCEPT !.alias = x] ELSE At(q)
<1>1. p \in Known /\ instances' = instances /\ instances[p] \in Objects
  BY DEF SetAlias, TypeOK, Known
<1>2. heap' = [heap EXCEPT ![instances[p]].alias = x]
  BY DEF SetAlias
<1>3. \A q \in Known : instances[q] \in Objects /\ (instances[q] = instances[p] => q = p)
  BY <1>1 DEF KeyedByAddress, At, TypeOK, Known
<1>4. \A q \in Known : At(q)' = IF q = p THEN [At(q) EXCEPT !.alias = x] ELSE At(q)
  BY <1>1, <1>2, <1>3 DEF At, TypeOK
<1>5. [heap[instances[p]] EXCEPT !.alias = x] \in Instance
  BY <1>1 DEF TypeOK, Instance
<1>6. heap' \in [Objects -> Instance]
  BY <1>1, <1>2, <1>5 DEF TypeOK
<1>. QED
  BY <1>1, <1>4, <1>6 DEF Known, TypeOK, Maps

\* A removal leaves the other instances as they are.
LEMMA RemoveKeeps ==
  ASSUME TypeOK, NEW p \in Places, Remove(p)
  PROVE  /\ instances' \in Maps /\ heap' \in [Objects -> Instance]
         /\ Known' \subseteq Known
         /\ \A q \in Known' : At(q)' = At(q)
<1>. DEFINE m == [instances EXCEPT ![p] = NoObject]
<1>1. m \in Maps /\ Put(m, NoObject, Blank)
  BY DEF TypeOK, Maps, Remove
<1>2. instances' \in Maps /\ heap' \in [Objects -> Instance]
  BY <1>1, PutType, BlankType
<1>3. instances' = m /\ \A q \in Places : m[q] # NoObject => heap'[m[q]] = heap[m[q]]
  BY <1>1, RemoveEffect
<1>4. ASSUME NEW q \in Known'
      PROVE  q \in Known /\ At(q)' = At(q)
  <2>1. q \in Places /\ m[q] # NoObject
    BY <1>3 DEF Known
  <2>2. m[q] = instances[q]
    BY <2>1 DEF TypeOK
  <2>. QED
    BY <1>3, <2>1, <2>2 DEF Known, At
<1>. QED
  BY <1>2, <1>4

\* An upsert keeps every instance under its own address.
LEMMA WritesKeyed ==
  ASSUME TypeOK, KeyedByAddress, NEW o \in Objects, NEW r \in Instance, Writes(o, r)
  PROVE  KeyedByAddress'
<1>1. PICK q \in Places, b \in Places : Upserted(q, b, r)
  BY UpsertMoves DEF Writes
<1>2. Moves(q, b) /\ At(b)'.place = b
  BY <1>1 DEF Upserted
<1>3. \A p \in Known' \ {b} : p \in Known /\ At(p)' = At(p)
  BY <1>2, MovesKnown
<1>4. ASSUME NEW p \in Known'
      PROVE  At(p)'.place = p
  BY <1>2, <1>3 DEF KeyedByAddress
<1>. QED
  BY <1>4 DEF KeyedByAddress

\* The map and the objects keep their types.
LEMMA MapType ==
  ASSUME TypeOK, KeyedByAddress, Next
  PROVE  instances' \in Maps /\ heap' \in [Objects -> Instance]
<1>1. CASE \E o \in Objects, r \in Instance : Writes(o, r)
  BY <1>1, UpsertType DEF Writes
<1>2. CASE UNCHANGED <<instances, heap>>
  BY <1>2 DEF TypeOK, Maps
<1>3. CASE \E p \in Places : Remove(p) \/ \E x \in Aliases : SetAlias(p, x)
  BY <1>3, RemoveKeeps, SetAliasEffect
<1>. QED
  BY <1>1, <1>2, <1>3, NextWrites

\* Every step keeps every instance under its own address.
LEMMA KeyedStep ==
  ASSUME TypeOK, KeyedByAddress, Next
  PROVE  KeyedByAddress'
<1>1. CASE \E o \in Objects, r \in Instance : Writes(o, r)
  BY <1>1, WritesKeyed
<1>2. CASE UNCHANGED <<instances, heap>>
  BY <1>2 DEF KeyedByAddress, Known, At
<1>3. ASSUME NEW p \in Places, Remove(p)
      PROVE  KeyedByAddress'
  <2>1. \A q \in Known' : q \in Known /\ At(q)' = At(q)
    BY <1>3, RemoveKeeps
  <2>2. \A q \in Known' : At(q)'.place = q
    BY <2>1 DEF KeyedByAddress
  <2>. QED
    BY <2>2 DEF KeyedByAddress
<1>4. ASSUME NEW p \in Places, NEW x \in Aliases, SetAlias(p, x)
      PROVE  KeyedByAddress'
  <2>1. Known' = Known
        /\ \A q \in Known : At(q)' = IF q = p THEN [At(q) EXCEPT !.alias = x] ELSE At(q)
    BY <1>4, SetAliasEffect
  <2>2. \A q \in Known : At(q) \in Instance
    BY DEF TypeOK, Known, At
  <2>3. \A q \in Known' : At(q)'.place = q
    BY <2>1, <2>2 DEF KeyedByAddress, Instance
  <2>. QED
    BY <2>3 DEF KeyedByAddress
<1>. QED
  BY <1>1, <1>2, <1>3, <1>4, NextWrites

\* The fields that are not the map.
LEMMA OthersType ==
  ASSUME TypeOK, Next
  PROVE  checking' \subseteq Objects /\ seen' \subseteq Places
         /\ probing' \in BOOLEAN /\ noted' \subseteq Places
<1>1. CASE \E p \in Remote, a \in Agents : Announce(p, a) \/ \E h \in Hosts : MdnsAnswer(p, a, h)
  BY <1>1 DEF TypeOK, Announce, MdnsAnswer, Remote
<1>2. CASE (\E p \in Scanned, a \in Agents : ScanFinds(p, a)) \/ \E a \in ClawIds : Lookup(a)
  BY <1>2 DEF TypeOK, ScanFinds, Lookup
<1>3. CASE ProbeStarts
  BY <1>3 DEF TypeOK, ProbeStarts, Known
<1>4. CASE ProbeFails \/ \E a \in Agents, h \in Hosts : ProbeFinds(a, h)
  BY <1>4 DEF TypeOK, ProbeFails, ProbeFinds, ProbeEnds
<1>5. CASE CheckAll
  BY <1>5 DEF TypeOK, CheckAll, Known
<1>6. CASE \E o \in checking, s \in {"online", "offline"} : CheckEnds(o, s)
  BY <1>6 DEF TypeOK, CheckEnds
<1>7. CASE \E p \in Places : Remove(p) \/ \E x \in Aliases : SetAlias(p, x)
  BY <1>7 DEF TypeOK, Remove, SetAlias
<1>. QED
  BY <1>1, <1>2, <1>3, <1>4, <1>5, <1>6, <1>7 DEF Next

RegistryInv == TypeOK /\ KeyedByAddress

\* The invariant is inductive.
LEMMA Inductive ==
  ASSUME RegistryInv, [Next]_vars
  PROVE  RegistryInv'
<1>1. CASE Next
  BY <1>1, MapType, OthersType, KeyedStep DEF RegistryInv, TypeOK, Maps
<1>2. CASE UNCHANGED vars
  BY <1>2 DEF RegistryInv, TypeOK, KeyedByAddress, Known, At, vars
<1>. QED
  BY <1>1, <1>2

\* Every state is well typed and the map's keys are the addresses of its instances,
\* whatever finds, merges, checks or removes them, in any order.
THEOREM Keyed == Spec => [](TypeOK /\ KeyedByAddress)
<1>1. Init => RegistryInv
  BY BlankType DEF Init, RegistryInv, TypeOK, KeyedByAddress, Known
<1>2. RegistryInv => TypeOK /\ KeyedByAddress
  BY DEF RegistryInv
<1>. QED
  BY <1>1, <1>2, Inductive, PTL DEF Spec
-----------------------------------------------------------------------------
(* Names and aliases.                                                      *)

\* An upsert loses no name.
LEMMA WritesNames ==
  ASSUME TypeOK, KeyedByAddress, NEW o \in Objects, NEW r \in Instance, Writes(o, r)
  PROVE  UsedNames \subseteq UsedNames'
<1>1. PICK q \in Places, b \in Places : Upserted(q, b, r)
  BY UpsertMoves DEF Writes
<1>2. /\ b \in Known'
      /\ \A p \in Known \ {q} : p \in Known' \ {b} /\ At(p)' = At(p)
  BY <1>1, MovesKnown DEF Upserted
<1>3. ASSUME NEW p \in Known
      PROVE  \E s \in Known' : At(s)'.name = At(p).name
  BY <1>1, <1>2 DEF Upserted
<1>. QED
  BY <1>3 DEF UsedNames

\* An alias changes no name.
LEMMA SetAliasNames ==
  ASSUME TypeOK, KeyedByAddress, NEW p \in Places, NEW x \in Aliases, SetAlias(p, x)
  PROVE  Known' = Known /\ \A q \in Known : At(q)'.name = At(q).name
<1>1. \A q \in Known : At(q) \in Instance
  BY DEF TypeOK, Known, At
<1>. QED
  BY <1>1, SetAliasEffect DEF Instance

\* No writer but a removal loses an auto_name (store.ts:179, store.ts:305).
THEOREM NamesKept == Spec => NamesStay
<1>. DEFINE A == (\E p \in Places : Remove(p)) \/ UsedNames \subseteq UsedNames'
<1>1. ASSUME RegistryInv, Next
      PROVE  A
  <2>1. CASE \E o \in Objects, r \in Instance : Writes(o, r)
    BY <1>1, <2>1, WritesNames DEF RegistryInv
  <2>2. CASE UNCHANGED <<instances, heap>>
    BY <2>2 DEF UsedNames, Known, At
  <2>3. CASE \E p \in Places : Remove(p)
    BY <2>3
  <2>4. ASSUME NEW p \in Places, NEW x \in Aliases, SetAlias(p, x)
        PROVE  UsedNames \subseteq UsedNames'
    <3>1. Known' = Known /\ \A q \in Known : At(q)'.name = At(q).name
      BY <1>1, <2>4, SetAliasNames DEF RegistryInv
    <3>. QED
      BY <3>1 DEF UsedNames
  <2>. QED
    BY <1>1, <2>1, <2>2, <2>3, <2>4, NextWrites DEF RegistryInv
<1>2. RegistryInv /\ [Next]_vars => [A]_vars
  BY <1>1
<1>3. Spec => []RegistryInv
  BY Keyed DEF RegistryInv
<1>4. Spec => [][A]_vars
  BY <1>2, <1>3, PTL DEF Spec
<1>. QED
  BY <1>4 DEF NamesStay

\* An upsert gives no name twice, but for the two exceptions of NamesStayUnique.
LEMMA WritesNamesUnique ==
  ASSUME TypeOK, KeyedByAddress, NEW o \in Objects, NEW r \in Instance, Writes(o, r),
         NamesUnique, Stale = {}, ~ \E a \in ClawIds : Lookup(a)
  PROVE  NamesUnique'
<1>1. PICK q \in Places, b \in Places : Upserted(q, b, r)
  BY UpsertMoves DEF Writes
<1>2. \A p \in Known' \ {b} : p \in Known \ {q} /\ At(p)' = At(p)
  BY <1>1, MovesKnown DEF Upserted
<1>3. r.name = NoName \/ r.place \in Known
  BY DEF Writes
<1>4. ASSUME NEW p \in Known' \ {b}
      PROVE  At(p)'.name # At(b)'.name
  <2>1. p \in Known \ {q} /\ At(p)' = At(p)
    BY <1>2
  <2>2. CASE q \in Known
    BY <1>1, <2>1, <2>2 DEF Upserted, NamesUnique
  <2>3. CASE q \notin Known
    BY <1>1, <1>3, <2>1, <2>3 DEF Upserted, UsedNames
  <2>. QED
    BY <2>2, <2>3
<1>5. ASSUME NEW p \in Known', NEW s \in Known', At(p)'.name = At(s)'.name
      PROVE  p = s
  BY <1>2, <1>4, <1>5 DEF NamesUnique
<1>. QED
  BY <1>5 DEF NamesUnique
\* Two instances get the same auto_name only by a lookup, or while a health check holds
\* an instance that has left the map (auto-name.ts:47, discovery.ts:32, checker.ts:118).
THEOREM NamesDiffer == Spec => NamesStayUnique
<1>. DEFINE A == NamesUnique /\ Stale = {} => NamesUnique' \/ \E a \in ClawIds : Lookup(a)
<1>1. ASSUME RegistryInv, Next, NamesUnique, Stale = {}, ~ \E a \in ClawIds : Lookup(a)
      PROVE  NamesUnique'
  <2>1. CASE \E o \in Objects, r \in Instance : Writes(o, r)
    BY <1>1, <2>1, WritesNamesUnique DEF RegistryInv
  <2>2. CASE UNCHANGED <<instances, heap>>
    BY <1>1, <2>2 DEF NamesUnique, Known, At
  <2>3. ASSUME NEW p \in Places, Remove(p)
        PROVE  NamesUnique'
    <3>1. \A q \in Known' : q \in Known /\ At(q)' = At(q)
      BY <1>1, <2>3, RemoveKeeps DEF RegistryInv
    <3>2. \A q, s \in Known' : At(q)'.name = At(s)'.name => q = s
      BY <1>1, <3>1 DEF NamesUnique
    <3>. QED
      BY <3>2 DEF NamesUnique
  <2>4. ASSUME NEW p \in Places, NEW x \in Aliases, SetAlias(p, x)
        PROVE  NamesUnique'
    <3>1. Known' = Known /\ \A q \in Known : At(q)'.name = At(q).name
      BY <1>1, <2>4, SetAliasNames DEF RegistryInv
    <3>2. \A q, s \in Known' : At(q)'.name = At(s)'.name => q = s
      BY <1>1, <3>1 DEF NamesUnique
    <3>. QED
      BY <3>2 DEF NamesUnique
  <2>. QED
    BY <1>1, <2>1, <2>2, <2>3, <2>4, NextWrites DEF RegistryInv
<1>2. UNCHANGED vars => (NamesUnique => NamesUnique')
  BY DEF vars, NamesUnique, Known, At
<1>3. RegistryInv /\ [Next]_vars => [A]_vars
  BY <1>1, <1>2
<1>4. Spec => []RegistryInv
  BY Keyed DEF RegistryInv
<1>5. Spec => [][A]_vars
  BY <1>3, <1>4, PTL DEF Spec
<1>. QED
  BY <1>5 DEF NamesStayUnique

\* An upsert neither loses an alias nor gives it twice, if no check is stale.
LEMMA WritesAliases ==
  ASSUME TypeOK, KeyedByAddress, NEW o \in Objects, NEW r \in Instance, Writes(o, r),
         Stale = {}
  PROVE  /\ AliasesUnique => AliasesUnique'
         /\ UsedAliases \subseteq UsedAliases'
<1>1. PICK q \in Places, b \in Places : Upserted(q, b, r)
  BY UpsertMoves DEF Writes
<1>2. AliasKept(r)
  BY DEF Writes
<1>3. At(b)'.alias = IF q \in Known THEN At(q).alias ELSE NoAlias
  BY <1>1, <1>2 DEF Upserted
<1>4. /\ b \in Known'
      /\ \A p \in Known' \ {b} : p \in Known \ {q} /\ At(p)' = At(p)
      /\ \A p \in Known \ {q} : p \in Known' \ {b} /\ At(p)' = At(p)
  BY <1>1, MovesKnown DEF Upserted
<1>5. ASSUME AliasesUnique, NEW p \in Known', NEW s \in Known',
             At(p)'.alias = At(s)'.alias, At(p)'.alias # NoAlias
      PROVE  p = s
  <2>1. CASE p # b /\ s # b
    BY <1>4, <1>5, <2>1 DEF AliasesUnique
  <2>2. CASE p = b /\ s # b
    BY <1>3, <1>4, <1>5, <2>2 DEF AliasesUnique
  <2>3. CASE p # b /\ s = b
    BY <1>3, <1>4, <1>5, <2>3 DEF AliasesUnique
  <2>. QED
    BY <2>1, <2>2, <2>3
<1>6. ASSUME NEW p \in Known, At(p).alias # NoAlias
      PROVE  \E s \in Known' : At(s)'.alias = At(p).alias
  BY <1>3, <1>4
<1>. QED
  BY <1>5, <1>6 DEF AliasesUnique, UsedAliases

\* Discovery, merges and probes keep the user's aliases and never share one out, as long
\* as no health check holds an instance that has left the map (store.ts:176, store.ts:306).
THEOREM AliasesKept == Spec => AliasesSurvive
<1>. DEFINE A == Stale = {} =>
              /\ AliasesUnique => AliasesUnique'
              /\ \/ UsedAliases \subseteq UsedAliases'
                 \/ \E p \in Places : Remove(p) \/ \E x \in Aliases : SetAlias(p, x)
<1>1. ASSUME RegistryInv, Next
      PROVE  A
  <2>1. CASE \E o \in Objects, r \in Instance : Writes(o, r)
    BY <1>1, <2>1, WritesAliases DEF RegistryInv
  <2>2. CASE UNCHANGED <<instances, heap>>
    BY <2>2 DEF AliasesUnique, UsedAliases, Known, At
  <2>3. ASSUME NEW p \in Places, Remove(p)
        PROVE  AliasesUnique => AliasesUnique'
    <3>1. \A q \in Known' : q \in Known /\ At(q)' = At(q)
      BY <1>1, <2>3, RemoveKeeps DEF RegistryInv
    <3>2. AliasesUnique => \A q, s \in Known' :
            At(q)'.alias = At(s)'.alias /\ At(q)'.alias # NoAlias => q = s
      BY <3>1 DEF AliasesUnique
    <3>. QED
      BY <3>2 DEF AliasesUnique
  <2>4. ASSUME NEW p \in Places, NEW x \in Aliases, SetAlias(p, x)
        PROVE  AliasesUnique => AliasesUnique'
    <3>1. Known' = Known
          /\ \A q \in Known : At(q)' = IF q = p THEN [At(q) EXCEPT !.alias = x] ELSE At(q)
      BY <1>1, <2>4, SetAliasEffect DEF RegistryInv
    <3>2. \A q \in Known : At(q).alias = x => q = p
      BY <2>4 DEF SetAlias
    <3>3. \A q \in Known : At(q) \in Instance
      BY <1>1 DEF RegistryInv, TypeOK, Known, At
    <3>4. \A q \in Known : At(q)'.alias = IF q = p THEN x ELSE At(q).alias
      BY <3>1, <3>3 DEF Instance
    <3>5. AliasesUnique => \A q, s \in Known' :
            At(q)'.alias = At(s)'.alias /\ At(q)'.alias # NoAlias => q = s
      BY <3>1, <3>2, <3>4 DEF AliasesUnique
    <3>. QED
      BY <3>5 DEF AliasesUnique
  <2>. QED
    BY <1>1, <2>1, <2>2, <2>3, <2>4, NextWrites DEF RegistryInv
<1>2. RegistryInv /\ [Next]_vars => [A]_vars
  BY <1>1
<1>3. Spec => []RegistryInv
  BY Keyed DEF RegistryInv
<1>4. Spec => [][A]_vars
  BY <1>2, <1>3, PTL DEF Spec
<1>. QED
  BY <1>4 DEF AliasesSurvive
=============================================================================
