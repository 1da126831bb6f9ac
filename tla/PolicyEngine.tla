---------------------------- MODULE PolicyEngine ----------------------------
(***************************************************************************)
(* The policy engine (agent/engine.ts): the decision taken on each inbound *)
(* proposal, its rate limiter, and policy.json, which PUT, PATCH and reset *)
(* requests rewrite through one .tmp name.                                 *)
(*                                                                         *)
(* Time is counted in ticks, Window of them to the minute.  A counter's    *)
(* resetAt is kept as the ticks left until then, so that time is not       *)
(* bounded.  The cleanup of the map beyond 100 entries removes expired     *)
(* counters only, which isRateLimited treats as absent, and is left out.   *)
(***************************************************************************)
EXTENDS Integers, FiniteSets

CONSTANTS Peers, Global,    \* the keys of rateCounters: claw_ids, "__global__"
          Proposals,        \* records [type, task_type, depth] peers send
          Replacements,     \* the bodies of PUT /agent/policy
          Patches,          \* the bodies of PATCH /agent/policy: partial policies
          DEFAULT_POLICY,
          Window,
          Requests,         \* identities for policy requests under way (a bound)
          MaxChanges        \* bound on policy requests

ASSUME PolicyAssumption ==
  /\ Global \notin Peers
  /\ Window \in Nat \ {0}
  /\ MaxChanges \in Nat

Limit == {"max_per_minute", "max_per_peer_minute"}

\* The bodies are of the types that the routes declare for them; a negative limit acts
\* as 0, a fractional one as the next natural number.
ASSUME LimitsAssumption ==
  /\ \A c \in {DEFAULT_POLICY} \cup Replacements :
       "rate_limit" \in DOMAIN c /\ \A f \in Limit : f \in DOMAIN c.rate_limit /\ c.rate_limit[f] \in Nat
  /\ \A patch \in Patches : "rate_limit" \in DOMAIN patch =>
       \A f \in Limit \cap DOMAIN patch.rate_limit : patch.rate_limit[f] \in Nat

VARIABLES
  config,
  rateCounters,   \* key -> [count, left]; left = 0: no counter, or an expired one
  decision,       \* what evaluate() last returned
  recent,         \* history: the proposals that passed the limiter in the last Window
                  \* ticks, each with what it brought the two counters to
  pc,             \* each request's saveConfig: "idle", "open", "write", "rename"
  snap,           \* the policy it serialised
  fd,             \* the name its open file bears by now: "tmp", "file" or "none"
  file, tmp,      \* the contents of policy.json and policy.json.tmp
  changes,
  overlapped      \* two saves have been under way together

rateVars == <<rateCounters, recent>>
saveVars == <<pc, snap, fd, file, tmp, overlapped>>
vars == <<config, rateVars, decision, saveVars, changes>>

Keys   == Peers \cup {Global}
Absent == [bytes |-> "absent"]
Empty  == [bytes |-> "empty"]    \* truncated, not written yet
Torn   == [bytes |-> "torn"]     \* two writers' bytes
Json(c) == [bytes |-> "json", policy |-> c]

TypeOK ==
  /\ rateCounters \in [Keys -> [count : Nat, left : 0 .. Window]]
  /\ decision.result \in {"none", "accept", "reject", "queue"}
  /\ recent \subseteq [peer : Peers, age : 0 .. Window - 1, own : Nat, all : Nat]
  /\ pc \in [Requests -> {"idle", "open", "write", "rename"}]
  /\ fd \in [Requests -> {"none", "tmp", "file"}]
  /\ file.bytes \in {"empty", "torn", "json"}
  /\ tmp.bytes \in {"absent", "empty", "torn", "json"}
  /\ changes \in 0 .. MaxChanges
  /\ overlapped \in BOOLEAN

-----------------------------------------------------------------------------
\* The decision.

Whitelisted(p) == p \in config.access_control.whitelist
Blacklisted(p) == p \in config.access_control.blacklist

\* The router passes no score: peerTrustScore is its default, 0.
Untrusted(p) ==
  /\ config.mode # "auto"
  /\ ~Whitelisted(p)
  /\ 0 < config.trust_threshold

Undelegated(m) ==
  /\ m.type = "delegate"
  /\ ~config.delegation.allow \/ m.depth > config.delegation.max_depth

\* capability_filter holds patterns; one is here the set of the task types it matches.
Filtered(m) ==
  /\ config.capability_filter # {}
  /\ \A pattern \in config.capability_filter : m.task_type \notin pattern

\* The approval mode; one that is none of the three is treated as "queue".
Approved(p, m) ==
  \/ config.mode = "auto"
  \/ /\ config.mode = "hybrid"
     /\ \/ Whitelisted(p)
        \/ m.type = "propose" /\ m.task_type \in config.auto_approve_types

Decide(p, m) ==
  IF Untrusted(p) THEN [result |-> "reject", reason |-> "trust_insufficient"]
  ELSE IF Undelegated(m) THEN [result |-> "reject", reason |-> "policy_denied"]
  ELSE IF Filtered(m) THEN [result |-> "reject", reason |-> "capability_mismatch"]
  ELSE IF Approved(p, m) THEN [result |-> "accept", reason |-> "auto_approved"]
  ELSE [result |-> "queue", reason |-> "queued_for_review"]

\* Mutant of Full: an off-by-one.
FullLate(k, limit) == rateCounters[k].left > 0 /\ rateCounters[k].count > limit

Full(k, limit) == rateCounters[k].left > 0 /\ rateCounters[k].count >= limit

isRateLimited(p) ==
  \/ Full(Global, config.rate_limit.max_per_minute)
  \/ Full(p, config.rate_limit.max_per_peer_minute)

\* incrementRate: a fixed window opens with the first proposal after the former one.
incrementRate(p) ==
  rateCounters' =
    [k \in Keys |->
       IF k \notin {Global, p} THEN rateCounters[k]
       ELSE IF rateCounters[k].left = 0 THEN [count |-> 1, left |-> Window]
       ELSE [rateCounters[k] EXCEPT !.count = @ + 1]]

Evaluate(p, m) ==
  /\ IF Blacklisted(p) THEN
       /\ decision' = [result |-> "reject", reason |-> "policy_denied"]
       /\ UNCHANGED rateVars
     ELSE IF isRateLimited(p) THEN
       /\ decision' = [result |-> "reject", reason |-> "rate_limited"]
       /\ UNCHANGED rateVars
     ELSE
       /\ decision' = Decide(p, m)
       /\ incrementRate(p)
       /\ recent' = recent \cup {[peer |-> p, age |-> 0, own |-> rateCounters'[p].count,
                                                       all |-> rateCounters'[Global].count]}
  /\ UNCHANGED <<config, saveVars, changes>>

\* A tick of the clock.
Tick ==
  /\ rateCounters' = [k \in Keys |-> IF rateCounters[k].left > 1
                                     THEN [rateCounters[k] EXCEPT !.left = @ - 1]
                                     ELSE [count |-> 0, left |-> 0]]
  /\ recent' = {[x EXCEPT !.age = @ + 1] : x \in {y \in recent : y.age < Window - 1}}
  /\ UNCHANGED <<config, decision, saveVars, changes>>

-----------------------------------------------------------------------------
\* The policy file.

Busy == {r \in Requests : pc[r] # "idle"}

\* saveConfig up to its first await.
StartSave(r) ==
  /\ pc' = [pc EXCEPT ![r] = "open"]
  /\ snap' = [snap EXCEPT ![r] = config']
  /\ overlapped' = (overlapped \/ Busy # {})
  /\ UNCHANGED <<fd, file, tmp>>

Nested(k) == k \in {"rate_limit", "delegation", "access_control"}

\* {...old, ...new}
Spread(old, new) ==
  [k \in DOMAIN old \cup DOMAIN new |-> IF k \in DOMAIN new THEN new[k] ELSE old[k]]

\* deepMerge goes one level into the objects of the policy.
DeepMerge(c, patch) ==
  [k \in DOMAIN c |-> IF k \notin DOMAIN patch THEN c[k]
                      ELSE IF Nested(k) THEN Spread(c[k], patch[k])
                      ELSE patch[k]]

\* updateConfig, patchConfig, resetConfig: the policy is in force at once.
NewConfig ==
  Replacements \cup {DeepMerge(config, patch) : patch \in Patches} \cup {DEFAULT_POLICY}

ChangePolicy(r) ==
  /\ changes < MaxChanges /\ changes' = changes + 1
  /\ pc[r] = "idle"
  /\ config' \in NewConfig
  /\ StartSave(r)
  /\ UNCHANGED <<rateVars, decision>>

\* Mutant of OpenTmp: policy.json is written in place.
OpenFile(r) ==
  /\ pc[r] = "open"
  /\ pc' = [pc EXCEPT ![r] = "write"]
  /\ fd' = [fd EXCEPT ![r] = "file"]
  /\ file' = Empty
  /\ UNCHANGED <<config, rateVars, decision, snap, tmp, changes, overlapped>>

\* writeFile's open truncates whatever the tmp name holds.
OpenTmp(r) ==
  /\ pc[r] = "open"
  /\ pc' = [pc EXCEPT ![r] = "write"]
  /\ fd' = [fd EXCEPT ![r] = "tmp"]
  /\ tmp' = Empty
  /\ UNCHANGED <<config, rateVars, decision, snap, file, changes, overlapped>>

Written(old, r) == IF old = Empty THEN {Json(snap[r])} ELSE {Json(snap[r]), Torn}

\* The write follows the open file, which another request's rename may have moved
\* to policy.json, and out of it.
WriteTmp(r) ==
  /\ pc[r] = "write"
  /\ pc' = [pc EXCEPT ![r] = "rename"]
  /\ fd' = [fd EXCEPT ![r] = "none"]
  /\ tmp' \in IF fd[r] = "tmp" THEN Written(tmp, r) ELSE {tmp}
  /\ file' \in IF fd[r] = "file" THEN Written(file, r) ELSE {file}
  /\ UNCHANGED <<config, rateVars, decision, snap, changes, overlapped>>

\* Mutant of Rename: the request ends without it.
RenameNever(r) ==
  /\ pc[r] = "rename"
  /\ pc' = [pc EXCEPT ![r] = "idle"]
  /\ UNCHANGED <<config, rateVars, decision, snap, fd, file, tmp, changes, overlapped>>

\* rename(2); without a tmp file it fails, and so does the request, although its
\* policy is in force.
Rename(r) ==
  /\ pc[r] = "rename"
  /\ pc' = [pc EXCEPT ![r] = "idle"]
  /\ snap' = [snap EXCEPT ![r] = DEFAULT_POLICY]
  /\ IF tmp = Absent THEN UNCHANGED <<file, tmp, fd>>
     ELSE /\ file' = tmp /\ tmp' = Absent
          /\ fd' = [q \in Requests |-> IF fd[q] = "tmp" THEN "file" ELSE "none"]
  /\ UNCHANGED <<config, rateVars, decision, changes, overlapped>>

\* init(): "Corrupted - use defaults".
Loaded == IF file.bytes = "json" THEN file.policy ELSE DEFAULT_POLICY

\* The counters of a new process, and of none before it.
NoCounters == [k \in Keys |-> [count |-> 0, left |-> 0]]

Init ==
  /\ config = DEFAULT_POLICY
  /\ rateCounters = NoCounters /\ recent = {}
  /\ decision = [result |-> "none"]
  /\ pc = [r \in Requests |-> "idle"]
  /\ snap = [r \in Requests |-> DEFAULT_POLICY]
  /\ fd = [r \in Requests |-> "none"]
  /\ file = Json(DEFAULT_POLICY) /\ tmp = Absent
  /\ changes = 0 /\ overlapped = FALSE

\* The process ends anywhere; the next one runs init().
Restart ==
  /\ config' = Loaded
  /\ rateCounters' = NoCounters /\ recent' = {}
  /\ decision' = [result |-> "none"]
  /\ pc' = [r \in Requests |-> "idle"]
  /\ snap' = [r \in Requests |-> DEFAULT_POLICY]
  /\ fd' = [r \in Requests |-> "none"]
  /\ UNCHANGED <<file, tmp, overlapped, changes>>

Save(r) == OpenTmp(r) \/ WriteTmp(r) \/ Rename(r)

Next ==
  \/ \E p \in Peers, m \in Proposals : Evaluate(p, m)
  \/ Tick
  \/ \E r \in Requests : ChangePolicy(r) \/ Save(r)
  \/ Restart

Spec == Init /\ [][Next]_vars

-----------------------------------------------------------------------------
Limits(field) == {c.rate_limit[field] : c \in {DEFAULT_POLICY} \cup Replacements}
                 \cup {DeepMerge(DEFAULT_POLICY, patch).rate_limit[field] : patch \in Patches}

\* A fixed window lets through its limit, and one even if the limit is 0; two that
\* meet inside a minute let through all of the second and all but the first of the
\* first.
MostPerMinute(limit) == IF limit = 0 THEN 1 ELSE 2 * limit - 1

Passed(p) == {x \in recent : x.peer = p}

\* engine.ts:177-218: whatever the arrivals and the changes of policy, any minute of a
\* process lets through less than twice each limit.
RateBound ==
  /\ \A p \in Peers : \E limit \in Limits("max_per_peer_minute") :
       Cardinality(Passed(p)) <= MostPerMinute(limit)
  /\ \E limit \in Limits("max_per_minute") : Cardinality(recent) <= MostPerMinute(limit)

\* engine.ts:220: unless two requests overlap, a crash at any point leaves a policy.json
\* that init() can read, and a restart never falls back to the defaults.
CrashKeepsPolicy == ~overlapped => file.bytes = "json"

\* Unless two requests overlap, the policy in force is the one the next process loads,
\* as soon as the request that set it is answered.
AnsweredPolicyKept == (~overlapped /\ Busy = {}) => Loaded = config

=============================================================================
