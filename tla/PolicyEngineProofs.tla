--------------------------- MODULE PolicyEngineProofs ---------------------------
(* Machine-checked properties of PolicyEngine's policy file and rate limiter,   *)
(* for any peers, policies and patches, and any number of requests and changes. *)
EXTENDS PolicyEngine, FunctionTheorems, FiniteSetTheorems, TLAPS

\* Where the one save under way has got to.
Saving(r) ==
  /\ pc[r] = "open"   => fd[r] = "none"
  /\ pc[r] = "write"  => fd[r] = "tmp" /\ tmp = Empty
  /\ pc[r] = "rename" => fd[r] = "none" /\ tmp = Json(snap[r])
  /\ pc[r] = "idle"   => fd[r] = "none"

\* One save at a time, of the policy in force; policy.json is whole, and holds that policy
\* if there is no save.
Ordered ==
  /\ \E p \in {file.policy} : file = Json(p)
  /\ \A q, r \in Requests : pc[q] # "idle" /\ pc[r] # "idle" => q = r
  /\ \A r \in Requests : Saving(r)
  /\ \A r \in Requests : pc[r] # "idle" => snap[r] = config
  /\ (\A r \in Requests : pc[r] = "idle") => file = Json(config)

Inv ==
  /\ pc \in [Requests -> {"idle", "open", "write", "rename"}]
  /\ fd \in [Requests -> {"none", "tmp", "file"}]
  /\ snap = [r \in Requests |-> snap[r]]
  /\ overlapped \in BOOLEAN
  /\ ~overlapped => Ordered

LEMMA JsonParts ==
  ASSUME NEW c
  PROVE  Json(c).bytes = "json" /\ Json(c).policy = c /\ Json(c) # Absent /\ Json(c) # Empty
BY DEF Json, Absent, Empty

LEMMA InvInit == Init => Inv
BY JsonParts DEF Init, Inv, Ordered, Saving

\* A decision and a tick leave the policy and its file alone.
LEMMA RateStep ==
  ASSUME Inv, UNCHANGED <<config, saveVars>>
  PROVE  Inv'
BY DEF saveVars, Inv, Ordered, Saving

LEMMA ChangeStep ==
  ASSUME Inv, NEW r \in Requests, ChangePolicy(r)
  PROVE  Inv'
<1>1. /\ pc[r] = "idle" /\ pc' = [pc EXCEPT ![r] = "open"] /\ snap' = [snap EXCEPT ![r] = config']
      /\ overlapped' = (overlapped \/ Busy # {}) /\ UNCHANGED <<fd, file, tmp>>
  BY DEF ChangePolicy, StartSave
<1>2. /\ pc' \in [Requests -> {"idle", "open", "write", "rename"}]
      /\ snap' = [q \in Requests |-> snap'[q]] /\ overlapped' \in BOOLEAN
  BY <1>1 DEF Inv
<1>3. ASSUME ~overlapped' PROVE Ordered'
  <2>1. Ordered /\ \A q \in Requests : pc[q] = "idle"
    BY <1>1, <1>3 DEF Inv, Busy
  <2>2. pc'[r] = "open" /\ snap'[r] = config' /\ \A q \in Requests \ {r} : pc'[q] = "idle"
    BY <1>1, <2>1 DEF Inv
  <2>. QED
    BY <1>1, <2>1, <2>2 DEF Ordered, Saving
<1>. QED
  BY <1>1, <1>2, <1>3 DEF Inv

LEMMA SaveStep ==
  ASSUME Inv, NEW r \in Requests, Save(r)
  PROVE  Inv'
<1>1. UNCHANGED <<config, overlapped>>
  BY DEF Save, OpenTmp, WriteTmp, Rename
<1>2. CASE OpenTmp(r)
  BY <1>1, <1>2 DEF OpenTmp, Inv, Ordered, Saving
<1>3. CASE WriteTmp(r)
  <2>1. /\ pc[r] = "write" /\ pc' = [pc EXCEPT ![r] = "rename"] /\ fd' = [fd EXCEPT ![r] = "none"]
        /\ snap' = snap
    BY <1>3 DEF WriteTmp
  <2>2. ~overlapped => tmp' = Json(snap[r]) /\ file' = file
    <3>1. ~overlapped => fd[r] = "tmp" /\ tmp = Empty
      BY <2>1 DEF Inv, Ordered, Saving
    <3>. QED
      BY <1>3, <3>1 DEF WriteTmp, Written
  <2>. QED
    BY <1>1, <2>1, <2>2 DEF Inv, Ordered, Saving
<1>4. CASE Rename(r)
  <2>1. /\ pc[r] = "rename" /\ pc' = [pc EXCEPT ![r] = "idle"] /\ snap' = [snap EXCEPT ![r] = DEFAULT_POLICY]
        /\ \/ tmp = Absent /\ UNCHANGED <<file, tmp, fd>>
           \/ /\ file' = tmp
              /\ fd' = [q \in Requests |-> IF fd[q] = "tmp" THEN "file" ELSE "none"]
    BY <1>4 DEF Rename
  <2>2. /\ pc' \in [Requests -> {"idle", "open", "write", "rename"}]
        /\ fd' \in [Requests -> {"none", "tmp", "file"}] /\ snap' = [q \in Requests |-> snap'[q]]
    BY <2>1 DEF Inv
  <2>3. ASSUME ~overlapped PROVE Ordered'
    <3>1. /\ Ordered /\ tmp = Json(config) /\ \A q \in Requests : fd[q] = "none" /\ (q # r => pc[q] = "idle")
      BY <2>1, <2>3 DEF Inv, Ordered, Saving
    <3>2. file' = Json(config) /\ \A q \in Requests : fd'[q] = "none" /\ pc'[q] = "idle"
      BY <2>1, <3>1, JsonParts DEF Inv
    <3>. QED
      BY <1>1, <3>2, JsonParts DEF Ordered, Saving
  <2>. QED
    BY <1>1, <2>2, <2>3 DEF Inv
<1>. QED
  BY <1>2, <1>3, <1>4 DEF Save

LEMMA RestartStep ==
  ASSUME Inv, Restart
  PROVE  Inv'
<1>1. /\ config' = Loaded /\ pc' = [r \in Requests |-> "idle"]
      /\ snap' = [r \in Requests |-> DEFAULT_POLICY] /\ fd' = [r \in Requests |-> "none"]
      /\ UNCHANGED <<file, tmp, overlapped>>
  BY DEF Restart
<1>2. ~overlapped => file = Json(Loaded)
  BY JsonParts DEF Inv, Ordered, Loaded
<1>. QED
  BY <1>1, <1>2 DEF Inv, Ordered, Saving

LEMMA InvStep == Inv /\ [Next]_vars => Inv'
<1> SUFFICES ASSUME Inv, [Next]_vars PROVE Inv'
  OBVIOUS
<1>1. CASE UNCHANGED vars
  BY <1>1, RateStep DEF vars
<1>2. ASSUME NEW p \in Peers, NEW m \in Proposals, Evaluate(p, m) PROVE Inv'
  BY <1>2, RateStep DEF Evaluate
<1>3. CASE Tick
  BY <1>3, RateStep DEF Tick
<1>. QED
  BY <1>1, <1>2, <1>3, ChangeStep, SaveStep, RestartStep DEF Next

\* Unless two requests overlap, policy.json is one that init() can read whenever the
\* process ends (engine.ts saveConfig).
THEOREM FileWhole == Spec => []CrashKeepsPolicy
<1>1. Inv => CrashKeepsPolicy
  BY JsonParts DEF Inv, Ordered, CrashKeepsPolicy
<1>. QED
  BY <1>1, InvInit, InvStep, PTL DEF Spec

\* Unless two requests overlap, a policy whose request is answered is the one the next
\* process loads (engine.ts updateConfig, patchConfig, resetConfig and init).
THEOREM PolicyLasts == Spec => []AnsweredPolicyKept
<1>1. Inv => AnsweredPolicyKept
  BY JsonParts DEF Inv, Ordered, AnsweredPolicyKept, Busy, Loaded
<1>. QED
  BY <1>1, InvInit, InvStep, PTL DEF Spec

-----------------------------------------------------------------------------
(* The limits a policy may have.                                           *)

Limited(c) == "rate_limit" \in DOMAIN c /\ \A f \in Limit :
                f \in DOMAIN c.rate_limit /\ c.rate_limit[f] \in Limits(f)

\* Every policy in force, being saved or stored has limits of a policy that was sent.
AllLimited ==
  /\ Limited(config) /\ \A r \in Requests : Limited(snap[r])
  /\ file.bytes = "json" => Limited(file.policy)
  /\ tmp.bytes = "json" => Limited(tmp.policy)

LEMMA LimitsOfDefault ==
  /\ Limited(DEFAULT_POLICY) /\ \A c \in Replacements : Limited(c)
  /\ \A f \in Limit : Limits(f) \subseteq Nat
  /\ \A patch \in Patches : "rate_limit" \in DOMAIN patch =>
       \A f \in Limit \cap DOMAIN patch.rate_limit : patch.rate_limit[f] \in Limits(f)
<1>1. /\ DEFAULT_POLICY.rate_limit = DEFAULT_POLICY["rate_limit"]
      /\ \A c : c.rate_limit = c["rate_limit"]
  OBVIOUS
<1>2. \A c \in {DEFAULT_POLICY} \cup Replacements : Limited(c)
  BY LimitsAssumption DEF LimitsAssumption, Limited, Limits
<1>3. ASSUME NEW patch \in Patches, NEW f \in Limit
      PROVE  LET m == DeepMerge(DEFAULT_POLICY, patch).rate_limit[f] IN
             /\ m \in Nat
             /\ "rate_limit" \in DOMAIN patch /\ f \in DOMAIN patch.rate_limit => m = patch.rate_limit[f]
  <2> DEFINE D == DEFAULT_POLICY
             m == DeepMerge(D, patch).rate_limit
  <2>1. "rate_limit" \in DOMAIN D /\ f \in DOMAIN D.rate_limit /\ D.rate_limit[f] \in Nat
    BY LimitsAssumption DEF LimitsAssumption
  <2>2. m = IF "rate_limit" \notin DOMAIN patch THEN D.rate_limit
            ELSE Spread(D.rate_limit, patch.rate_limit)
    BY <2>1 DEF DeepMerge, Nested
  <2>3. CASE "rate_limit" \notin DOMAIN patch
    BY <2>1, <2>2, <2>3
  <2>4. CASE "rate_limit" \in DOMAIN patch
    <3>1. m[f] = IF f \in DOMAIN patch.rate_limit THEN patch.rate_limit[f] ELSE D.rate_limit[f]
      BY <2>1, <2>2, <2>4 DEF Spread
    <3>2. f \in DOMAIN patch.rate_limit => patch.rate_limit[f] \in Nat
      BY <2>4, LimitsAssumption DEF LimitsAssumption
    <3>. QED
      BY <2>1, <3>1, <3>2
  <2>. QED
    BY <2>3, <2>4
<1>4. \A f \in Limit : Limits(f) \subseteq Nat
  BY <1>3, LimitsAssumption DEF LimitsAssumption, Limits
<1>5. ASSUME NEW patch \in Patches, "rate_limit" \in DOMAIN patch, NEW f \in Limit \cap DOMAIN patch.rate_limit
      PROVE  patch.rate_limit[f] \in Limits(f)
  <2>1. DeepMerge(DEFAULT_POLICY, patch).rate_limit[f] = patch.rate_limit[f]
    BY <1>3, <1>5
  <2>. QED
    BY <2>1 DEF Limits
<1>. QED
  BY <1>2, <1>4, <1>5

LEMMA LimitsOfMerge ==
  ASSUME NEW c, Limited(c), NEW patch \in Patches
  PROVE  Limited(DeepMerge(c, patch))
<1> DEFINE m == DeepMerge(c, patch)
<1>1. "rate_limit" \in DOMAIN m
  BY DEF DeepMerge, Limited
<1>2. m.rate_limit = IF "rate_limit" \notin DOMAIN patch THEN c.rate_limit
                     ELSE Spread(c.rate_limit, patch.rate_limit)
  BY DEF DeepMerge, Nested, Limited
<1>3. CASE "rate_limit" \notin DOMAIN patch
  BY <1>1, <1>2, <1>3 DEF Limited
<1>4. CASE "rate_limit" \in DOMAIN patch
  <2>1. ASSUME NEW f \in Limit PROVE f \in DOMAIN m.rate_limit /\ m.rate_limit[f] \in Limits(f)
    <3>1. f \in DOMAIN c.rate_limit /\ c.rate_limit[f] \in Limits(f)
      BY DEF Limited
    <3>2. f \in DOMAIN m.rate_limit
          /\ m.rate_limit[f] = IF f \in DOMAIN patch.rate_limit THEN patch.rate_limit[f] ELSE c.rate_limit[f]
      BY <1>2, <1>4, <3>1 DEF Spread
    <3>. QED
      BY <1>4, <3>1, <3>2, LimitsOfDefault
  <2>. QED
    BY <1>1, <2>1 DEF Limited
<1>. QED
  BY <1>3, <1>4

LEMMA LimitsKept ==
  ASSUME AllLimited, snap = [r \in Requests |-> snap[r]], [Next]_vars
  PROVE  AllLimited'
<1>. Limited(DEFAULT_POLICY)
  BY LimitsOfDefault
<1>a. \A c : Json(c).bytes = "json" /\ Json(c).policy = c
  BY DEF Json
<1>b. Empty.bytes # "json" /\ Torn.bytes # "json" /\ Absent.bytes # "json"
  BY DEF Empty, Torn, Absent
<1>1. ASSUME NEW r \in Requests, ChangePolicy(r) PROVE AllLimited'
  <2>1. Limited(config')
    <3>1. config' \in NewConfig
      BY <1>1 DEF ChangePolicy
    <3> DEFINE c == config'
    <3>2. c \in NewConfig
      BY <3>1
    <3> HIDE DEF c
    <3>3. Limited(c)
      BY <3>2, LimitsOfDefault, LimitsOfMerge DEF NewConfig, AllLimited
    <3>. QED
      BY <3>3 DEF c
  <2>2. snap' = [snap EXCEPT ![r] = config'] /\ UNCHANGED <<file, tmp>>
    BY <1>1 DEF ChangePolicy, StartSave
  <2>3. \A q \in Requests : snap'[q] = IF q = r THEN config' ELSE snap[q]
    BY <2>2
  <2>. QED
    BY <2>1, <2>2, <2>3 DEF AllLimited, Limited
<1>2. ASSUME NEW r \in Requests, WriteTmp(r) PROVE AllLimited'
  <2>1. UNCHANGED <<config, snap>> /\ Limited(snap[r])
    BY <1>2 DEF WriteTmp, AllLimited
  <2>2. /\ tmp' \in {tmp, Json(snap[r]), Torn} /\ file' \in {file, Json(snap[r]), Torn}
    BY <1>2 DEF WriteTmp, Written
  <2>. QED
    BY <1>a, <1>b, <2>1, <2>2 DEF AllLimited, Limited
<1>3. ASSUME NEW r \in Requests, OpenTmp(r) PROVE AllLimited'
  BY <1>b, <1>3 DEF OpenTmp, AllLimited, Limited
<1>4. ASSUME NEW r \in Requests, Rename(r) PROVE AllLimited'
  <2>1. UNCHANGED config /\ (\A q \in Requests : snap'[q] \in {snap[q], DEFAULT_POLICY})
        /\ file' \in {file, tmp} /\ tmp' \in {tmp, Absent}
    BY <1>4 DEF Rename
  <2>. QED
    BY <1>b, <2>1 DEF AllLimited, Limited
<1>5. CASE Restart
  <2>1. Limited(Loaded)
    BY DEF Loaded, AllLimited
  <2>2. config' = Loaded /\ (\A q \in Requests : snap'[q] = DEFAULT_POLICY) /\ UNCHANGED <<file, tmp>>
    BY <1>5 DEF Restart
  <2>. QED
    BY <2>1, <2>2 DEF AllLimited, Limited
<1>6. CASE Tick \/ (\E p \in Peers, m \in Proposals : Evaluate(p, m)) \/ UNCHANGED vars
  <2>1. UNCHANGED <<config, snap, file, tmp>>
    BY <1>6 DEF Tick, Evaluate, vars, saveVars
  <2>. QED
    BY <2>1 DEF AllLimited, Limited
<1>. QED
  BY <1>1, <1>2, <1>3, <1>4, <1>5, <1>6 DEF Next, Save

-----------------------------------------------------------------------------
(* The proposals of a minute.                                              *)

LimitOf(k) == IF k = Global THEN "max_per_minute" ELSE "max_per_peer_minute"

\* The proposals that k's counter has counted, and as the how many-th of its window.
Of(k)     == {x \in recent : k \in {Global, x.peer}}
Nth(x, k) == IF k = Global THEN x.all ELSE x.own

\* Those of the window that is open, and of one before it.
Young(k) == {x \in Of(k) : rateCounters[k].left > 0 /\ x.age + rateCounters[k].left <= Window}
Old(k)   == Of(k) \ Young(k)

\* The most that a window lets through.
Bounded(n, k) == n <= 1 \/ \E limit \in Limits(LimitOf(k)) : n <= limit

Apart(S, k) == \A x, y \in S : Nth(x, k) = Nth(y, k) => x = y

\* The open window's proposals are counted from one, the first being as old as the window;
\* of those before, the first has gone from the last minute.
Counted(k) ==
  /\ Bounded(rateCounters[k].count, k) /\ (rateCounters[k].left > 0 => rateCounters[k].count > 0)
  /\ \A x \in Young(k) : /\ Nth(x, k) \in 1 .. rateCounters[k].count
                         /\ Nth(x, k) = 1 => x.age + rateCounters[k].left = Window
  /\ \E n \in Nat : Bounded(n, k) /\ \A x \in Old(k) : Nth(x, k) \in 2 .. n
  /\ Apart(Young(k), k) /\ Apart(Old(k), k)
  /\ rateCounters[k].left = 0 => \A x \in Of(k) : x.age # 0
Stamp == [peer : Peers, age : 0 .. Window - 1, own : Nat, all : Nat]

RateTyped ==
  /\ rateCounters \in [Keys -> [count : Nat, left : 0 .. Window]]
  /\ recent \subseteq Stamp

\* What a proposal that passes the limiter leaves in the history.
Mark(p) == [peer |-> p, age |-> 0, own |-> rateCounters'[p].count, all |-> rateCounters'[Global].count]

Passes(p) == ~isRateLimited(p) /\ incrementRate(p) /\ recent' = recent \cup {Mark(p)}

LEMMA CountersPass ==
  ASSUME RateTyped, NEW p \in Peers, Passes(p)
  PROVE  /\ RateTyped'
         /\ \A k \in {Global, p} : Nth(Mark(p), k) = rateCounters'[k].count
         /\ \A k \in Keys : rateCounters'[k] =
              IF k \notin {Global, p} THEN rateCounters[k]
              ELSE IF rateCounters[k].left = 0 THEN [count |-> 1, left |-> Window]
              ELSE [count |-> rateCounters[k].count + 1, left |-> rateCounters[k].left]
<1>1. \A k \in Keys : rateCounters[k] \in [count : Nat, left : 0 .. Window]
  BY DEF RateTyped
<1>2. \A k \in Keys : rateCounters'[k] =
              IF k \notin {Global, p} THEN rateCounters[k]
              ELSE IF rateCounters[k].left = 0 THEN [count |-> 1, left |-> Window]
              ELSE [count |-> rateCounters[k].count + 1, left |-> rateCounters[k].left]
  BY <1>1 DEF Passes, incrementRate
<1>3. \A k \in Keys : rateCounters'[k] \in [count : Nat, left : 0 .. Window]
  <2> TAKE k \in Keys
  <2>1. PICK n \in Nat, l \in 0 .. Window : rateCounters[k] = [count |-> n, left |-> l]
    BY <1>1
  <2>2. \/ rateCounters'[k] = rateCounters[k]
        \/ rateCounters'[k] = [count |-> 1, left |-> Window]
        \/ rateCounters'[k] = [count |-> n + 1, left |-> l]
    BY <1>2, <2>1
  <2>. QED
    BY <2>1, <2>2, PolicyAssumption DEF PolicyAssumption
<1>4. rateCounters' \in [Keys -> [count : Nat, left : 0 .. Window]]
  BY <1>3 DEF Passes, incrementRate
<1>5. Mark(p) \in Stamp
  BY <1>3, PolicyAssumption DEF PolicyAssumption, Mark, Stamp, Keys
<1>6. RateTyped'
  BY <1>4, <1>5 DEF RateTyped, Passes, Stamp
<1>7. p # Global
  BY PolicyAssumption DEF PolicyAssumption
<1>. QED
  BY <1>2, <1>6, <1>7 DEF Nth, Mark

\* A counter that lets a proposal through is below a limit of a policy.
LEMMA Below ==
  ASSUME RateTyped, AllLimited, NEW p \in Peers, Passes(p), NEW k \in {Global, p},
         rateCounters[k].left > 0
  PROVE  Bounded(rateCounters[k].count + 1, k)
<1>1. \A f \in Limit : config.rate_limit[f] \in Limits(f) /\ config.rate_limit[f] \in Nat
  BY LimitsOfDefault DEF AllLimited, Limited
<1>2. LimitOf(k) \in Limit /\ ~Full(k, config.rate_limit[LimitOf(k)])
  <2>1. p # Global
    BY PolicyAssumption DEF PolicyAssumption
  <2>. QED
    BY <2>1 DEF Passes, isRateLimited, LimitOf, Limit
<1>3. rateCounters[k].count \in Nat
  BY DEF RateTyped, Keys
<1>4. rateCounters[k].count < config.rate_limit[LimitOf(k)]
  BY <1>1, <1>2, <1>3 DEF Full
<1>. QED
  BY <1>1, <1>2, <1>3, <1>4 DEF Bounded

\* Counted(k)', from its parts.
LEMMA CountedNow ==
  ASSUME NEW k \in Keys, NEW c \in Nat, NEW l \in 0 .. Window,
         rateCounters'[k].count = c, rateCounters'[k].left = l,
         Bounded(c, k), l > 0 => c > 0,
         \A x \in Young(k)' : Nth(x, k) \in 1 .. c /\ (Nth(x, k) = 1 => x.age + l = Window),
         \E n \in Nat : Bounded(n, k) /\ \A x \in Old(k)' : Nth(x, k) \in 2 .. n,
         Apart(Young(k)', k), Apart(Old(k)', k),
         l = 0 => \A x \in Of(k)' : x.age # 0
  PROVE  Counted(k)'
<1>1. \A n : Bounded(n, k)' <=> Bounded(n, k)
  BY DEF Bounded
<1>2. Apart(Young(k), k)' /\ Apart(Old(k), k)'
  BY DEF Apart, Nth
<1>3. \E n \in Nat : Bounded(n, k)' /\ \A x \in Old(k)' : Nth(x, k)' \in 2 .. n
  BY <1>1 DEF Nth
<1>4. \A x \in Young(k)' : Nth(x, k)' \in 1 .. c /\ (Nth(x, k)' = 1 => x.age + l = Window)
  BY DEF Nth
<1>. QED
  BY <1>1, <1>2, <1>3, <1>4 DEF Counted

LEMMA CountPass ==
  ASSUME RateTyped, AllLimited, NEW p \in Peers, Passes(p), NEW k \in Keys, Counted(k)
  PROVE  Counted(k)'
<1>1. PICK m : m = Mark(p)
  OBVIOUS
<1>2. PICK c \in Nat, l \in 0 .. Window : rateCounters[k].count = c /\ rateCounters[k].left = l
  BY DEF RateTyped
<1>3. m.peer = p /\ m.age = 0 /\ recent' = recent \cup {m}
  BY <1>1 DEF Mark, Passes
<1>4. CASE k \notin {Global, p}
  <2>1. Of(k)' = Of(k)
    BY <1>3, <1>4 DEF Of
  <2>2. rateCounters'[k] = rateCounters[k]
    BY <1>4, CountersPass
  <2>3. Young(k)' = Young(k) /\ Old(k)' = Old(k)
    BY <2>1, <2>2 DEF Young, Old
  <2>. QED
    BY <2>1, <2>2, <2>3 DEF Counted, Bounded, Nth, Apart
<1>5. CASE k \in {Global, p} /\ l > 0
  <2>1. Of(k)' = Of(k) \cup {m}
    BY <1>3, <1>5 DEF Of
  <2>2. rateCounters'[k].count = c + 1 /\ rateCounters'[k].left = l /\ Nth(m, k) = c + 1
    <3>1. rateCounters'[k] = [count |-> rateCounters[k].count + 1, left |-> rateCounters[k].left]
      BY <1>2, <1>5, CountersPass
    <3>2. Nth(Mark(p), k) = rateCounters'[k].count
      BY <1>5, CountersPass
    <3>. QED
      BY <1>1, <1>2, <3>1, <3>2
  <2>3. c > 0
    BY <1>2, <1>5 DEF Counted
  <2>4. Young(k)' = Young(k) \cup {m}
    BY <1>2, <1>3, <1>5, <2>1, <2>2, PolicyAssumption DEF PolicyAssumption, Young
  <2>5. Old(k)' \subseteq Old(k)
    BY <2>1, <2>4 DEF Old
  <2>6. Bounded(c + 1, k)
    BY <1>2, <1>5, Below
  <2>7. \A x \in Young(k)' : Nth(x, k) \in 1 .. c + 1 /\ (Nth(x, k) = 1 => x.age + l = Window)
    BY <1>2, <2>2, <2>3, <2>4 DEF Counted
  <2>8. Apart(Young(k)', k)
    BY <1>2, <2>2, <2>4 DEF Counted, Apart
  <2>9. Apart(Old(k)', k) /\ \E n \in Nat : Bounded(n, k) /\ \A x \in Old(k)' : Nth(x, k) \in 2 .. n
    BY <2>5 DEF Counted, Apart
  <2>. QED
    BY <1>5, <2>2, <2>3, <2>6, <2>7, <2>8, <2>9, CountedNow
<1>6. CASE k \in {Global, p} /\ l = 0
  <2>1. Of(k)' = Of(k) \cup {m}
    BY <1>3, <1>6 DEF Of
  <2>2. rateCounters'[k].count = 1 /\ rateCounters'[k].left = Window /\ Nth(m, k) = 1
    <3>1. rateCounters'[k] = [count |-> 1, left |-> Window]
      BY <1>2, <1>6, CountersPass
    <3>2. Nth(Mark(p), k) = rateCounters'[k].count
      BY <1>6, CountersPass
    <3>. QED
      BY <1>1, <3>1, <3>2
  <2>3. \A x \in Of(k) : x.age \in Nat \ {0}
    BY <1>2, <1>6 DEF Of, Counted, RateTyped, Stamp
  <2>4. Young(k)' = {m}
    BY <1>3, <2>1, <2>2, <2>3, PolicyAssumption DEF PolicyAssumption, Young
  <2>5. Old(k)' \subseteq Old(k)
    BY <1>2, <1>6, <2>1, <2>4 DEF Old, Young
  <2>6. Apart(Old(k)', k) /\ \E n \in Nat : Bounded(n, k) /\ \A x \in Old(k)' : Nth(x, k) \in 2 .. n
    BY <2>5 DEF Counted, Apart
  <2>7. Bounded(1, k) /\ Apart({m}, k)
    BY DEF Bounded, Apart
  <2>. QED
    <3>1. \A x \in Young(k)' : Nth(x, k) \in 1 .. 1 /\ (Nth(x, k) = 1 => x.age + Window = Window)
      BY <1>3, <2>2, <2>4, PolicyAssumption DEF PolicyAssumption
    <3>2. Window \in 0 .. Window /\ Window # 0 /\ 1 \in Nat
      BY PolicyAssumption DEF PolicyAssumption
    <3>3. Apart(Young(k)', k)
      BY <2>4, <2>7
    <3>. QED
      BY <2>2, <2>6, <2>7, <3>1, <3>2, <3>3, CountedNow
<1>. QED
  BY <1>4, <1>5, <1>6

\* A proposal that passes is not in the history yet, so that no two are counted as one.
LEMMA Fresh ==
  ASSUME RateTyped, NEW p \in Peers, Passes(p), Counted(p)
  PROVE  Mark(p) \notin recent
<1> SUFFICES ASSUME Mark(p) \in recent PROVE FALSE
  OBVIOUS
<1>1. PICK m : m = Mark(p)
  OBVIOUS
<1>2. PICK c \in Nat, l \in 0 .. Window : rateCounters[p].count = c /\ rateCounters[p].left = l
  BY DEF RateTyped, Keys
<1>3. p \in Keys /\ p # Global /\ m.age = 0 /\ m \in Of(p) /\ Nth(m, p) = rateCounters'[p].count
  BY <1>1, PolicyAssumption DEF PolicyAssumption, Keys, Mark, Of, Nth
<1>4. l > 0
  BY <1>2, <1>3 DEF Counted
<1>5. rateCounters'[p] = [count |-> rateCounters[p].count + 1, left |-> rateCounters[p].left]
  BY <1>2, <1>3, <1>4, CountersPass
<1>6. m \in Young(p)
  BY <1>2, <1>3, <1>4, PolicyAssumption DEF PolicyAssumption, Young
<1>7. Nth(m, p) \in 1 .. c /\ Nth(m, p) = c + 1
  BY <1>2, <1>3, <1>5, <1>6 DEF Counted
<1>. QED
  BY <1>7

Aged(x) == [x EXCEPT !.age = @ + 1]

LEMMA Ageing ==
  ASSUME NEW x \in Stamp
  PROVE  /\ Aged(x).age = x.age + 1 /\ Aged(x).peer = x.peer
         /\ \A k : Nth(Aged(x), k) = Nth(x, k)
         /\ x.age < Window - 1 => Aged(x) \in Stamp
<1>1. PICK q \in Peers, a \in 0 .. Window - 1, n \in Nat, g \in Nat :
        x = [peer |-> q, age |-> a, own |-> n, all |-> g]
  BY DEF Stamp
<1>2. Aged(x) = [peer |-> q, age |-> a + 1, own |-> n, all |-> g]
  BY <1>1 DEF Aged
<1>. QED
  BY <1>1, <1>2, PolicyAssumption DEF PolicyAssumption, Stamp, Nth

LEMMA CountersTick ==
  ASSUME RateTyped, Tick
  PROVE  /\ RateTyped'
         /\ \A k \in Keys : /\ rateCounters[k].left > 1 => /\ rateCounters'[k].left = rateCounters[k].left - 1
                                                           /\ rateCounters'[k].count = rateCounters[k].count
                            /\ rateCounters[k].left <= 1 => /\ rateCounters'[k].left = 0
                                                            /\ rateCounters'[k].count = 0
         /\ recent' = {Aged(x) : x \in {y \in recent : y.age < Window - 1}}
<1>1. recent' = {Aged(x) : x \in {y \in recent : y.age < Window - 1}}
  BY DEF Tick, Aged
<1>2. recent' \subseteq Stamp
  BY <1>1, Ageing DEF RateTyped
<1>3. rateCounters' = [k \in Keys |-> IF rateCounters[k].left > 1
                                      THEN [rateCounters[k] EXCEPT !.left = @ - 1]
                                      ELSE [count |-> 0, left |-> 0]]
  BY DEF Tick
<1>4. ASSUME NEW k \in Keys
      PROVE  /\ rateCounters'[k] \in [count : Nat, left : 0 .. Window]
             /\ rateCounters[k].left > 1 => /\ rateCounters'[k].left = rateCounters[k].left - 1
                                            /\ rateCounters'[k].count = rateCounters[k].count
             /\ rateCounters[k].left <= 1 => /\ rateCounters'[k].left = 0
                                             /\ rateCounters'[k].count = 0
  <2>1. PICK n \in Nat, l \in 0 .. Window : rateCounters[k] = [count |-> n, left |-> l]
    BY DEF RateTyped
  <2>2. rateCounters'[k] = IF l > 1 THEN [count |-> n, left |-> l - 1] ELSE [count |-> 0, left |-> 0]
    BY <1>3, <2>1
  <2>. QED
    BY <2>1, <2>2, PolicyAssumption DEF PolicyAssumption
<1>5. rateCounters' \in [Keys -> [count : Nat, left : 0 .. Window]]
  BY <1>3, <1>4
<1>. QED
  BY <1>1, <1>2, <1>4, <1>5 DEF RateTyped, Stamp

LEMMA CountTick ==
  ASSUME RateTyped, Tick, NEW k \in Keys, Counted(k)
  PROVE  Counted(k)'
<1>1. PICK c \in Nat, l \in 0 .. Window : rateCounters[k].count = c /\ rateCounters[k].left = l
  BY DEF RateTyped
<1>2. PICK T \in SUBSET Stamp : T = {x \in Of(k) : x.age < Window - 1}
  BY DEF RateTyped, Of
<1>3. Of(k)' = {Aged(x) : x \in T}
  BY <1>2, CountersTick, Ageing DEF Of, RateTyped
<1>4. \A x \in T : x.age \in 0 .. Window - 2 /\ x \in Of(k)
  BY <1>2, PolicyAssumption DEF PolicyAssumption, Stamp
<1>5. \A S : S \subseteq T /\ Apart(S, k) => Apart({Aged(x) : x \in S}, k)
  BY Ageing DEF Apart
<1>6. CASE l > 1
  <2>1. rateCounters'[k].left = l - 1 /\ rateCounters'[k].count = c /\ l - 1 \in 0 .. Window
    BY <1>1, <1>6, CountersTick, PolicyAssumption DEF PolicyAssumption
  <2>2. Young(k)' = {Aged(x) : x \in T \cap Young(k)}
    BY <1>1, <1>3, <1>4, <1>6, <2>1, Ageing DEF Young
  <2>3. Old(k)' \subseteq {Aged(x) : x \in T \cap Old(k)}
    BY <1>3, <1>4, <2>2 DEF Old
  <2>4. \A x \in Young(k)' : Nth(x, k) \in 1 .. c /\ (Nth(x, k) = 1 => x.age + (l - 1) = Window)
    BY <1>1, <1>4, <2>2, Ageing DEF Counted
  <2>5. \E n \in Nat : Bounded(n, k) /\ \A x \in Old(k)' : Nth(x, k) \in 2 .. n
    BY <1>4, <2>3, Ageing DEF Counted
  <2>6. Apart(Young(k)', k)
    BY <1>5, <2>2 DEF Counted, Apart
  <2>7. Apart(Old(k)', k)
    <3>1. Apart({Aged(x) : x \in T \cap Old(k)}, k)
      BY <1>5 DEF Counted, Apart
    <3>. QED
      BY <2>3, <3>1 DEF Apart
  <2>8. Bounded(c, k) /\ c > 0
    BY <1>1, <1>6 DEF Counted
  <2>. QED
    BY <1>6, <2>1, <2>4, <2>5, <2>6, <2>7, <2>8, CountedNow
<1>7. CASE l <= 1
  <2>1. rateCounters'[k].left = 0 /\ rateCounters'[k].count = 0
    BY <1>1, <1>7, CountersTick
  <2>2. Young(k)' = {}
    BY <2>1 DEF Young
  <2>3. Old(k)' = {Aged(x) : x \in T}
    BY <1>3, <2>2 DEF Old
  <2>4. Apart(T, k) /\ \E n \in Nat : Bounded(n, k) /\ \A x \in T : Nth(x, k) \in 2 .. n
    <3>1. CASE l = 0
      <4>1. T \subseteq Old(k)
        BY <1>1, <1>4, <3>1 DEF Old, Young
      <4>. QED
        BY <4>1 DEF Counted, Apart
    <3>2. CASE l = 1
      <4>1. T \subseteq Young(k)
        BY <1>1, <1>4, <3>2, PolicyAssumption DEF PolicyAssumption, Young
      <4>2. \A x \in T : Nth(x, k) \in 2 .. c
        BY <1>1, <1>4, <3>2, <4>1 DEF Counted
      <4>3. Bounded(c, k) /\ Apart(T, k)
        BY <1>1, <4>1 DEF Counted, Apart
      <4>. QED
        BY <4>2, <4>3
    <3>. QED
      BY <1>7, <3>1, <3>2
  <2>5. \E n \in Nat : Bounded(n, k) /\ \A x \in Old(k)' : Nth(x, k) \in 2 .. n
    BY <2>3, <2>4, Ageing
  <2>6. Apart(Old(k)', k) /\ Apart(Young(k)', k)
    BY <1>5, <2>2, <2>3, <2>4 DEF Apart
  <2>7. \A x \in Of(k)' : x.age # 0
    BY <1>3, <1>4, Ageing
  <2>8. Bounded(0, k) /\ 0 \in 0 .. Window
    BY PolicyAssumption DEF PolicyAssumption, Bounded
  <2>. QED
    BY <2>1, <2>2, <2>5, <2>6, <2>7, <2>8, CountedNow
<1>. QED
  BY <1>6, <1>7

\* No proposal is counted in a process that has just started.
LEMMA CountStart ==
  ASSUME rateCounters = NoCounters, recent = {}
  PROVE  RateTyped /\ \A k \in Keys : Counted(k)
<1>1. RateTyped
  BY PolicyAssumption DEF PolicyAssumption, RateTyped, NoCounters
<1>2. ASSUME NEW k \in Keys PROVE Counted(k)
  <2>1. rateCounters[k] = [count |-> 0, left |-> 0]
    BY DEF NoCounters
  <2>2. Of(k) = {} /\ Young(k) = {} /\ Old(k) = {} /\ Bounded(0, k)
    BY DEF Of, Young, Old, Bounded
  <2>. QED
    BY <2>1, <2>2 DEF Counted, Apart
<1>. QED
  BY <1>1, <1>2

Rates == Inv /\ AllLimited /\ RateTyped /\ \A k \in Keys : Counted(k)

LEMMA RatesInit == Init => Rates
<1> SUFFICES ASSUME Init PROVE Rates
  OBVIOUS
<1>1. AllLimited
  BY LimitsOfDefault, JsonParts DEF Init, AllLimited, Absent
<1>. QED
  BY <1>1, InvInit, CountStart DEF Rates, Init

LEMMA RatesStep == Rates /\ [Next]_vars => Rates'
<1> SUFFICES ASSUME Rates, [Next]_vars PROVE Rates'
  OBVIOUS
<1>1. Inv' /\ AllLimited'
  BY InvStep, LimitsKept DEF Rates, Inv
<1>2. ASSUME NEW p \in Peers, NEW m \in Proposals, Evaluate(p, m), ~UNCHANGED rateVars
      PROVE  RateTyped' /\ \A k \in Keys : Counted(k)'
  <2>1. Passes(p)
    BY <1>2 DEF Evaluate, Passes, Mark
  <2>. QED
    BY <2>1, CountersPass, CountPass DEF Rates
<1>3. ASSUME Tick PROVE RateTyped' /\ \A k \in Keys : Counted(k)'
  <2>1. RateTyped /\ \A k \in Keys : Counted(k)
    BY DEF Rates
  <2>. QED
    BY <1>3, <2>1, CountersTick, CountTick
<1>4. CASE Restart
  <2>1. (rateCounters = NoCounters)' /\ (recent = {})'
    BY <1>4 DEF Restart, NoCounters, Keys
  <2>. QED
    BY <1>1, <2>1, CountStart, PTL DEF Rates
<1>5. CASE UNCHANGED rateVars
  <2>1. rateCounters' = rateCounters /\ recent' = recent
    BY <1>5 DEF rateVars
  <2>2. RateTyped'
    BY <2>1 DEF Rates, RateTyped
  <2>3. ASSUME NEW k \in Keys PROVE Counted(k)'
    BY <2>1 DEF Rates, Counted, Young, Old, Of, Nth, Apart, Bounded
  <2>. QED
    BY <1>1, <2>2, <2>3 DEF Rates
<1>6. UNCHANGED vars => UNCHANGED rateVars
  BY DEF vars
<1>7. ASSUME NEW r \in Requests, ChangePolicy(r) \/ Save(r) PROVE UNCHANGED rateVars
  BY <1>7 DEF ChangePolicy, Save, OpenTmp, WriteTmp, Rename, rateVars
<1>. QED
  BY <1>1, <1>2, <1>3, <1>4, <1>5, <1>6, <1>7 DEF Next, Rates

\* A set that is counted apart has no more members than there are numbers.
LEMMA CountedSize ==
  ASSUME NEW S, NEW k, NEW a \in Nat, NEW b \in Nat, Apart(S, k), \A x \in S : Nth(x, k) \in a .. b
  PROVE  IsFiniteSet(S) /\ Cardinality(S) <= IF a > b THEN 0 ELSE b - a + 1
<1> DEFINE f == [x \in S |-> Nth(x, k)]
<1>1. f \in Injection(S, a .. b)
  BY DEF Injection, IsInjective, Apart
<1>2. IsFiniteSet(a .. b) /\ Cardinality(a .. b) = IF a > b THEN 0 ELSE b - a + 1
  BY FS_Interval
<1>. QED
  BY <1>1, <1>2, FS_Injection

LEMMA RateSize ==
  ASSUME RateTyped, NEW k \in Keys, Counted(k)
  PROVE  \E limit \in Limits(LimitOf(k)) : Cardinality(Of(k)) <= MostPerMinute(limit)
<1>1. PICK c \in Nat : rateCounters[k].count = c
  BY DEF RateTyped
<1>2. PICK n \in Nat : Bounded(n, k) /\ \A x \in Old(k) : Nth(x, k) \in 2 .. n
  BY DEF Counted
<1>3. Bounded(c, k)
  BY <1>1 DEF Counted
<1>4. IsFiniteSet(Young(k)) /\ Cardinality(Young(k)) \in Nat /\ Cardinality(Young(k)) <= c
  <2>1. Apart(Young(k), k) /\ \A x \in Young(k) : Nth(x, k) \in 1 .. c
    BY <1>1 DEF Counted
  <2>. QED
    BY <2>1, CountedSize, FS_CardinalityType
<1>5. IsFiniteSet(Old(k)) /\ Cardinality(Old(k)) \in Nat /\ Cardinality(Old(k)) <= IF 2 > n THEN 0 ELSE n - 1
  <2>1. Apart(Old(k), k)
    BY DEF Counted
  <2>. QED
    BY <1>2, <2>1, CountedSize, FS_CardinalityType
<1>6. Cardinality(Of(k)) \in Nat /\ Cardinality(Of(k)) <= Cardinality(Young(k)) + Cardinality(Old(k))
  <2>1. Of(k) = Young(k) \cup Old(k) /\ Young(k) \cap Old(k) = {}
    BY DEF Young, Old
  <2>. QED
    <3>1. IsFiniteSet(Of(k)) /\ Cardinality(Of(k)) =
             Cardinality(Young(k)) + Cardinality(Old(k)) - Cardinality(Young(k) \cap Old(k))
      BY <1>4, <1>5, <2>1, FS_Union
    <3>2. Cardinality(Young(k) \cap Old(k)) = 0
      BY <2>1, FS_EmptySet, Zenon
    <3>3. Cardinality(Of(k)) \in Nat
      BY <3>1, FS_CardinalityType
    <3>. QED
      BY <1>4, <1>5, <3>1, <3>2, <3>3
<1>7. Limits(LimitOf(k)) \subseteq Nat /\ Limits(LimitOf(k)) # {}
  BY LimitsOfDefault DEF LimitOf, Limit, Limited
<1>8. PICK top \in Limits(LimitOf(k)) : (c <= 1 \/ c <= top) /\ (n <= 1 \/ n <= top)
  BY <1>2, <1>3, <1>7 DEF Bounded
<1>9. Cardinality(Of(k)) <= MostPerMinute(top)
  BY <1>4, <1>5, <1>6, <1>7, <1>8 DEF MostPerMinute
<1>. QED
  BY <1>9

\* However the proposals arrive and the policy changes, any minute of a process lets through
\* less than twice a limit, of each peer and of all together (engine.ts isRateLimited,
\* incrementRate).
THEOREM RateHolds == Spec => []RateBound
<1>1. Rates => RateBound
  <2> SUFFICES ASSUME Rates PROVE RateBound
    OBVIOUS
  <2>1. RateTyped /\ \A k \in Keys : Counted(k)
    BY DEF Rates
  <2>2. Of(Global) = recent /\ LimitOf(Global) = "max_per_minute" /\ Global \in Keys
    BY DEF Of, LimitOf, Keys
  <2>3. ASSUME NEW p \in Peers
        PROVE  Of(p) = Passed(p) /\ LimitOf(p) = "max_per_peer_minute" /\ p \in Keys
    BY PolicyAssumption DEF PolicyAssumption, Of, Passed, LimitOf, Keys
  <2>4. \E limit \in Limits("max_per_minute") : Cardinality(recent) <= MostPerMinute(limit)
    BY <2>1, <2>2, RateSize
  <2>5. ASSUME NEW p \in Peers
        PROVE  \E limit \in Limits("max_per_peer_minute") : Cardinality(Passed(p)) <= MostPerMinute(limit)
    BY <2>1, <2>3, RateSize
  <2>. QED
    BY <2>4, <2>5 DEF RateBound
<1>. QED
  BY <1>1, RatesInit, RatesStep, PTL DEF Spec

\* RateBound counts every proposal that passes: what one leaves in the history is not
\* there yet (engine.ts evaluate).
THEOREM EachCounted == Spec => [][\A p \in Peers : Passes(p) => Mark(p) \notin recent]_vars
<1>1. Rates => \A p \in Peers : Passes(p) => Mark(p) \notin recent
  <2> SUFFICES ASSUME Rates, NEW p \in Peers, Passes(p) PROVE Mark(p) \notin recent
    OBVIOUS
  <2>. QED
    BY Fresh DEF Rates, Keys
<1>. QED
  BY <1>1, RatesInit, RatesStep, PTL DEF Spec

-----------------------------------------------------------------------------
(* Types.                                                                  *)

\* What a file may hold: a policy that was sent, or the bytes of a write cut short.
Stored(f) == f.bytes \in {"empty", "torn", "json"}

PolicyTyped ==
  /\ decision.result \in {"none", "accept", "reject", "queue"}
  /\ Stored(file) /\ (tmp = Absent \/ Stored(tmp))
  /\ changes \in 0 .. MaxChanges

LEMMA Bytes ==
  /\ \A c : Stored(Json(c))
  /\ Stored(Empty) /\ Stored(Torn)
BY DEF Stored, Json, Empty, Torn

LEMMA PolicyTypedStep == Inv /\ PolicyTyped /\ [Next]_vars => PolicyTyped'
<1> SUFFICES ASSUME Inv, PolicyTyped, [Next]_vars PROVE PolicyTyped'
  OBVIOUS
<1>1. ASSUME NEW p \in Peers, NEW m \in Proposals, Evaluate(p, m) PROVE PolicyTyped'
  <2>1. decision' \in {[result |-> "reject", reason |-> "policy_denied"],
                       [result |-> "reject", reason |-> "rate_limited"], Decide(p, m)}
    BY <1>1 DEF Evaluate
  <2>2. Decide(p, m).result \in {"accept", "reject", "queue"}
    BY DEF Decide
  <2>3. UNCHANGED <<file, tmp, changes>>
    BY <1>1 DEF Evaluate, saveVars
  <2>. QED
    BY <2>1, <2>2, <2>3 DEF PolicyTyped, Stored
<1>2. ASSUME NEW r \in Requests, ChangePolicy(r) PROVE PolicyTyped'
  BY <1>2, PolicyAssumption DEF PolicyAssumption, ChangePolicy, StartSave, PolicyTyped, Stored
<1>3. ASSUME NEW r \in Requests, Save(r) PROVE PolicyTyped'
  <2>1. UNCHANGED <<decision, changes>>
    BY <1>3 DEF Save, OpenTmp, WriteTmp, Rename
  <2>2. Stored(file)' /\ (tmp' = Absent \/ Stored(tmp)')
    <3>1. CASE OpenTmp(r)
      BY <3>1, Bytes DEF OpenTmp, PolicyTyped, Stored
    <3>2. CASE WriteTmp(r)
      BY <3>2, Bytes DEF WriteTmp, Written, PolicyTyped, Stored
    <3>3. CASE Rename(r)
      BY <3>3 DEF Rename, PolicyTyped, Stored
    <3>. QED
      BY <1>3, <3>1, <3>2, <3>3 DEF Save
  <2>. QED
    BY <2>1, <2>2 DEF PolicyTyped
<1>4. CASE Tick
  BY <1>4 DEF Tick, saveVars, PolicyTyped, Stored
<1>5. CASE Restart
  BY <1>5 DEF Restart, PolicyTyped, Stored
<1>6. CASE UNCHANGED vars
  BY <1>6 DEF vars, saveVars, PolicyTyped, Stored
<1>. QED
  BY <1>1, <1>2, <1>3, <1>4, <1>5, <1>6 DEF Next

\* The limiter's counters, the decision, the saves under way and the two files are well
\* typed, whatever overlaps (agent/engine.ts).
THEOREM TypeCorrect == Spec => []TypeOK
<1>1. Init => PolicyTyped
  BY PolicyAssumption, Bytes DEF PolicyAssumption, Init, PolicyTyped
<1>2. Inv /\ PolicyTyped /\ Rates => TypeOK
  BY DEF Inv, PolicyTyped, Stored, Absent, Rates, RateTyped, Stamp, TypeOK
<1>3. Rates => Inv
  BY DEF Rates
<1>. QED
  BY <1>1, <1>2, <1>3, PolicyTypedStep, RatesInit, RatesStep, PTL DEF Spec
================================================================================
