--------------------------- MODULE MCPolicyEngine ---------------------------
(* An instance of PolicyEngine for TLC.                                    *)
EXTENDS PolicyEngine

CONSTANTS p1, p2

\* engine.ts:18 with smaller limits.
Shipped ==
  [mode |-> "queue", trust_threshold |-> 50,
   rate_limit |-> [max_per_minute |-> 3, max_per_peer_minute |-> 2],
   delegation |-> [allow |-> FALSE, max_depth |-> 1],
   capability_filter |-> {}, auto_approve_types |-> {},
   access_control |-> [whitelist |-> {}, blacklist |-> {}]]

\* A policy a user may put: work of one kind is approved, p2 is known.
Own ==
  [Shipped EXCEPT !.mode = "hybrid", !.trust_threshold = 0,
                  !.capability_filter = {{"code"}}, !.auto_approve_types = {"code"},
                  !.access_control.whitelist = {p2}]

Bodies == {Own}

PartialBodies ==
  {[access_control |-> [blacklist |-> {p1}]],
   [rate_limit |-> [max_per_peer_minute |-> 0]],
   [mode |-> "auto", delegation |-> [allow |-> TRUE]]}

Sent ==
  {[type |-> "propose", task_type |-> "code", depth |-> 0],
   [type |-> "propose", task_type |-> "mail", depth |-> 0],
   [type |-> "delegate", task_type |-> "code", depth |-> 2]}
=============================================================================
