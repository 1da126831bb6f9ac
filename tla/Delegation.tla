----------------------------- MODULE Delegation -----------------------------
(***************************************************************************)
(* What two daemons promise each other about a task one proposes to the    *)
(* other: the proposer's record says of it only what the executor has      *)
(* done, whatever the relay loses and whoever restarts.                    *)
(*                                                                         *)
(* TRANSITIONS (agent/tasks.ts) comes from TaskLifecycle.                  *)
(***************************************************************************)
CONSTANT Tasks

VARIABLES
  view,   \* view[t]: the state of the proposer's record of t
  fate    \* fate[t]: what the executor has decided and done about t, ever

Table == INSTANCE TaskLifecycle WITH Inbound <- {}, state <- view

TRANSITIONS == Table!TRANSITIONS
Decisions   == {"accepted", "rejected"}
Outcomes    == {"completed", "failed"}

\* s is a state a record in state u may be in later, or u itself.
LeadsTo(u, s) ==
  \/ u \in {"none", s}
  \/ s \in TRANSITIONS[u]
  \/ \E v \in TRANSITIONS[u] : s \in TRANSITIONS[v]

DelegationInit ==
  /\ view = [t \in Tasks |-> "none"]
  /\ fate = [t \in Tasks |-> {}]

Ask(t) ==
  /\ view[t] = "none"
  /\ view' = [view EXCEPT ![t] = "pending"]
  /\ UNCHANGED fate

\* The executor answers a proposal at most once.
Decide(t, answer) ==
  /\ fate[t] = {}
  /\ fate' = [fate EXCEPT ![t] = {answer}]
  /\ UNCHANGED view

\* It ends what it accepted; a second outcome takes a restart.
End(t, outcome) ==
  /\ "accepted" \in fate[t]
  /\ fate' = [fate EXCEPT ![t] = @ \cup {outcome}]
  /\ UNCHANGED view

\* An answer or a report reaches the proposer.
Learn(t) ==
  /\ \E s \in fate[t] \cap TRANSITIONS[view[t]] : view' = [view EXCEPT ![t] = s]
  /\ UNCHANGED fate

\* The proposer's timeout checker, or its user, gives some of its tasks up.
GiveUp ==
  /\ view' \in [Tasks -> Table!TaskState]
  /\ \A t \in Tasks : \/ view'[t] = view[t]
                      \/ view'[t] \in {"cancelled", "timeout"} \cap TRANSITIONS[view[t]]
  /\ UNCHANGED fate

\* A restart of the proposer takes records back along their own lives.
Forget ==
  /\ view' \in [Tasks -> Table!TaskState]
  /\ \A t \in Tasks : LeadsTo(view'[t], view[t])
  /\ UNCHANGED fate

DelegationNext ==
  \/ \E t \in Tasks : Ask(t) \/ Learn(t)
  \/ \E t \in Tasks : \E answer \in Decisions : Decide(t, answer)
  \/ \E t \in Tasks : \E outcome \in Outcomes : End(t, outcome)
  \/ GiveUp \/ Forget

DelegationSpec == DelegationInit /\ [][DelegationNext]_<<view, fate>>
=============================================================================
