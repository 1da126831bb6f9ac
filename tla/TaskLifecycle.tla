---------------------------- MODULE TaskLifecycle ----------------------------
(***************************************************************************)
(* What the task table of the daemon promises, whoever drives it           *)
(* (agent/tasks.ts): a task is created once, moves only along TRANSITIONS  *)
(* and never leaves a terminal state.                                      *)
(*                                                                         *)
(* updateState archives a task in the same synchronous call that makes it  *)
(* terminal (tasks.ts:122), so a terminal task has left the in-memory map  *)
(* and "terminal" here stands for "found in history/<date>.jsonl only".    *)
(***************************************************************************)

CONSTANTS Tasks,    \* task ids
          Inbound   \* the tasks proposed to this daemon; the others it proposed

ASSUME InboundAssumption == Inbound \subseteq Tasks

VARIABLE state      \* state[t]: the state of t's record, "none" before it exists

Active    == {"pending", "accepted", "executing"}
Terminal  == {"completed", "failed", "rejected", "cancelled", "timeout"}
TaskState == {"none"} \cup Active \cup Terminal

TRANSITIONS ==
  [s \in TaskState |->
     CASE s = "pending"   -> {"accepted", "rejected", "cancelled", "timeout"}
       [] s = "accepted"  -> {"executing", "completed", "failed", "cancelled", "timeout"}
       [] s = "executing" -> {"completed", "failed", "cancelled", "timeout"}
       [] OTHER           -> {}]

InMap(t)  == state[t] \in Active         \* getById finds a record
CanMove(t, s) == s \in TRANSITIONS[state[t]]

\* updateState: null (no effect) for an unknown task or an invalid transition.
UpdateState(t, s) ==
  state' = [state EXCEPT ![t] = IF CanMove(t, s) THEN s ELSE @]

\* updateState over several tasks, each to its own state, in one callback.
UpdateStates(S, s) ==
  state' = [t \in Tasks |-> IF t \in S /\ CanMove(t, s) THEN s ELSE state[t]]

\* An outbound record starts pending (router.propose), an inbound one accepted
\* (router.acceptProposal): the ids are fresh.
Create(t) ==
  /\ state[t] = "none"
  /\ state' = [state EXCEPT ![t] = IF t \in Inbound THEN "accepted" ELSE "pending"]

LifecycleInit == state \in [Tasks -> {"none"} \cup Active]

LifecycleNext ==
  \/ \E t \in Tasks : Create(t)
  \/ \E S \in SUBSET Tasks, s \in Active \cup Terminal : UpdateStates(S, s)

LifecycleSpec == LifecycleInit /\ [][LifecycleNext]_state
=============================================================================
