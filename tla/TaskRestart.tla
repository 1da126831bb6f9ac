----------------------------- MODULE TaskRestart -----------------------------
(***************************************************************************)
(* The executor of TaskExecutor over successive daemon processes: what     *)
(* agent/tasks.ts keeps on disk (active.json and history/<date>.jsonl),    *)
(* and what init() and start() make of it when the process ended without   *)
(* close(), as it does on every "clawnexus stop" and "restart" (cli/index  *)
(* answers SIGTERM with process.exit).                                     *)
(*                                                                         *)
(* A save is one step here, as DebouncedStore's ReplacedByNewer allows:    *)
(* the file goes from one version of the map to a newer one.               *)
(***************************************************************************)
EXTENDS TaskExecutor

CONSTANT MaxRestarts   \* bound

ASSUME RestartAssumption == MaxRestarts \in Nat

VARIABLES
  disk,      \* disk[t]: state[t] when active.json was last saved; a terminal state
             \* stands for "no longer in the file"
  history,   \* <<t, outcome>>: the lines of the history
  restarts

diskVars    == <<disk, history, restarts>>
restartVars == <<vars, diskVars>>

DiskTypeOK ==
  /\ disk \in [Tasks -> TaskState]
  /\ history \subseteq Tasks \X Terminal
  /\ restarts \in 0 .. MaxRestarts

RestartInit ==
  /\ Init
  /\ disk = state
  /\ history = {} /\ restarts = 0

\* updateState's archiveCompleted, in whichever action of the executor it runs: a
\* task that becomes terminal leaves the map, and its line is appended later or, if
\* appendFile fails (which is swallowed) or the process ends first, never.
Archive ==
  /\ LET ended == {t \in Tasks : state'[t] \in Terminal /\ state'[t] # state[t]} IN
       \E S \in SUBSET ended : history' = history \cup {<<t, state'[t]>> : t \in S}
  /\ UNCHANGED <<disk, restarts>>

ExecutorStep == Next /\ Archive

\* The debounced flush of the map.
Save ==
  /\ disk # state
  /\ disk' = state
  /\ UNCHANGED <<vars, history, restarts>>

\* Mutant of LoadedTasks: what was executing is made ready to run again.
LoadedRequeued == [t \in Tasks |-> IF disk[t] = "executing" THEN "accepted" ELSE disk[t]]

\* tasks.init() and start()'s pick-up of the accepted inbound tasks.
LoadedTasks == disk

PickedUp(table) == {t \in Inbound : table[t] = "accepted"}

\* The process ends anywhere; the next one runs init() and start(), which queues the
\* tasks it picks up in the file's order.
Restart ==
  /\ restarts < MaxRestarts
  /\ restarts' = restarts + 1
  /\ state' = LoadedTasks
  /\ queue' \in SetToSeqs(PickedUp(state'))
  /\ executing' = {}
  /\ drainPc' = IF queue' = <<>> THEN "idle" ELSE "loop"
  /\ drainTask' = NoTask /\ drainOn' = NoConn
  /\ gwState' = "disconnected" /\ gwConn' = NoConn
  /\ sock' = [c \in Conns |-> "none"]
  /\ reconnect' = FALSE /\ closed' = FALSE
  /\ UNCHANGED <<disk, history, wireVars>>

RestartNext ==
  \/ ExecutorStep
  \/ Save
  \/ Restart

RestartSpec     == RestartInit /\ [][RestartNext]_restartVars
\* Save has no fairness: nothing below relies on a flush.
FairRestartSpec == RestartSpec /\ Fairness

-----------------------------------------------------------------------------
\* What is done once in one process is redone at most once by each later one: the
\* chats asked of the gateway, the reports sent, and the outcomes recorded.
RedoneAtMostOncePerRestart ==
  \A t \in Tasks :
    /\ chats[t] <= 1 + restarts
    /\ Len(reports[t]) <= 1 + restarts
    /\ Cardinality({s \in Terminal : <<t, s>> \in history}) <= 1 + restarts

\* A task the file shows executing is not asked of the gateway again, by this process
\* or a later one.
SavedExecutingNotRedone ==
  [][\A t \in Tasks : disk[t] = "executing" => chats'[t] = chats[t]]_restartVars

=============================================================================
