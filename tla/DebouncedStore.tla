--------------------------- MODULE DebouncedStore ---------------------------
(***************************************************************************)
(* The debounced, write-then-rename persistence that TaskManager           *)
(* (agent/tasks.ts), RegistryStore (registry/store.ts) and A2ATaskStore    *)
(* (a2a/store.ts) each implement: a change marks the map dirty and arms a  *)
(* 500 ms timer; the timer serialises the map, writes <file>.tmp and       *)
(* renames it over <file>.  The three differ in close() only.              *)
(*                                                                         *)
(* The map is abstracted to a version number, the number of changes made   *)
(* to it; a file is an inode holding a version, or bytes that init()'s     *)
(* JSON.parse rejects.  fs.promises.writeFile is an open that truncates    *)
(* and a write: other callbacks run between the two, and a crash between   *)
(* any two of these steps keeps the inodes and the names.                  *)
(***************************************************************************)
EXTENDS Integers, FiniteSets

CONSTANTS Flights,     \* identities for flushNow calls under way (a bound)
          Inodes,      \* a bound: the renamed file, the tmp file, one a flight still holds
          NoInode, NoFlight,
          MaxVersion,  \* bound on the changes
          SlowDisk     \* may a flush outlast the 500 ms of the next debounce?

ASSUME StoreAssumption ==
  /\ NoInode \notin Inodes /\ NoFlight \notin Flights
  /\ MaxVersion \in Nat
  /\ SlowDisk \in BOOLEAN

VARIABLES
  awaits,      \* close() waits for a timer's flush: TRUE for A2ATaskStore only
  mem,         \* version of the in-memory map
  dirty,
  timer,       \* flushTimer is armed
  inProgress,  \* flushInProgress, or NoFlight
  closing,     \* where close() stands; "deciding" is its continuation being due
  closeOn,     \* the flight close() awaits: a timer's ("waiting") or its own
  pc,          \* each flushNow: "idle", "open", "write", "rename"
  snap,        \* the version it serialised
  ino,         \* the inode it has open
  content,     \* each inode's bytes: a version, Empty or Torn
  file, tmp    \* the inodes named <file> and <file>.tmp

closeVars  == <<closing, closeOn>>
flightVars == <<pc, snap, ino>>
fileVars   == <<content, file, tmp>>
storeVars == <<awaits, mem, dirty, timer, inProgress, closeVars, flightVars, fileVars>>

Empty == -2   \* truncated, not written yet
Torn  == -1   \* two writers' bytes
Version == 0 .. MaxVersion

StoreTypeOK ==
  /\ awaits \in BOOLEAN /\ mem \in Version /\ dirty \in BOOLEAN /\ timer \in BOOLEAN
  /\ inProgress \in Flights \cup {NoFlight}
  /\ closing \in {"no", "waiting", "deciding", "flushing", "returned", "failed"}
  /\ closeOn \in Flights \cup {NoFlight}
  /\ pc \in [Flights -> {"idle", "open", "write", "rename"}]
  /\ snap \in [Flights -> Version]
  /\ ino \in [Flights -> Inodes \cup {NoInode}]
  /\ content \in [Inodes -> Version \cup {Empty, Torn}]
  /\ file \in Inodes \cup {NoInode} /\ tmp \in Inodes \cup {NoInode}

\* What init() loads from the file: "Corrupted - start fresh" and no file are 0.
Stored(i) == IF i = NoInode THEN 0 ELSE IF content[i] \in {Empty, Torn} THEN 0 ELSE content[i]
OnDisk == Stored(file)

StoreInit ==
  /\ awaits \in BOOLEAN
  /\ mem = 0 /\ dirty = FALSE /\ timer = FALSE
  /\ inProgress = NoFlight
  /\ closing = "no" /\ closeOn = NoFlight
  /\ pc = [f \in Flights |-> "idle"]
  /\ snap = [f \in Flights |-> 0]
  /\ ino = [f \in Flights |-> NoInode]
  /\ content = [i \in Inodes |-> Empty]
  /\ file = NoInode /\ tmp = NoInode

Busy == {f \in Flights : pc[f] # "idle"}

\* Callbacks wait for the microtasks: here, the rest of close() after its await.
Quiet == closing # "deciding"

-----------------------------------------------------------------------------
\* A change of the map, and scheduleDirtyFlush.
Change ==
  /\ Quiet /\ mem < MaxVersion
  /\ mem' = mem + 1
  /\ dirty' = TRUE /\ timer' = TRUE
  /\ UNCHANGED <<awaits, inProgress, closeVars, flightVars, fileVars>>

\* flushNow up to its first await: the map is serialised.
StartFlush(f) ==
  /\ pc[f] = "idle"
  /\ pc' = [pc EXCEPT ![f] = "open"]
  /\ snap' = [snap EXCEPT ![f] = mem]
  /\ UNCHANGED ino

TimerFires(f) ==
  /\ Quiet /\ timer
  /\ SlowDisk \/ Busy = {}
  /\ timer' = FALSE
  /\ StartFlush(f)
  /\ inProgress' = f
  /\ UNCHANGED <<awaits, mem, dirty, closeVars, fileVars>>

Free == Inodes \ ({file, tmp} \cup {ino[f] : f \in Busy})

\* writeFile's open: O_CREAT | O_TRUNC on the tmp name.
OpenTmp(f) ==
  /\ Quiet /\ pc[f] = "open"
  /\ \E i \in IF tmp = NoInode THEN Free ELSE {tmp} :
       /\ ino' = [ino EXCEPT ![f] = i]
       /\ content' = [content EXCEPT ![i] = Empty]
       /\ tmp' = i
  /\ pc' = [pc EXCEPT ![f] = "write"]
  /\ UNCHANGED <<awaits, mem, dirty, timer, inProgress, closeVars, snap, file>>

\* writeFile's write, at offset 0 of the inode it opened, whatever its name is by
\* now: over another writer's bytes it may leave that writer's tail.
WriteTmp(f) ==
  /\ Quiet /\ pc[f] = "write"
  /\ \E c \in {snap[f]} \cup (IF content[ino[f]] = Empty THEN {} ELSE {Torn}) :
       content' = [content EXCEPT ![ino[f]] = c]
  /\ pc' = [pc EXCEPT ![f] = "rename"]
  /\ UNCHANGED <<awaits, mem, dirty, timer, inProgress, closeVars, snap, ino, file, tmp>>

ByClose(f) == closing = "flushing" /\ closeOn = f

\* A flush has ended: the timer's finally clears flushInProgress, and the close()
\* that waits for it goes on.
FlushEnded(f, result) ==
  /\ pc' = [pc EXCEPT ![f] = "idle"]
  /\ ino' = [ino EXCEPT ![f] = NoInode]
  /\ inProgress' = IF ByClose(f) THEN inProgress ELSE NoFlight
  /\ closing' = IF closeOn # f THEN closing
                ELSE IF result = "failed" THEN "failed"
                ELSE IF closing = "waiting" THEN "deciding" ELSE "returned"
  /\ closeOn' = IF closeOn = f THEN NoFlight ELSE closeOn
  /\ UNCHANGED <<awaits, mem, timer, snap>>

\* rename(2), then dirty = false, whatever has changed since the snapshot.
Rename(f) ==
  /\ Quiet /\ pc[f] = "rename" /\ tmp # NoInode
  /\ file' = tmp /\ tmp' = NoInode
  /\ dirty' = FALSE
  /\ FlushEnded(f, "ok")
  /\ UNCHANGED content

-----------------------------------------------------------------------------
\* Mutant of CloseStore: A2ATaskStore too flushes without waiting.
CloseAtOnce ==
  /\ closing = "no"
  /\ timer' = FALSE
  /\ closing' = "deciding"
  /\ UNCHANGED <<awaits, mem, dirty, inProgress, closeOn, flightVars, fileVars>>

\* close(): the timer is cleared; A2ATaskStore waits for a flush in progress.
CloseStore ==
  /\ closing = "no"
  /\ timer' = FALSE
  /\ closeOn' = IF awaits THEN inProgress ELSE NoFlight
  /\ closing' = IF closeOn' = NoFlight THEN "deciding" ELSE "waiting"
  /\ UNCHANGED <<awaits, mem, dirty, inProgress, flightVars, fileVars>>

CloseDecides ==
  /\ closing = "deciding"
  /\ \/ /\ ~dirty
        /\ closing' = "returned"
        /\ UNCHANGED <<closeOn, flightVars>>
     \/ /\ dirty
        /\ closing' = "flushing"
        /\ \E f \in Flights : StartFlush(f) /\ closeOn' = f
  /\ UNCHANGED <<awaits, mem, dirty, timer, inProgress, fileVars>>

\* The process ends, at any point (SIGTERM and SIGINT call process.exit at once),
\* and a later one runs init().
Restart ==
  /\ mem' = OnDisk
  /\ dirty' = FALSE /\ timer' = FALSE /\ inProgress' = NoFlight
  /\ closing' = "no" /\ closeOn' = NoFlight
  /\ pc' = [f \in Flights |-> "idle"]
  /\ snap' = [f \in Flights |-> 0]
  /\ ino' = [f \in Flights |-> NoInode]
  /\ UNCHANGED <<awaits, fileVars>>

\* Mutant of FlushFails: the failure of a timer's flush is swallowed.
FlushFailsQuietly(f) ==
  /\ Quiet /\ pc[f] # "idle"
  /\ FlushEnded(f, "failed")
  /\ UNCHANGED <<dirty, fileVars>>

\* A step of flushNow fails.  close() rejects, or swallows it; nobody handles the
\* rejection of a timer's flush, nor the "error" event emitted for it, and Node ends
\* the process.
FlushFails(f) ==
  /\ Quiet /\ pc[f] # "idle"
  /\ IF closeOn = f THEN FlushEnded(f, "failed") /\ UNCHANGED <<dirty, fileVars>>
     ELSE Restart

Flush(f) == OpenTmp(f) \/ WriteTmp(f) \/ Rename(f)

StoreNext ==
  \/ Change \/ CloseStore \/ CloseDecides \/ Restart
  \/ \E f \in Flights : TimerFires(f) \/ Flush(f) \/ FlushFails(f)

\* Armed timers fire and file operations end.
Fairness ==
  /\ WF_storeVars(\E f \in Flights : TimerFires(f))
  /\ \A f \in Flights : WF_storeVars(Flush(f))
  /\ WF_storeVars(CloseDecides)

StoreSpec     == StoreInit /\ [][StoreNext]_storeVars
FairStoreSpec == StoreSpec /\ Fairness

-----------------------------------------------------------------------------
\* Two flushes may share the tmp file: on a slow disk, and when close() does not
\* wait for the timer's flush.
Exposed == SlowDisk \/ (~awaits /\ closing # "no")

\* docs/blog/article_5:63, "atomic file replacement to prevent corruption": each time
\* the file changes, a crash included, it holds a newer version of the map.
ReplacedByNewer ==
  [][~Exposed => OnDisk' \in {OnDisk} \cup (OnDisk + 1 .. mem)]_storeVars

\* Every change reaches the disk, unless the process ends or the store is closed.
EveryChangeSaved ==
  \A v \in Version : (mem >= v) ~> (OnDisk >= v \/ mem < v \/ closing # "no")

=============================================================================
