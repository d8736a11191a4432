------------------------------ MODULE RunStore ------------------------------
(***************************************************************************)
(* Agent runs on disk (src/src/child-agent-store.ts) and the sessions of   *)
(* the Pi extension that write and restore them (src/src/pi-extension.ts). *)
(*                                                                         *)
(* A session is one instance of the extension: a Pi process, or what       *)
(* `/recipe reload` makes of the same process.  Each has a store of its    *)
(* own over the same directory, <workspace>/.pi/agents/<id>/status.json.   *)
(* A file is truncated when a write opens it and whole when the write ends. *)
(*                                                                         *)
(* A session ends whenever it can, and writes fail; `spoilt` remembers that *)
(* something was lost that way.  Messages follow up on a run once its turn *)
(* is over; LocalRuns is about those that do not wait.                     *)
(***************************************************************************)
EXTENDS Integers, FiniteSets

CONSTANTS
  Runs,        \* the runs that may be started, in all sessions
  Writes,      \* bound: slots for calls of writeStatus() in flight
  MaxSessions, \* bound: how many sessions there are
  MaxIndex,    \* bound: the highest number in a run id
  AtRisk,      \* bound: the runs there are in an execution that loses something
  None         \* no run, no write

ASSUME RunStoreAssumption ==
  /\ MaxSessions \in Nat /\ MaxIndex \in Nat /\ AtRisk \in Nat
  /\ None \notin Runs \cup Writes /\ "prompting" \notin Writes \cup {None}

VARIABLES
  session,    \* history: the number of the current session
  phase,      \* "down", "restoring" (in session_start) or "up"
  index,      \* childRunIndex
  listed,     \* the runs in childRuns
  archived,   \* archivedRuns: a snapshot per id
  found,      \* restoring: the files left to read and the snapshots read
  flip,       \* restoring: the write that is awaited
  id,         \* run.id, by its number; 0 before start()
  sessionOf,  \* the session that started each run
  status,     \* run.status, as it was last in memory
  turn,       \* run.promise: "prompting", or the write it awaits, or None
  cancelling, \* interrupt() calls awaiting runner.cancel()
  closing,    \* close() calls in flight: "no", "awaiting" or "disposing"
  write,      \* writeStatus() calls in flight
  tail,       \* pendingWrites of each session's store
  disk,       \* status.json of each id
  spoilt      \* history: a write failed, or a session ended before its last one

sessionVars == <<session, phase, index, archived, found, flip>>
runVars == <<listed, id, sessionOf, status, turn, cancelling, closing>>
storeVars == <<write, tail, disk>>
vars == <<sessionVars, runVars, storeVars, spoilt>>

Ids == 1 .. MaxIndex
SessionNumbers == 1 .. MaxSessions
Outcomes == {"completed", "failed"}
Settled == Outcomes \cup {"interrupted"}

Snapshot(r) == [run |-> r, id |-> id[r], status |-> status[r]]
Absent == [status |-> "absent"]
Torn == [status |-> "torn"]
Free == [at |-> "free"]
NothingFound == [unread |-> {}, read |-> {}]

Started == {r \in Runs : id[r] # 0}
InFlight == {w \in Writes : write[w] # Free}
\* The slot that the next call takes.
IsNext(w) == w \notin InFlight /\ w = CHOOSE v \in Writes : v \notin InFlight
WritesOf(i) == {w \in InFlight : write[w].snap.id = i}

Init ==
  /\ session = 0 /\ phase = "down" /\ index = 0
  /\ listed = {} /\ archived = [i \in Ids |-> None]
  /\ found = NothingFound /\ flip = None
  /\ id = [r \in Runs |-> 0]
  /\ sessionOf = [r \in Runs |-> 0]
  /\ status = [r \in Runs |-> "none"]
  /\ turn = [r \in Runs |-> None]
  /\ cancelling = {} /\ closing = [r \in Runs |-> "no"]
  /\ write = [w \in Writes |-> Free]
  /\ tail = [s \in SessionNumbers |-> [i \in Ids |-> None]]
  /\ disk = [i \in Ids |-> Absent]
  /\ spoilt = FALSE

-----------------------------------------------------------------------------
(* ChildAgentRunStore.writeStatus()                                        *)

\* Chain the write of a snapshot behind the last one of its run.
Persist(w, s, snap) ==
  /\ IsNext(w)
  /\ write' = [write EXCEPT ![w] =
                [at |-> "queued", snap |-> snap, by |-> s, prev |-> tail[s][snap.id]]]
  /\ tail' = [tail EXCEPT ![s][snap.id] = w]

WriteOpens(w) ==
  /\ write[w] # Free /\ write[w].at = "queued" /\ write[w].prev = None
  /\ write' = [write EXCEPT ![w].at = "open"]
  /\ disk' = [disk EXCEPT ![write[w].snap.id] = Torn]
  /\ UNCHANGED <<sessionVars, runVars, tail, spoilt>>

\* The call returns: its follower may go on, and so may who awaits it.
Returned(w) ==
  /\ write' = [v \in Writes |->
                IF v = w THEN Free
                ELSE IF v \in InFlight /\ write[v].prev = w
                     THEN [write[v] EXCEPT !.prev = None]
                     ELSE write[v]]
  /\ tail' = [tail EXCEPT ![write[w].by][write[w].snap.id] = IF @ = w THEN None ELSE @]
  /\ turn' = [r \in Runs |-> IF turn[r] = w THEN None ELSE turn[r]]
  /\ flip' = IF flip = w THEN None ELSE flip

WriteEnds(w) ==
  /\ write[w] # Free /\ write[w].at = "open"
  /\ disk' = [disk EXCEPT ![write[w].snap.id] = write[w].snap]
  /\ Returned(w)
  /\ UNCHANGED <<session, phase, index, archived, found,
                 listed, id, sessionOf, status, cancelling, closing, spoilt>>

\* Something is lost, or not.
Spoils(lost) ==
  /\ lost => Cardinality(Started) <= AtRisk
  /\ spoilt' = (spoilt \/ lost)

\* FAULT: whoever comes after a write that failed waits for it to succeed.
WriteFailsForGood(w) ==
  /\ write[w] # Free /\ write[w].prev = None
  /\ write' = [write EXCEPT ![w] = Free]
  /\ Spoils(TRUE)
  /\ UNCHANGED <<sessionVars, runVars, tail, disk>>

\* A write that fails, before or after it truncated the file, is swallowed.
WriteFails(w) ==
  /\ write[w] # Free /\ write[w].prev = None
  /\ Returned(w)
  /\ Spoils(TRUE)
  /\ UNCHANGED <<session, phase, index, archived, found,
                 listed, id, sessionOf, status, cancelling, closing, disk>>

-----------------------------------------------------------------------------
(* A session begins: rehydrateChildRuns().                                 *)

Boot ==
  /\ phase = "down" /\ session < MaxSessions
  /\ session' = session + 1
  /\ phase' = "restoring"
  /\ index' = 0
  /\ archived' = [i \in Ids |-> None]
  /\ found' = [unread |-> {i \in Ids : disk[i] # Absent}, read |-> {}]
  /\ flip' = None
  /\ UNCHANGED <<runVars, storeVars, spoilt>>

\* A file that does not parse is skipped.
ReadSnapshot(i) ==
  /\ phase = "restoring" /\ i \in found.unread
  /\ found' = [unread |-> found.unread \ {i},
               read |-> found.read \cup (IF disk[i] = Torn THEN {} ELSE {disk[i]})]
  /\ UNCHANGED <<session, phase, index, archived, flip, runVars, storeVars, spoilt>>

\* FAULT: the numbers of restored runs are not set aside.
RestoreUncounted(snap) ==
  /\ phase = "restoring" /\ flip = None
  /\ found.unread = {} /\ snap \in found.read
  /\ found' = [found EXCEPT !.read = @ \ {snap}]
  /\ \/ /\ snap.status # "running"
        /\ archived' = [archived EXCEPT ![snap.id] = snap]
        /\ UNCHANGED <<flip, write, tail>>
     \/ /\ snap.status = "running"
        /\ LET dead == [snap EXCEPT !.status = "interrupted"]
           IN /\ archived' = [archived EXCEPT ![snap.id] = dead]
              /\ \E w \in Writes : Persist(w, session, dead) /\ flip' = w
  /\ UNCHANGED <<session, phase, index, runVars, disk, spoilt>>

\* A run persisted as running died with the session before.
Restore(snap) ==
  /\ phase = "restoring" /\ flip = None
  /\ found.unread = {} /\ snap \in found.read
  /\ found' = [found EXCEPT !.read = @ \ {snap}]
  /\ index' = IF snap.id > index THEN snap.id ELSE index
  /\ \/ /\ snap.status # "running"
        /\ archived' = [archived EXCEPT ![snap.id] = snap]
        /\ UNCHANGED <<flip, write, tail>>
     \/ /\ snap.status = "running"
        /\ LET dead == [snap EXCEPT !.status = "interrupted"]
           IN /\ archived' = [archived EXCEPT ![snap.id] = dead]
              /\ \E w \in Writes : Persist(w, session, dead) /\ flip' = w
  /\ UNCHANGED <<session, phase, runVars, disk, spoilt>>

Restored ==
  /\ phase = "restoring" /\ found = NothingFound /\ flip = None
  /\ phase' = "up"
  /\ UNCHANGED <<session, index, archived, found, flip, runVars, storeVars, spoilt>>

-----------------------------------------------------------------------------
(* Runs of a session.  What changes a status also persists it.             *)

Current(r) == phase = "up" /\ r \in listed

StartRun(r) ==
  /\ phase = "up" /\ id[r] = 0 /\ index < MaxIndex
  /\ spoilt => Cardinality(Started) < AtRisk
  /\ index' = index + 1
  /\ id' = [id EXCEPT ![r] = index + 1]
  /\ sessionOf' = [sessionOf EXCEPT ![r] = session]
  /\ status' = [status EXCEPT ![r] = "running"]
  /\ turn' = [turn EXCEPT ![r] = "prompting"]
  /\ listed' = listed \cup {r}
  /\ \E w \in Writes :
       Persist(w, session, [run |-> r, id |-> index + 1, status |-> "running"])
  /\ UNCHANGED <<session, phase, archived, found, flip, cancelling, closing, disk, spoilt>>

FollowUp(r) ==
  /\ Current(r) /\ status[r] # "running" /\ turn[r] = None
  /\ status' = [status EXCEPT ![r] = "running"]
  /\ turn' = [turn EXCEPT ![r] = "prompting"]
  /\ \E w \in Writes : Persist(w, session, [Snapshot(r) EXCEPT !.status = "running"])
  /\ UNCHANGED <<sessionVars, listed, id, sessionOf, cancelling, closing, disk, spoilt>>

\* A turn ends; its promise awaits the write.
Settle(r) ==
  /\ turn[r] = "prompting"
  /\ \E outcome \in IF status[r] = "running" THEN Outcomes ELSE {status[r]}, w \in Writes :
       /\ status' = [status EXCEPT ![r] = outcome]
       /\ Persist(w, sessionOf[r], [Snapshot(r) EXCEPT !.status = outcome])
       /\ turn' = [turn EXCEPT ![r] = w]
  /\ UNCHANGED <<sessionVars, listed, id, sessionOf, cancelling, closing, disk, spoilt>>

Interrupt(r) ==
  /\ Current(r) /\ status[r] = "running"
  /\ status' = [status EXCEPT ![r] = "interrupted"]
  /\ cancelling' = cancelling \cup {r}
  /\ UNCHANGED <<sessionVars, listed, id, sessionOf, turn, closing, storeVars, spoilt>>

\* The run is persisted as it is once it is cancelled, unless the session
\* has been given up by then.
InterruptReturns(r) ==
  /\ r \in cancelling
  /\ cancelling' = cancelling \ {r}
  /\ \/ \E w \in Writes : Persist(w, sessionOf[r], Snapshot(r))
     \/ sessionOf[r] # session /\ UNCHANGED <<write, tail>>
  /\ UNCHANGED <<sessionVars, listed, id, sessionOf, status, turn, closing, disk, spoilt>>

Close(r) ==
  /\ Current(r) /\ closing[r] = "no"
  /\ \/ status[r] = "running"
        /\ status' = [status EXCEPT ![r] = "interrupted"]
        /\ closing' = [closing EXCEPT ![r] = "awaiting"]
     \/ status[r] # "running"
        /\ closing' = [closing EXCEPT ![r] = "disposing"]
        /\ status' = status
  /\ UNCHANGED <<sessionVars, listed, id, sessionOf, turn, cancelling, storeVars, spoilt>>

\* A close that stopped its run awaits the turn; the file stays.
CloseReturns(r) ==
  /\ \/ closing[r] = "disposing"
     \/ closing[r] = "awaiting" /\ turn[r] = None
  /\ closing' = [closing EXCEPT ![r] = "no"]
  /\ listed' = listed \ {r}
  /\ UNCHANGED <<sessionVars, id, sessionOf, status, turn, cancelling, storeVars, spoilt>>

-----------------------------------------------------------------------------
(* A session ends.                                                         *)

\* The process goes, and with it what it was writing.
Crash ==
  /\ phase # "down"
  /\ Spoils(InFlight # {})
  /\ phase' = "down"
  /\ found' = NothingFound /\ flip' = None
  /\ listed' = {} /\ cancelling' = {}
  /\ turn' = [r \in Runs |-> None]
  /\ closing' = [r \in Runs |-> "no"]
  /\ write' = [w \in Writes |-> Free]
  /\ tail' = [s \in SessionNumbers |-> [i \in Ids |-> None]]
  /\ UNCHANGED <<session, index, archived, id, sessionOf, status, disk>>

\* /recipe reload, once every run is closed.  The process lives on, and so do
\* the turns and writes that close() did not wait for.
Reload ==
  /\ phase = "up" /\ listed = {}
  /\ Spoils(InFlight # {} \/ cancelling # {} \/ \E r \in Runs : turn[r] # None)
  /\ phase' = "down"
  /\ UNCHANGED <<session, index, archived, found, flip, runVars, storeVars>>

-----------------------------------------------------------------------------
StoreStep(w) == WriteOpens(w) \/ WriteEnds(w) \/ WriteFails(w)

RestoreStep ==
  \/ \E i \in Ids : ReadSnapshot(i)
  \/ \E snap \in found.read : Restore(snap)
  \/ Restored

RunStep(r) ==
  \/ StartRun(r) \/ FollowUp(r) \/ Settle(r)
  \/ Interrupt(r) \/ InterruptReturns(r)
  \/ Close(r) \/ CloseReturns(r)

Next ==
  \/ Boot \/ Crash \/ Reload \/ RestoreStep
  \/ \E w \in Writes : StoreStep(w)
  \/ \E r \in Runs : RunStep(r)

Spec == Init /\ [][Next]_vars

\* Reads and writes settle.
FairSpec ==
  /\ Spec
  /\ WF_vars(RestoreStep)
  /\ \A w \in Writes : WF_vars(StoreStep(w))

-----------------------------------------------------------------------------
(* Properties that hold whatever is lost.                                  *)

\* A store never has two writes open on one file, so that no write truncates
\* what another is writing.
OneWriterPerFile ==
  \A v, w \in InFlight :
    /\ write[v].at = "open" /\ write[w].at = "open"
    /\ write[v].by = write[w].by /\ write[v].snap.id = write[w].snap.id
    => v = w

\* Every writeStatus() returns, so that no turn and no restored session waits
\* for ever behind a write that failed.
WritesReturn == \A w \in Writes : write[w] # Free ~> write[w] = Free

-----------------------------------------------------------------------------
(* Properties that hold until something is lost.                           *)

\* When the writes of a run are done the file says what the run last said, be
\* it interrupted, followed up and closed in whatever order.
DiskCatchesUp ==
  \A r \in Runs :
    /\ ~spoilt /\ phase = "up" /\ sessionOf[r] = session
    /\ WritesOf(id[r]) = {} /\ turn[r] = None /\ r \notin cancelling
    => disk[id[r]] = Snapshot(r)

\* The files follow what memory says: by one write at a time, each of which
\* returns, to the last thing said.
FilesFollowMemory == []OneWriterPerFile /\ []DiskCatchesUp /\ WritesReturn

\* No two runs of a workspace share an id.
IdsNeverReused ==
  \A q, r \in Runs : ~spoilt /\ id[q] # 0 /\ id[q] = id[r] => q = r

\* A run of an earlier session is still found by its id, as it was left, and
\* never says that it is running.
RunsStayResolvable ==
  ~spoilt /\ phase = "up" =>
    \A r \in Runs : sessionOf[r] \in 1 .. session - 1 =>
      archived[id[r]] = [Snapshot(r) EXCEPT !.status =
                          IF @ = "running" THEN "interrupted" ELSE @]

\* What a restart has to keep of earlier runs: their ids and their outcomes.
RestartKeepsRuns == IdsNeverReused /\ RunsStayResolvable
=============================================================================
