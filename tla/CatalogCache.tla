---------------------------- MODULE CatalogCache ----------------------------
(***************************************************************************)
(* The catalog cache of a session's MCP commands on disk:                  *)
(* discoverServerCatalog() of src/src/mcp-cli-core.ts for one server.      *)
(* Commands run in processes of their own, in run workers and in the       *)
(* daemon.  The first one without a cached catalog takes a lock file, asks *)
(* the server and writes the cache; the others poll the cache and the      *)
(* lock, and break a lock whose owner is dead or that is too old.          *)
(***************************************************************************)
EXTENDS Integers, FiniteSets

CONSTANTS Clients, NoOne

ASSUME NoOneAssumption == NoOne \notin Clients

VARIABLES
  cache,    \* whose listing the cache file holds, or NoOne
  lock,     \* the lock file: its owner, whether it is written and whether old
  at,       \* the await a call is at
  late,     \* calls whose deadline has passed
  answer,   \* of a call: whose listing it got, or NoOne
  crashes,  \* processes may die
  stalls    \* a lock may grow old under a live owner: it stalls, or allows
            \* itself more time than the call that judges it

cacheVars == <<cache, lock, at, late, answer, crashes, stalls>>
settings == <<crashes, stalls>>

NoLock == [owner |-> NoOne, written |-> FALSE, old |-> FALSE]

CacheInit ==
  /\ cache = NoOne /\ lock = NoLock
  /\ at = [c \in Clients |-> "first"]
  /\ late = {} /\ answer = [c \in Clients |-> NoOne]
  /\ crashes \in BOOLEAN /\ stalls \in BOOLEAN

Go(c, where) == at' = [at EXCEPT ![c] = where]

\* readCachedCatalog(): the call is answered if there is a cache, and goes on
\* otherwise.  The cache is replaced by a rename: it is never half written.
ReadCache(c, answered, otherwise) ==
  /\ IF cache # NoOne
     THEN Go(c, answered) /\ answer' = [answer EXCEPT ![c] = cache]
     ELSE Go(c, otherwise) /\ UNCHANGED answer
  /\ UNCHANGED <<cache, lock, late, settings>>

FirstRead(c) == at[c] = "first" /\ ReadCache(c, "ended", "opening")

\* The head of the loop, and acquireCatalogLock() up to its open().
Open(c) ==
  /\ at[c] = "opening"
  /\ \/ c \in late /\ Go(c, "late") /\ UNCHANGED lock
     \/ c \notin late /\ lock = NoLock /\ lock' = [NoLock EXCEPT !.owner = c] /\ Go(c, "stamping")
     \/ c \notin late /\ lock # NoLock /\ Go(c, "polling") /\ UNCHANGED lock
  /\ UNCHANGED <<cache, late, answer, settings>>

\* The pid and the time are written, or that fails and the lock is removed.
Stamp(c) ==
  /\ at[c] = "stamping"
  /\ \/ Go(c, "checking") /\ lock' = IF lock.owner = c THEN [lock EXCEPT !.written = TRUE] ELSE lock
     \/ Go(c, "releasing") /\ UNCHANGED lock
  /\ UNCHANGED <<cache, late, answer, settings>>

Poll(c) == at[c] = "polling" /\ ReadCache(c, "ended", "judging")

Dead(c) == at[c] = "dead"

\* catalogLockIsStale(): its content is read, or its age when it has none yet.
Judge(c) ==
  /\ at[c] = "judging"
  /\ \/ lock.written /\ Go(c, IF Dead(lock.owner) \/ lock.old THEN "breaking" ELSE "delayed")
     \/ lock # NoLock /\ ~lock.written /\ Go(c, "dating")
     \/ lock = NoLock /\ Go(c, "delayed")
  /\ UNCHANGED <<cache, lock, late, answer, settings>>

JudgeByDate(c) ==
  /\ at[c] = "dating"
  /\ Go(c, IF lock.old THEN "breaking" ELSE "delayed")
  /\ UNCHANGED <<cache, lock, late, answer, settings>>

\* The lock that is removed need not be the one that was judged.
BreakLock(c) ==
  /\ at[c] = "breaking"
  /\ lock' = NoLock /\ Go(c, "opening")
  /\ UNCHANGED <<cache, late, answer, settings>>

Delayed(c) ==
  /\ at[c] = "delayed" /\ Go(c, "opening")
  /\ UNCHANGED <<cache, lock, late, answer, settings>>

LastRead(c) == at[c] = "late" /\ ReadCache(c, "ended", "ended")

\* FAULT: the owner of the lock lists without a look at the cache.
ListAtOnce(c) ==
  /\ at[c] = "checking"
  /\ Go(c, IF c \in late THEN "releasing" ELSE "listing")
  /\ UNCHANGED <<cache, lock, late, answer, settings>>

\* The owner looks once more, and has to have time left.
Recheck(c) ==
  /\ at[c] = "checking"
  /\ ReadCache(c, "releasing", IF c \in late THEN "releasing" ELSE "listing")

\* The server answers, or fails, or the rest of the time passes.
List(c) ==
  /\ at[c] = "listing"
  /\ Go(c, "writing") \/ Go(c, "releasing")
  /\ UNCHANGED <<cache, lock, late, answer, settings>>

Write(c) ==
  /\ at[c] = "writing" /\ Go(c, "releasing")
  /\ \/ cache' = c /\ answer' = [answer EXCEPT ![c] = c]
     \/ UNCHANGED <<cache, answer>>
  /\ UNCHANGED <<lock, late, settings>>

\* Whoever owns the lock by now.
Release(c) ==
  /\ at[c] = "releasing"
  /\ lock' = NoLock /\ Go(c, "ended")
  /\ UNCHANGED <<cache, late, answer, settings>>

-----------------------------------------------------------------------------
(* Time and crashes                                                        *)

Over(c) == at[c] \in {"ended", "dead"}

\* Of any time it may pass, only whether it has where the code looks counts.
DeadlinePasses(c) ==
  /\ c \notin late /\ at[c] \in {"opening", "checking"}
  /\ late' = late \cup {c}
  /\ UNCHANGED <<cache, lock, at, answer, settings>>

\* FAULT: a lock that was never written has no age.
AgeOnceWritten ==
  /\ lock.written /\ ~lock.old
  /\ stalls \/ Dead(lock.owner)
  /\ lock' = [lock EXCEPT !.old = TRUE]
  /\ UNCHANGED <<cache, at, late, answer, settings>>

\* An owner that lives lists within its deadline, and a lock that is not
\* written yet is young, unless the owner stalls.
Age ==
  /\ lock # NoLock /\ ~lock.old
  /\ stalls \/ Dead(lock.owner)
  /\ lock' = [lock EXCEPT !.old = TRUE]
  /\ UNCHANGED <<cache, at, late, answer, settings>>

Crash(c) ==
  /\ crashes /\ ~Over(c)
  /\ Go(c, "dead")
  /\ UNCHANGED <<cache, lock, late, answer, settings>>

Await(c) ==
  \/ FirstRead(c) \/ Open(c) \/ Stamp(c) \/ Poll(c) \/ Judge(c) \/ JudgeByDate(c)
  \/ BreakLock(c) \/ Delayed(c) \/ LastRead(c) \/ Recheck(c) \/ List(c) \/ Write(c) \/ Release(c)

CacheNext == Age \/ \E c \in Clients : Await(c) \/ DeadlinePasses(c) \/ Crash(c)

\* File operations, timers and the bounded listing complete.
CacheSpec == /\ CacheInit /\ [][CacheNext]_cacheVars
             /\ WF_cacheVars(Age)
             /\ \A c \in Clients : WF_cacheVars(Await(c))

-----------------------------------------------------------------------------
CacheTypeOK ==
  /\ cache \in Clients \cup {NoOne}
  /\ lock \in [owner : Clients \cup {NoOne}, written : BOOLEAN, old : BOOLEAN]
  /\ at \in [Clients -> {"first", "opening", "stamping", "polling", "judging", "dating",
                         "breaking", "delayed", "late", "checking", "listing", "writing",
                         "releasing", "ended", "dead"}]
  /\ late \subseteq Clients /\ answer \in [Clients -> Clients \cup {NoOne}]
  /\ crashes \in BOOLEAN /\ stalls \in BOOLEAN

Discovering == {c \in Clients : at[c] \in {"listing", "writing"}}

\* While nobody dies or stalls, the server is asked by one command at a time
\* and not again once the cache is there, whatever the commands saw before.
DiscoveryIsExclusive ==
  ~crashes /\ ~stalls =>
    Cardinality(Discovering) <= 1 /\ (cache # NoOne => Discovering = {})

\* From here on a call goes on to remove the lock, unless it dies.
Holding == {"stamping", "checking", "listing", "writing", "releasing"}

\* No call that has returned or gone back to polling leaves its lock behind,
\* whoever dies or stalls and although calls remove whatever lock they find: a
\* lock that is there is one its owner is about to remove, or a dead call's.
LockIsGivenUp == lock # NoLock => at[lock.owner] \in Holding \cup {"dead"}

\* Every call ends, though no deadline may ever pass: a lock goes with its owner
\* or is broken, also one whose owner died before it was written.
LookupsReturn == \A c \in Clients : <>Over(c)

\* Neither a call nor a lock outstays the other.
LookupsEnd == LookupsReturn /\ []LockIsGivenUp
=============================================================================
