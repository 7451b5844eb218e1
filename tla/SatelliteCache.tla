--------------------------- MODULE SatelliteCache ---------------------------
(***************************************************************************)
(* The cache of orbital elements every provider of `seiza-satellites`      *)
(* keeps in one directory, under one advisory lock and one ceiling, and    *)
(* the loads that share it: CelesTrak's current catalog, fresh for two     *)
(* hours, and the catalogs of past epochs.  A load looks under a shared    *)
(* lock, looks again under the exclusive one, then downloads, publishes    *)
(* and evicts; a failed download of the current catalog falls back to the  *)
(* newest snapshot of any age.                                             *)
(*                                                                         *)
(* A cancel drops the load's future: its lock goes at once, but the file   *)
(* operation it was waiting for runs on, on a blocking thread.             *)
(*                                                                         *)
(* seiza-satellites/src/{cache,source,history,blocking}.rs.                *)
(***************************************************************************)
EXTENDS Integers, FiniteSets

CONSTANTS
  Loaders,     \* processes that load elements, one load at a time
  Epochs,      \* past epochs asked for, each a reuse window of its own
  MinRefresh,  \* how long the current catalog is fresh
  Limit,       \* the ceiling, in snapshots
  MaxTime,     \* bound: the clock
  MaxLoads,    \* bound: loads in all
  MaxCancels,  \* bound: cancelled loads in all
  None

Catalogs == {"active"} \cup Epochs

ASSUME CacheAssumption ==
  /\ "active" \notin Epochs
  /\ MinRefresh \in Nat /\ Limit \in Nat
  /\ MaxTime \in Nat /\ MaxLoads \in Nat /\ MaxCancels \in Nat

VARIABLES
  now,       \* the clock
  cache,     \* the snapshots under their real names
  partials,  \* the `.partial` files
  lock,      \* how each loader holds the lock
  pc,        \* where each loader is
  want,      \* the catalog its load is for
  phase,     \* why it looks for a snapshot: "fresh" or "cached" under the
             \* shared lock, "recheck" under the exclusive one, "stale" after a
             \* failed download
  seen,      \* the snapshots it listed and has not tried
  file,      \* the download it makes: [for, at, by], or None
  outcome,   \* how its last load ended
  detached,  \* file operations of cancelled loads that may still run
  loads, cancels,
  reused     \* names a load took while a create or a rename of a cancelled
             \* load was under way there (history: no step reads it)

disk == <<cache, partials>>
load == <<pc, want, phase, seen, file>>
counts == <<loads, cancels, reused>>
vars == <<now, disk, lock, load, outcome, detached, counts>>

Snapshots == [for : Catalogs, at : 0..MaxTime, whole : BOOLEAN]
Names == [for : Catalogs, at : 0..MaxTime, by : Loaders]
Files == [name : Names, whole : BOOLEAN]

TypeOK ==
  /\ now \in 0..MaxTime
  /\ cache \subseteq Snapshots
  /\ partials \subseteq Files
  /\ lock \in [Loaders -> {"none", "shared", "exclusive"}]
  /\ pc \in [Loaders -> {"idle", "prune", "evict", "lock", "look", "read", "fetch",
                         "create", "write", "rename", "enforce"}]
  /\ want \in [Loaders -> Catalogs \cup {None}]
  /\ phase \in [Loaders -> {"fresh", "cached", "recheck", "stale"}]
  /\ seen \in [Loaders -> SUBSET Snapshots]
  /\ file \in [Loaders -> Names \cup {None}]
  /\ outcome \in [Loaders -> {"none", "fresh", "cached", "downloaded", "stale", "error"}]
  /\ detached \subseteq [op : {"prune", "create", "rename", "evict", "enforce"},
                         by : Loaders, file : Names \cup {None}]
  /\ loads \in 0..MaxLoads /\ cancels \in 0..MaxCancels
  /\ reused \subseteq Names

Init ==
  /\ now = 0
  /\ cache = {} /\ partials = {}
  /\ lock = [l \in Loaders |-> "none"]
  /\ pc = [l \in Loaders |-> "idle"]
  /\ want = [l \in Loaders |-> None]
  /\ phase = [l \in Loaders |-> "fresh"]
  /\ seen = [l \in Loaders |-> {}]
  /\ file = [l \in Loaders |-> None]
  /\ outcome = [l \in Loaders |-> "none"]
  /\ detached = {}
  /\ loads = 0 /\ cancels = 0 /\ reused = {}
-----------------------------------------------------------------------------
(* The lock, and what is done under it. *)

\* Mutant of Free: an exclusive lock is given beside shared ones.
FreeToReaders(l, mode) ==
  \A o \in Loaders \ {l} : mode = "exclusive" => lock[o] # "exclusive"

Free(l, mode) ==
  \A o \in Loaders \ {l} :
    IF mode = "exclusive" THEN lock[o] = "none" ELSE lock[o] # "exclusive"

Goto(l, step) == pc' = [pc EXCEPT ![l] = step]

\* The load returns, is dropped or dies: its lock goes with it.
End(l, how) ==
  /\ Goto(l, "idle")
  /\ lock' = [lock EXCEPT ![l] = "none"]
  /\ want' = [want EXCEPT ![l] = None]
  /\ phase' = [phase EXCEPT ![l] = "fresh"]
  /\ seen' = [seen EXCEPT ![l] = {}]
  /\ file' = [file EXCEPT ![l] = None]
  /\ outcome' = [outcome EXCEPT ![l] = how]

Newest(snapshots) == {s \in snapshots : \A t \in snapshots : t.at <= s.at}

Published(name) == {s \in cache : s.for = name.for /\ s.at = name.at}
Unfinished(name) == {p \in partials : p.name = name}

\* Mutant of Remaining: only what was just written is spared.
RemainingOfRetained(retained) ==
  {left \in SUBSET cache :
     LET kept == retained \cap cache IN
       /\ kept \subseteq left
       /\ \A s \in cache \ left, t \in left \ kept : s.at <= t.at
       /\ \/ left = cache /\ Cardinality(cache) <= Limit
          \/ /\ Cardinality(cache) > Limit
             /\ Cardinality(left) =
                  IF Cardinality(kept) > Limit THEN Cardinality(kept) ELSE Limit}

\* What may be left of the snapshots when the ceiling is enforced: the oldest go
\* first, and neither the newest of all nor what was just written goes.
Remaining(retained) ==
  {left \in SUBSET cache :
     \E newest \in IF cache = {} THEN {{}} ELSE {{s} : s \in Newest(cache)} :
       LET kept == newest \cup (retained \cap cache) IN
         /\ kept \subseteq left
         /\ \A s \in cache \ left, t \in left \ kept : s.at <= t.at
         /\ \/ left = cache /\ Cardinality(cache) <= Limit
            \/ /\ Cardinality(cache) > Limit
               /\ Cardinality(left) =
                    IF Cardinality(kept) > Limit THEN Cardinality(kept) ELSE Limit}

\* enforce_cache_size_limit_in: every partial file is abandoned and removed, then
\* snapshots are evicted.
EnforceLimit(retained) == partials' = {} /\ cache' \in Remaining(retained)

\* One of its removals fails, after some of the others.
EnforceFails(retained) ==
  \/ partials' \in (SUBSET partials) /\ UNCHANGED cache
  \/ /\ partials' = {}
     /\ \E left \in Remaining(retained) :
          cache' \in {between \in SUBSET cache : left \subseteq between}

Retained(name) == IF name = None THEN {} ELSE Published(name)
-----------------------------------------------------------------------------
(* A load. *)

\* load_active, load_at, or without the network load_cached_for.
Begin(l, catalog, first) ==
  /\ pc[l] = "idle"
  /\ loads < MaxLoads
  /\ loads' = loads + 1
  /\ want' = [want EXCEPT ![l] = catalog]
  /\ phase' = [phase EXCEPT ![l] = first]
  /\ outcome' = [outcome EXCEPT ![l] = "none"]
  /\ Goto(l, "prune")
  /\ UNCHANGED <<now, disk, lock, seen, file, detached, cancels, reused>>

\* The current catalog's loads look at the total under a shared lock first.
Prune(l) ==
  /\ pc[l] = "prune" /\ want[l] = "active"
  /\ Free(l, "shared")
  /\ Goto(l, IF Cardinality(cache) > Limit THEN "evict" ELSE "lock")
  /\ UNCHANGED <<now, disk, lock, want, phase, seen, file, outcome, detached, counts>>

LockToEvict(l) ==
  /\ pc[l] = "evict" /\ lock[l] = "none"
  /\ Free(l, "exclusive")
  /\ lock' = [lock EXCEPT ![l] = "exclusive"]
  /\ UNCHANGED <<now, disk, load, outcome, detached, counts>>

Evict(l) ==
  /\ pc[l] = "evict" /\ lock[l] = "exclusive"
  /\ \/ /\ EnforceLimit({})
        /\ Goto(l, "lock")
        /\ lock' = [lock EXCEPT ![l] = "none"]
        /\ UNCHANGED <<want, phase, seen, file, outcome>>
     \/ EnforceFails({}) /\ End(l, "error")
  /\ UNCHANGED <<now, detached, counts>>

\* The others' take the exclusive lock and enforce the ceiling in one blocking
\* task, which no cancel splits.
PruneCache(l) ==
  /\ pc[l] = "prune" /\ want[l] # "active"
  /\ Free(l, "exclusive")
  /\ \/ EnforceLimit({}) /\ Goto(l, "lock") /\ UNCHANGED <<lock, want, phase, seen, file, outcome>>
     \/ EnforceFails({}) /\ End(l, "error")
  /\ UNCHANGED <<now, detached, counts>>

\* Mutant of Lock: the download follows without a second look.
LockThenDownload(l) ==
  /\ pc[l] = "lock"
  /\ LET mode == IF phase[l] = "recheck" THEN "exclusive" ELSE "shared" IN
       /\ Free(l, mode)
       /\ lock' = [lock EXCEPT ![l] = mode]
  /\ Goto(l, IF phase[l] = "recheck" THEN "fetch" ELSE "look")
  /\ UNCHANGED <<now, disk, want, phase, seen, file, outcome, detached, counts>>

Lock(l) ==
  /\ pc[l] = "lock"
  /\ LET mode == IF phase[l] = "recheck" THEN "exclusive" ELSE "shared" IN
       /\ Free(l, mode)
       /\ lock' = [lock EXCEPT ![l] = mode]
  /\ Goto(l, "look")
  /\ UNCHANGED <<now, disk, want, phase, seen, file, outcome, detached, counts>>

\* The snapshots that would do: of the current catalog those still fresh, of an
\* epoch's those within its window; the cached loads take any of their provider's,
\* and a failed download any of the current catalog.
Suits(l, s) ==
  \/ /\ s.for = want[l]
     /\ want[l] = "active" /\ phase[l] \in {"fresh", "recheck"} => now - s.at <= MinRefresh
  \/ phase[l] = "cached" /\ {s.for, want[l]} \subseteq Epochs

Look(l) ==
  /\ pc[l] = "look"
  /\ seen' = [seen EXCEPT ![l] = {s \in cache : Suits(l, s)}]
  /\ Goto(l, "read")
  /\ UNCHANGED <<now, disk, lock, want, phase, file, outcome, detached, counts>>

Answer(l) == CASE phase[l] \in {"fresh", "recheck"} -> "fresh"
               [] OTHER -> phase[l]

\* The newest listed is read, or with the network left out the nearest to a time of
\* the caller's; one that cannot be is passed over.
Read(l) ==
  /\ pc[l] = "read"
  /\ \E s \in IF phase[l] = "cached" THEN seen[l] ELSE Newest(seen[l]) :
       \/ s \in cache /\ s.whole /\ End(l, Answer(l))
       \/ /\ ~(s \in cache /\ s.whole)
          /\ seen' = [seen EXCEPT ![l] = @ \ {s}]
          /\ UNCHANGED <<pc, lock, want, phase, file, outcome>>
  /\ UNCHANGED <<now, disk, detached, counts>>

\* Mutant of Missed: the exclusive lock is waited for with the shared one held.
MissedKeepsLock(l) ==
  /\ pc[l] = "read" /\ seen[l] = {}
  /\ \/ /\ phase[l] = "fresh"
        /\ phase' = [phase EXCEPT ![l] = "recheck"]
        /\ Goto(l, "lock")
        /\ UNCHANGED <<lock, want, seen, file, outcome>>
     \/ phase[l] = "recheck" /\ Goto(l, "fetch") /\ UNCHANGED <<lock, want, phase, seen, file, outcome>>
     \/ phase[l] \in {"cached", "stale"} /\ End(l, "error")
  /\ UNCHANGED <<now, disk, detached, counts>>

\* None would do: the shared lock is let go and the exclusive one waited for, or
\* the download begins, or there is nothing to return.
Missed(l) ==
  /\ pc[l] = "read" /\ seen[l] = {}
  /\ \/ /\ phase[l] = "fresh"
        /\ lock' = [lock EXCEPT ![l] = "none"]
        /\ phase' = [phase EXCEPT ![l] = "recheck"]
        /\ Goto(l, "lock")
        /\ UNCHANGED <<want, seen, file, outcome>>
     \/ phase[l] = "recheck" /\ Goto(l, "fetch") /\ UNCHANGED <<lock, want, phase, seen, file, outcome>>
     \/ phase[l] \in {"cached", "stale"} /\ End(l, "error")
  /\ UNCHANGED <<now, disk, detached, counts>>

\* The directory cannot be made, locked or listed.
Refused(l) ==
  /\ pc[l] \in {"prune", "lock", "look"} \/ (pc[l] = "evict" /\ lock[l] = "none")
  /\ End(l, "error")
  /\ UNCHANGED <<now, disk, detached, counts>>
-----------------------------------------------------------------------------
(* The download, under the exclusive lock. *)

\* The file operations on a partial file that a cancelled load may leave.
Making == {"create", "rename"}

\* Mutant of Fetch: the name's seconds are rounded up.
FetchRoundsUp(l) ==
  /\ pc[l] = "fetch"
  /\ file' = [file EXCEPT ![l] = [for |-> want[l], at |-> now + 1, by |-> l]]
  /\ Goto(l, "create")
  /\ UNCHANGED <<now, disk, lock, want, phase, seen, outcome, detached, counts>>

\* The download has come, and is named after the second it came in.
Fetch(l) ==
  /\ pc[l] = "fetch"
  /\ LET name == [for |-> want[l], at |-> now, by |-> l] IN
       /\ file' = [file EXCEPT ![l] = name]
       /\ reused' = reused \cup
            {task.file : task \in {t \in detached : t.op \in Making /\ t.file = name}}
  /\ Goto(l, "create")
  /\ UNCHANGED <<now, disk, lock, want, phase, seen, outcome, detached, loads, cancels>>

\* File::create truncates a file that has the name already.
CreatePartial(name) ==
  partials' = (partials \ Unfinished(name)) \cup {[name |-> name, whole |-> FALSE]}

Create(l) ==
  /\ pc[l] = "create"
  /\ CreatePartial(file[l])
  /\ Goto(l, "write")
  /\ UNCHANGED <<now, cache, lock, want, phase, seen, file, outcome, detached, counts>>

\* Mutant of Write: the rename does not wait for the write.
WriteLater(l) ==
  /\ pc[l] = "write"
  /\ Goto(l, "rename")
  /\ UNCHANGED <<now, disk, lock, want, phase, seen, file, outcome, detached, counts>>

\* Written and synced, into a file whose name may be gone.
Write(l) ==
  /\ pc[l] = "write"
  /\ partials' = {IF p.name = file[l] THEN [p EXCEPT !.whole = TRUE] ELSE p : p \in partials}
  /\ Goto(l, "rename")
  /\ UNCHANGED <<now, cache, lock, want, phase, seen, file, outcome, detached, counts>>

RenamePartial(name) ==
  \E p \in Unfinished(name) :
    /\ partials' = partials \ {p}
    /\ cache' = (cache \ Published(name)) \cup
         {[for |-> name.for, at |-> name.at, whole |-> p.whole]}

Rename(l) ==
  /\ pc[l] = "rename"
  /\ RenamePartial(file[l])
  /\ Goto(l, "enforce")
  /\ UNCHANGED <<now, lock, want, phase, seen, file, outcome, detached, counts>>

\* Mutant of Enforce: what was just written is not told from the rest.
EnforceRetainsNothing(l) ==
  /\ pc[l] = "enforce"
  /\ EnforceLimit({})
  /\ End(l, "downloaded")
  /\ UNCHANGED <<now, detached, counts>>

Enforce(l) ==
  /\ pc[l] = "enforce"
  /\ EnforceLimit(Published(file[l]))
  /\ End(l, "downloaded")
  /\ UNCHANGED <<now, detached, counts>>

\* An error on the way: the partial file is removed, and the current catalog
\* falls back to what the cache holds.
Fail(l) ==
  /\ pc[l] \in {"fetch", "create", "write", "rename", "enforce"}
  /\ IF pc[l] = "enforce" THEN EnforceFails(Published(file[l]))
     ELSE /\ partials' = IF file[l] = None THEN partials ELSE partials \ Unfinished(file[l])
          /\ UNCHANGED cache
  /\ \/ /\ want[l] = "active"
        /\ phase' = [phase EXCEPT ![l] = "stale"]
        /\ file' = [file EXCEPT ![l] = None]
        /\ Goto(l, "look")
        /\ UNCHANGED <<lock, want, seen, outcome>>
     \/ want[l] # "active" /\ End(l, "error")
  /\ UNCHANGED <<now, detached, counts>>
-----------------------------------------------------------------------------
\* The future is dropped, and the file operation it waits for may be under way.
Cancel(l) ==
  /\ pc[l] # "idle" /\ phase[l] # "cached"
  /\ cancels < MaxCancels
  /\ cancels' = cancels + 1
  /\ End(l, "error")
  /\ \/ UNCHANGED detached
     \/ /\ \/ pc[l] \in {"create", "rename", "enforce"}
           \/ pc[l] = "evict" /\ lock[l] = "exclusive"
           \/ pc[l] = "prune" /\ want[l] # "active"
        /\ detached' = detached \cup {[op |-> pc[l], by |-> l, file |-> file[l]]}
  /\ UNCHANGED <<now, disk, loads, reused>>

\* It runs on without the lock, unless it takes the lock itself.
RunDetached(task) ==
  /\ task \in detached
  /\ detached' = detached \ {task}
  /\ \/ task.op = "create" /\ CreatePartial(task.file) /\ UNCHANGED cache
     \/ task.op = "rename" /\ RenamePartial(task.file)
     \/ task.op = "rename" /\ Unfinished(task.file) = {} /\ UNCHANGED disk
     \/ /\ task.op \in {"prune", "evict", "enforce"}
        /\ task.op = "prune" => \A l \in Loaders : lock[l] = "none"
        /\ EnforceLimit(Retained(task.file)) \/ EnforceFails(Retained(task.file))
  /\ UNCHANGED <<now, lock, load, outcome, counts>>

\* The process dies, and what it left running with it; its partial file stays.
Crash(l) ==
  /\ pc[l] # "idle"
  /\ End(l, "none")
  /\ detached' = {task \in detached : task.by # l}
  /\ UNCHANGED <<now, disk, counts>>

Tick ==
  /\ now < MaxTime
  /\ now' = now + 1
  /\ UNCHANGED <<disk, lock, load, outcome, detached, counts>>

Step(l) ==
  \/ Prune(l) \/ LockToEvict(l) \/ Evict(l) \/ PruneCache(l) \/ Lock(l) \/ Look(l)
  \/ Read(l) \/ Missed(l) \/ Fetch(l) \/ Create(l) \/ Write(l) \/ Rename(l)
  \/ Enforce(l) \/ Fail(l)

Next ==
  \/ \E l \in Loaders :
       \/ \E c \in Catalogs, first \in {"fresh", "cached"} : Begin(l, c, first)
       \/ Step(l)
       \/ Refused(l)
       \/ Cancel(l)
       \/ Crash(l)
  \/ \E task \in detached : RunDetached(task)
  \/ Tick

Spec == Init /\ [][Next]_vars

(* A load goes on whenever it can; a lock that is free is given.  The loads *)
(* are finitely many, so weak fairness is enough.                           *)
FairSpec == Spec /\ \A l \in Loaders : WF_vars(Step(l))
-----------------------------------------------------------------------------
(* Everything under a real name is a whole download, whoever failed, died   *)
(* or was cancelled in between (cache.rs:175-177; blocking.rs:18, 28).  Only *)
(* a load that takes, in the same second and the same process, the name a   *)
(* cancelled one is still creating or renaming can have its file emptied or *)
(* published half-written.                                                  *)
SnapshotsAreWhole ==
  \A s \in cache : s.whole \/ \E name \in reused : name.for = s.for /\ name.at = s.at

(* Two processes never download the same thing for want of looking again:   *)
(* the current catalog's snapshots are more than its refresh floor apart,   *)
(* and there is one snapshot an epoch (source.rs:163-170,                   *)
(* history.rs:165-170).                                                     *)
NoNeedlessDownload ==
  cancels = 0 =>
    \A s, t \in cache : s.for = t.for /\ s.at < t.at =>
      s.for = "active" /\ t.at - s.at > MinRefresh

(* A snapshot listed under the lock is still there when it is read: nobody  *)
(* evicts under a reader (cache.rs:3-5).                                    *)
ListedIsStillThere ==
  cancels = 0 => \A l \in Loaders : pc[l] = "read" => seen[l] \subseteq cache

(* A download under way keeps its partial file until it has its real name:  *)
(* the ones removed as abandoned have no writer (cache.rs:3-5, 336-365).    *)
DownloadIsNotDisturbed ==
  \A l \in Loaders :
    pc[l] \in {"write", "rename"} /\ Published(file[l]) = {} => Unfinished(file[l]) # {}

(* What a load just downloaded is in the cache when it returns, however     *)
(* little the ceiling leaves (cache.rs:158-160).                            *)
DownloadedIsKept ==
  [][\A l \in Loaders :
       cancels = 0 /\ pc[l] = "enforce" /\ outcome'[l] = "downloaded" =>
         \E s \in cache' : s.for = file[l].for /\ s.at = file[l].at]_vars

(* The most recent snapshot outlives every eviction (source.rs:69-70).      *)
MostRecentIsKept ==
  [][cache # {} => \E s \in Newest(cache), t \in cache' :
       t.for = s.for /\ t.at = s.at]_vars

(* A load ends: none waits for the exclusive lock with the shared one held, *)
(* and one that dies or is cancelled lets its lock go (source.rs:151-163).  *)
LoadsEnd == \A l \in Loaders : pc[l] # "idle" ~> pc[l] = "idle"
=============================================================================
