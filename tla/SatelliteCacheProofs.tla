------------------------ MODULE SatelliteCacheProofs ------------------------
(***************************************************************************)
(* What holds of the orbital element cache for any number of processes,    *)
(* epochs, loads and cancels, any ceiling and any refresh floor: the types,*)
(* that whoever changes the directory is alone in it, and, until a load is *)
(* cancelled, that no snapshot is downloaded for nothing and none goes     *)
(* under a reader.  Whatever is cancelled, snapshots are whole, but for a  *)
(* name taken twice, and the most recent one outlives every eviction.      *)
(***************************************************************************)
EXTENDS SatelliteCache, WellFoundedInduction, TLAPS

(* What a load's place in the code says of its lock, its phase and its     *)
(* download.                                                               *)
Standing(l) ==
  /\ pc[l] # "idle" => want[l] \in Catalogs /\ outcome[l] = "none"
  /\ pc[l] \in {"idle", "prune", "lock"} => lock[l] = "none"
  /\ pc[l] = "evict" => lock[l] # "shared"
  /\ pc[l] \in {"prune", "evict", "lock"} => phase[l] # "stale"
  /\ pc[l] \in {"look", "read"} =>
       lock[l] = IF phase[l] \in {"fresh", "cached"} THEN "shared" ELSE "exclusive"
  /\ pc[l] \in {"fetch", "create", "write", "rename", "enforce"} =>
       lock[l] = "exclusive" /\ phase[l] = "recheck"
  /\ pc[l] \in {"create", "write", "rename", "enforce"} =>
       file[l] \in Names /\ file[l].for = want[l] /\ file[l].at <= now

(* Whoever holds the exclusive lock holds it alone. *)
Alone ==
  \A l, o \in Loaders : l # o /\ lock[l] = "exclusive" => lock[o] = "none"

(* A file operation left running knows its file. *)
DetachedFiles == \A task \in detached : task.op \in {"create", "rename"} => task.file \in Names

(* The part of the invariant that holds whatever is cancelled. *)
LockInv == TypeOK /\ Alone /\ DetachedFiles /\ \A l \in Loaders : Standing(l)

(* What a load has seen of the directory is so: nobody else changes it.    *)
Sees(l) ==
  /\ pc[l] = "read" => seen[l] \subseteq cache
  /\ pc[l] = "read" /\ phase[l] = "recheck" =>
       \A s \in cache : Suits(l, s) => s \in seen[l]
  /\ pc[l] = "fetch" => \A s \in cache : ~Suits(l, s)
  /\ pc[l] \in {"create", "write", "rename"} =>
       \A s \in cache : s.for = want[l] =>
         want[l] = "active" /\ file[l].at - s.at > MinRefresh
  /\ pc[l] \in {"write", "rename"} => Unfinished(file[l]) # {}
  /\ pc[l] = "rename" => \A p \in Unfinished(file[l]) : p.whole
  /\ pc[l] = "enforce" => Published(file[l]) # {}

(* The part that holds until a load is cancelled. *)
Undisturbed ==
  /\ detached = {}
  /\ \A s \in cache : s.whole /\ s.at <= now
  /\ \A s, t \in cache : s.for = t.for /\ s.at < t.at =>
       s.for = "active" /\ t.at - s.at > MinRefresh
  /\ \A l \in Loaders : Sees(l)

(* The inductive invariant. *)
CacheInv == LockInv /\ (cancels = 0 => Undisturbed)
-----------------------------------------------------------------------------
(* Evicting, in whole or in part, only takes away. *)
LEMMA EvictingRemoves ==
  ASSUME NEW retained, EnforceLimit(retained) \/ EnforceFails(retained)
  PROVE  cache' \subseteq cache /\ partials' \subseteq partials
BY DEF EnforceLimit, EnforceFails, Remaining

(* Types are kept by every step, given where each load stands. *)
LEMMA TypeStep == LockInv /\ [Next]_vars => TypeOK'
<1> SUFFICES ASSUME LockInv, [Next]_vars PROVE TypeOK'
  OBVIOUS
<1> USE CacheAssumption DEF LockInv, TypeOK, Goto, End, disk, load, counts
<1>1. ASSUME NEW l \in Loaders, NEW c \in Catalogs, NEW first \in {"fresh", "cached"},
             Begin(l, c, first)
      PROVE  TypeOK'
  BY <1>1 DEF Begin
<1>2. ASSUME NEW l \in Loaders, Prune(l) \/ LockToEvict(l) \/ Lock(l) \/ Look(l)
      PROVE  TypeOK'
  BY <1>2 DEF Prune, LockToEvict, Lock, Look
<1>3. ASSUME NEW l \in Loaders, Evict(l) \/ PruneCache(l)
      PROVE  TypeOK'
  <2>1. cache' \subseteq cache /\ partials' \subseteq partials
    BY <1>3, EvictingRemoves DEF Evict, PruneCache
  <2> QED BY <1>3, <2>1 DEF Evict, PruneCache
<1>4. ASSUME NEW l \in Loaders, Read(l) PROVE TypeOK'
  BY <1>4 DEF Read, Answer
<1>5. ASSUME NEW l \in Loaders, Missed(l) \/ Refused(l) PROVE TypeOK'
  BY <1>5 DEF Missed, Refused
<1>6. ASSUME NEW l \in Loaders, Fetch(l) PROVE TypeOK'
  <2>1. [for |-> want[l], at |-> now, by |-> l] \in Names
    BY <1>6 DEF Fetch, Standing, Names
  <2>2. reused' \subseteq Names
    BY <1>6, <2>1 DEF Fetch
  <2> QED BY <1>6, <2>1, <2>2 DEF Fetch
<1>7. ASSUME NEW l \in Loaders, Create(l) PROVE TypeOK'
  <2>1. [name |-> file[l], whole |-> FALSE] \in Files
    BY <1>7 DEF Create, Standing, Files
  <2> QED BY <1>7, <2>1 DEF Create, CreatePartial
<1>8. ASSUME NEW l \in Loaders, Write(l) PROVE TypeOK'
  <2>1. partials' \subseteq Files
    BY <1>8 DEF Write, Files
  <2> QED BY <1>8, <2>1 DEF Write
<1>9. ASSUME NEW name \in Names, RenamePartial(name)
      PROVE  cache' \subseteq Snapshots /\ partials' \subseteq Files
  BY <1>9 DEF RenamePartial, Names, Files, Snapshots, Unfinished
<1>10. ASSUME NEW l \in Loaders, Rename(l) PROVE TypeOK'
  <2>1. file[l] \in Names
    BY <1>10 DEF Rename, Standing
  <2> QED BY <1>10, <2>1, <1>9 DEF Rename
<1>11. ASSUME NEW l \in Loaders, Enforce(l) PROVE TypeOK'
  <2>1. cache' \subseteq cache /\ partials' \subseteq partials
    BY <1>11, EvictingRemoves DEF Enforce
  <2> QED BY <1>11, <2>1 DEF Enforce
<1>12. ASSUME NEW l \in Loaders, Fail(l) PROVE TypeOK'
  <2>1. cache' \subseteq cache /\ partials' \subseteq partials
    BY <1>12, EvictingRemoves DEF Fail
  <2> QED BY <1>12, <2>1 DEF Fail
<1>13. ASSUME NEW l \in Loaders, Cancel(l) PROVE TypeOK'
  BY <1>13 DEF Cancel
<1>14. ASSUME NEW l \in Loaders, Crash(l) PROVE TypeOK'
  BY <1>14 DEF Crash
<1>15. ASSUME NEW task \in detached, RunDetached(task) PROVE TypeOK'
  <2>1. CASE task.op = "create" /\ CreatePartial(task.file) /\ UNCHANGED cache
    <3>1. [name |-> task.file, whole |-> FALSE] \in Files
      BY <2>1 DEF DetachedFiles, Files
    <3> QED BY <1>15, <2>1, <3>1 DEF RunDetached, CreatePartial
  <2>2. CASE task.op = "rename" /\ RenamePartial(task.file)
    <3>1. task.file \in Names
      BY <2>2 DEF DetachedFiles
    <3> QED BY <1>15, <2>2, <3>1, <1>9 DEF RunDetached
  <2>3. CASE UNCHANGED disk
    BY <1>15, <2>3 DEF RunDetached
  <2>4. CASE EnforceLimit(Retained(task.file)) \/ EnforceFails(Retained(task.file))
    BY <1>15, <2>4, EvictingRemoves DEF RunDetached
  <2> QED BY <1>15, <2>1, <2>2, <2>3, <2>4 DEF RunDetached
<1>16. CASE Tick
  BY <1>16 DEF Tick
<1>17. CASE UNCHANGED vars
  BY <1>17 DEF vars
<1> QED
  BY <1>1, <1>2, <1>3, <1>4, <1>5, <1>6, <1>7, <1>8, <1>10, <1>11, <1>12, <1>13, <1>14,
     <1>15, <1>16, <1>17 DEF Next, Step

(* The exclusive lock is given to one process at a time, beside no shared one. *)
LEMMA AloneStep == LockInv /\ [Next]_vars => Alone'
<1> SUFFICES ASSUME LockInv, [Next]_vars PROVE Alone'
  OBVIOUS
<1> USE DEF LockInv, TypeOK, Alone
<1>1. ASSUME NEW l \in Loaders, NEW mode \in {"shared", "exclusive"}, Free(l, mode),
             lock' = [lock EXCEPT ![l] = mode]
      PROVE  Alone'
  BY <1>1 DEF Free
<1>2. ASSUME NEW l \in Loaders, lock' = [lock EXCEPT ![l] = "none"]
      PROVE  Alone'
  BY <1>2
<1>3. CASE lock' = lock
  BY <1>3
<1>4. ASSUME NEW l \in Loaders, LockToEvict(l) \/ Lock(l) PROVE Alone'
  BY <1>1, <1>4 DEF LockToEvict, Lock
<1>5. ASSUME NEW l \in Loaders,
             \/ Evict(l) \/ PruneCache(l) \/ Read(l) \/ Missed(l) \/ Refused(l)
             \/ Enforce(l) \/ Fail(l) \/ Cancel(l) \/ Crash(l)
      PROVE  lock' = lock \/ lock' = [lock EXCEPT ![l] = "none"]
  BY <1>5 DEF Evict, PruneCache, Read, Missed, Refused, Enforce, Fail, Cancel, Crash, End
<1>6. ASSUME NEW l \in Loaders,
             \/ \E c \in Catalogs, first \in {"fresh", "cached"} : Begin(l, c, first)
             \/ Prune(l) \/ Look(l) \/ Fetch(l) \/ Create(l) \/ Write(l) \/ Rename(l)
      PROVE  lock' = lock
  BY <1>6 DEF Begin, Prune, Look, Fetch, Create, Write, Rename
<1>7. (\E task \in detached : RunDetached(task)) \/ Tick \/ UNCHANGED vars => lock' = lock
  BY DEF RunDetached, Tick, vars
<1> QED
  BY <1>2, <1>3, <1>4, <1>5, <1>6, <1>7 DEF Next, Step

(* Only a load that has named its download leaves one running. *)
LEMMA DetachedStep == LockInv /\ [Next]_vars => DetachedFiles'
<1> SUFFICES ASSUME LockInv, [Next]_vars PROVE DetachedFiles'
  OBVIOUS
<1> USE DEF LockInv, DetachedFiles
<1>1. CASE detached' \subseteq detached
  BY <1>1
<1>2. ASSUME NEW l \in Loaders, Cancel(l) PROVE DetachedFiles'
  BY <1>2 DEF Cancel, Standing
<1>3. ASSUME NEW l \in Loaders, Step(l) \/ Refused(l) \/ Crash(l)
      PROVE  detached' \subseteq detached
  BY <1>3 DEF Step, Prune, LockToEvict, Evict, PruneCache, Lock, Look, Read, Missed,
     Fetch, Create, Write, Rename, Enforce, Fail, Refused, Crash
<1>4. ASSUME NEW l \in Loaders, NEW c \in Catalogs, NEW first \in {"fresh", "cached"},
             Begin(l, c, first)
      PROVE  detached' \subseteq detached
  BY <1>4 DEF Begin
<1>5. (\E task \in detached : RunDetached(task)) \/ Tick \/ UNCHANGED vars
      => detached' \subseteq detached
  BY DEF RunDetached, Tick, vars
<1> QED
  BY <1>1, <1>2, <1>3, <1>4, <1>5 DEF Next

(* A load's step keeps what its own place says and leaves the others'. *)
LEMMA StandingStep == LockInv /\ [Next]_vars => \A l \in Loaders : Standing(l)'
<1> SUFFICES ASSUME LockInv, [Next]_vars, NEW o \in Loaders PROVE Standing(o)'
  OBVIOUS
<1>o. Standing(o)
  BY DEF LockInv
<1> USE CacheAssumption, <1>o DEF LockInv, TypeOK, Standing, Goto, End, disk, load, counts
<1>1. ASSUME NEW l \in Loaders, NEW c \in Catalogs, NEW first \in {"fresh", "cached"},
             Begin(l, c, first)
      PROVE  Standing(o)'
  BY <1>1 DEF Begin
<1>2. ASSUME NEW l \in Loaders, Prune(l) PROVE Standing(o)'
  BY <1>2 DEF Prune
<1>3. ASSUME NEW l \in Loaders, LockToEvict(l) \/ Look(l) PROVE Standing(o)'
  BY <1>3 DEF LockToEvict, Look
<1>4. ASSUME NEW l \in Loaders, Lock(l) PROVE Standing(o)'
  BY <1>4 DEF Lock
<1>5. ASSUME NEW l \in Loaders, Evict(l) \/ PruneCache(l) PROVE Standing(o)'
  BY <1>5 DEF Evict, PruneCache
<1>6. ASSUME NEW l \in Loaders, Read(l) PROVE Standing(o)'
  BY <1>6 DEF Read
<1>7. ASSUME NEW l \in Loaders, Missed(l) \/ Refused(l) PROVE Standing(o)'
  BY <1>7 DEF Missed, Refused
<1>8. ASSUME NEW l \in Loaders, Fetch(l) PROVE Standing(o)'
  <2>1. [for |-> want[l], at |-> now, by |-> l] \in Names
    BY <1>8 DEF Fetch, Names
  <2> QED BY <1>8, <2>1 DEF Fetch
<1>9. ASSUME NEW l \in Loaders, Create(l) \/ Write(l) \/ Rename(l) PROVE Standing(o)'
  BY <1>9 DEF Create, Write, Rename
<1>10. ASSUME NEW l \in Loaders, Enforce(l) PROVE Standing(o)'
  BY <1>10 DEF Enforce
<1>11. ASSUME NEW l \in Loaders, Fail(l) PROVE Standing(o)'
  BY <1>11 DEF Fail
<1>12. ASSUME NEW l \in Loaders, Cancel(l) \/ Crash(l) PROVE Standing(o)'
  BY <1>12 DEF Cancel, Crash
<1>13. ASSUME NEW task \in detached, RunDetached(task) PROVE Standing(o)'
  BY <1>13 DEF RunDetached
<1>14. CASE Tick
  BY <1>14 DEF Tick, Names
<1>15. CASE UNCHANGED vars
  BY <1>15 DEF vars
<1> QED
  BY <1>1, <1>2, <1>3, <1>4, <1>5, <1>6, <1>7, <1>8, <1>9, <1>10, <1>11, <1>12, <1>13,
     <1>14, <1>15 DEF Next, Step

LEMMA LockInvInit == Init => LockInv
BY CacheAssumption DEF Init, LockInv, TypeOK, Alone, DetachedFiles, Standing

LEMMA LockInvStep == LockInv /\ [Next]_vars => LockInv'
BY TypeStep, AloneStep, DetachedStep, StandingStep DEF LockInv
-----------------------------------------------------------------------------
(* Until a load is cancelled. *)

(* Nobody else holds a lock while a load changes the directory. *)
LEMMA ChangesAlone ==
  ASSUME CacheInv, NEW l \in Loaders,
         \/ Evict(l) \/ PruneCache(l) \/ Create(l) \/ Write(l) \/ Rename(l)
         \/ Enforce(l) \/ Fail(l)
  PROVE  \A o \in Loaders \ {l} : lock[o] = "none"
BY DEF CacheInv, LockInv, TypeOK, Alone, Standing, Evict, PruneCache, Create, Write, Rename,
   Enforce, Fail, Free

(* Nothing runs on that nobody waits for. *)
LEMMA DetachedEmpty ==
  ASSUME CacheInv, [Next]_vars, cancels' = 0
  PROVE  cancels = 0 /\ Undisturbed /\ detached' = {}
<1>1. cancels = 0 /\ ~\E l \in Loaders : Cancel(l)
  <2>1. ASSUME NEW l \in Loaders, Cancel(l) PROVE FALSE
    BY <2>1 DEF Cancel, CacheInv, LockInv, TypeOK
  <2> QED
    BY <2>1 DEF Next, Begin, Step, Prune, LockToEvict, Evict, PruneCache, Lock, Look, Read,
       Missed, Fetch, Create, Write, Rename, Enforce, Fail, Refused, Crash, RunDetached, Tick,
       vars, counts
<1>2. Undisturbed /\ detached = {}
  BY <1>1 DEF CacheInv, Undisturbed
<1>3. ASSUME NEW l \in Loaders, Step(l) \/ Refused(l) \/ Crash(l)
      PROVE  detached' \subseteq detached
  BY <1>3 DEF Step, Prune, LockToEvict, Evict, PruneCache, Lock, Look, Read, Missed,
     Fetch, Create, Write, Rename, Enforce, Fail, Refused, Crash
<1> QED
  BY <1>1, <1>2, <1>3 DEF Next, Begin, Tick, vars

(* Only a rename brings a snapshot, and it brings a whole one, late enough. *)
LEMMA SnapshotsStep ==
  ASSUME CacheInv, [Next]_vars, cancels' = 0
  PROVE  /\ \A s \in cache' : s.whole /\ s.at <= now'
         /\ \A s, t \in cache' : s.for = t.for /\ s.at < t.at =>
              s.for = "active" /\ t.at - s.at > MinRefresh
<1> DEFINE Good == /\ \A s \in cache' : s.whole /\ s.at <= now'
                   /\ \A s, t \in cache' : s.for = t.for /\ s.at < t.at =>
                        s.for = "active" /\ t.at - s.at > MinRefresh
<1>1. Undisturbed /\ detached = {}
  BY DetachedEmpty DEF Undisturbed
<1>2. ASSUME cache' \subseteq cache, now' = now \/ now' = now + 1 PROVE Good
  BY <1>1, <1>2 DEF Undisturbed, CacheInv, LockInv, TypeOK, Snapshots
<1>3. ASSUME NEW l \in Loaders, Rename(l) PROVE Good
  <2>1. /\ file[l] \in Names /\ file[l].for = want[l] /\ file[l].at <= now
        /\ pc[l] = "rename" /\ now' = now
    BY <1>3 DEF Rename, CacheInv, LockInv, Standing
  <2>2. PICK p \in Unfinished(file[l]) :
          cache' = (cache \ Published(file[l])) \cup
            {[for |-> file[l].for, at |-> file[l].at, whole |-> p.whole]}
    BY <1>3 DEF Rename, RenamePartial
  <2>3. p.whole /\ \A s \in cache : s.for = file[l].for =>
          file[l].for = "active" /\ file[l].at - s.at > MinRefresh
    BY <1>1, <2>1, <2>2 DEF Undisturbed, Sees
  <2>4. cache \subseteq Snapshots /\ MinRefresh \in Nat
    BY CacheAssumption DEF CacheInv, LockInv, TypeOK
  <2>5. file[l].at \in Nat /\ \A s \in cache : s.at \in Nat
    BY <2>1, <2>4 DEF Snapshots, Names
  <2> DEFINE new == [for |-> file[l].for, at |-> file[l].at, whole |-> p.whole]
  <2>6. new.for = file[l].for /\ new.at = file[l].at /\ new.whole
    BY <2>3
  <2>7. \A s \in cache' : s \in cache \/ s = new
    BY <2>2
  <2> HIDE DEF new
  <2>8. \A s \in cache' : s.whole /\ s.at <= now'
    BY <1>1, <2>1, <2>6, <2>7 DEF Undisturbed
  <2>9. ASSUME NEW s \in cache', NEW t \in cache', s.for = t.for, s.at < t.at
        PROVE  s.for = "active" /\ t.at - s.at > MinRefresh
    BY <1>1, <2>3, <2>4, <2>5, <2>6, <2>7, <2>9 DEF Undisturbed
  <2> QED BY <2>8, <2>9
<1>4. ASSUME NEW l \in Loaders, Evict(l) \/ PruneCache(l) \/ Enforce(l) \/ Fail(l)
      PROVE  cache' \subseteq cache /\ now' = now
  BY <1>4, EvictingRemoves DEF Evict, PruneCache, Enforce, Fail
<1>5. ASSUME NEW l \in Loaders,
             \/ \E c \in Catalogs, first \in {"fresh", "cached"} : Begin(l, c, first)
             \/ Prune(l) \/ LockToEvict(l) \/ Lock(l) \/ Look(l) \/ Read(l) \/ Missed(l)
             \/ Fetch(l) \/ Create(l) \/ Write(l) \/ Refused(l) \/ Cancel(l) \/ Crash(l)
      PROVE  cache' = cache /\ now' = now
  BY <1>5 DEF Begin, Prune, LockToEvict, Lock, Look, Read, Missed, Fetch, Create, Write,
     Refused, Cancel, Crash, disk
<1>6. Tick \/ UNCHANGED vars => cache' = cache /\ (now' = now \/ now' = now + 1)
  BY DEF Tick, vars, disk
<1> QED
  BY <1>1, <1>2, <1>3, <1>4, <1>5, <1>6 DEF Next, Step

(* What a load has seen stays so while it goes on: whoever changes the      *)
(* directory meanwhile is the load itself.                                  *)
LEMMA SeesStep ==
  ASSUME CacheInv, [Next]_vars, cancels' = 0, NEW o \in Loaders
  PROVE  Sees(o)'
<1>i. Undisturbed /\ detached = {} /\ Sees(o)
  BY DetachedEmpty DEF Undisturbed
<1>t. LockInv /\ TypeOK /\ Standing(o) /\ Standing(o)'
  BY LockInvStep DEF CacheInv, LockInv
<1>w. \A s \in cache : s.whole
  BY <1>i DEF Undisturbed
<1> DEFINE Own(l) == UNCHANGED <<pc[l], lock[l], want[l], phase[l], seen[l], file[l]>>
<1>0. ASSUME Own(o), UNCHANGED <<now, disk>> PROVE Sees(o)'
  BY <1>i, <1>0 DEF Sees, Suits, Unfinished, Published, disk
<1>1. ASSUME lock'[o] = "none" PROVE Sees(o)'
  BY <1>t, <1>1 DEF Sees, Standing, TypeOK
<1>2. ASSUME NEW l \in Loaders, l # o, Step(l) \/ Refused(l) \/ Crash(l)
      PROVE  Sees(o)'
  <2>1. Own(o)
    BY <1>t, <1>2 DEF TypeOK, Step, Prune, LockToEvict, Evict, PruneCache, Lock, Look, Read,
       Missed, Fetch, Create, Write, Rename, Enforce, Fail, Refused, Crash, End, Goto, load
  <2>2. CASE \/ Evict(l) \/ PruneCache(l) \/ Create(l) \/ Write(l) \/ Rename(l)
             \/ Enforce(l) \/ Fail(l)
    BY <1>1, <1>2, <2>1, <2>2, ChangesAlone
  <2>3. CASE \/ Prune(l) \/ LockToEvict(l) \/ Lock(l) \/ Look(l) \/ Read(l) \/ Missed(l)
             \/ Fetch(l) \/ Refused(l) \/ Crash(l)
    BY <1>0, <2>1, <2>3 DEF Prune, LockToEvict, Lock, Look, Read, Missed, Fetch, Refused, Crash
  <2> QED BY <1>2, <2>2, <2>3 DEF Step
<1>3. ASSUME NEW l \in Loaders, NEW c \in Catalogs, NEW first \in {"fresh", "cached"},
             Begin(l, c, first)
      PROVE  Sees(o)'
  <2>1. CASE l = o
    BY <1>t, <1>3, <2>1 DEF Begin, Goto, Sees, TypeOK
  <2>2. CASE l # o
    BY <1>t, <1>3, <2>2, <1>0 DEF Begin, Goto, TypeOK
  <2> QED BY <2>1, <2>2
<1>4. CASE Prune(o) \/ LockToEvict(o) \/ Evict(o) \/ PruneCache(o) \/ Lock(o) \/ Enforce(o)
           \/ Refused(o) \/ Crash(o)
  <2>1. pc'[o] \in {"lock", "evict", "look", "idle"}
    BY <1>t, <1>4 DEF TypeOK, Prune, LockToEvict, Evict, PruneCache, Lock, Enforce, Refused,
       Crash, End, Goto, load
  <2> QED BY <2>1 DEF Sees
<1>5. CASE Fail(o)
  <2>1. pc'[o] \in {"look", "idle"}
    BY <1>t, <1>5 DEF TypeOK, Fail, End, Goto
  <2> QED BY <2>1 DEF Sees
<1>6. CASE Look(o)
  BY <1>t, <1>6 DEF TypeOK, Look, Goto, Sees, Suits, disk
<1>7. CASE Read(o)
  <2>1. pc[o] = "read" /\ seen[o] \subseteq cache
    BY <1>i, <1>7 DEF Read, Sees
  <2>2. Newest(seen[o]) \subseteq seen[o]
    BY DEF Newest
  <2>3. pc'[o] = "idle"
    BY <1>t, <1>w, <1>7, <2>1, <2>2 DEF TypeOK, Read, End, Goto
  <2> QED BY <2>3 DEF Sees
<1>8. CASE Missed(o)
  <2>1. \/ pc[o] = "read" /\ seen[o] = {} /\ cache' = cache /\ now' = now /\ want' = want
        \/ pc'[o] = "idle"
    BY <1>t, <1>8 DEF TypeOK, Missed, End, Goto, disk
  <2>2. pc'[o] \in {"idle", "lock"} \/ (phase[o] = "recheck" /\ phase' = phase /\ pc'[o] = "fetch")
    BY <1>t, <1>8 DEF TypeOK, Missed, End, Goto
  <2> QED BY <1>i, <2>1, <2>2 DEF Sees, Suits
<1>9. CASE Fetch(o)
  <2>1. \A s \in cache : s.for = want[o] => want[o] = "active" /\ now - s.at > MinRefresh
    <3>1. ASSUME NEW s \in cache, s.for = want[o]
          PROVE  want[o] = "active" /\ ~(now - s.at <= MinRefresh)
      BY <1>i, <1>9, <3>1 DEF Fetch, Sees, Suits
    <3>2. \A s \in cache : s.at \in Int /\ now \in Int /\ MinRefresh \in Int
      BY <1>t, CacheAssumption DEF TypeOK, Snapshots
    <3> QED BY <3>1, <3>2
  <2>2. /\ pc'[o] = "create" /\ file'[o].at = now /\ want'[o] = want[o] /\ cache' = cache
    BY <1>t, <1>9 DEF TypeOK, Fetch, Goto, disk
  <2> QED BY <2>1, <2>2 DEF Sees
<1>10. CASE Create(o)
  <2>1. /\ pc'[o] = "write" /\ cache' = cache /\ want' = want /\ file' = file
        /\ pc[o] = "create"
        /\ [name |-> file[o], whole |-> FALSE] \in partials'
    BY <1>t, <1>10 DEF TypeOK, Create, CreatePartial, Goto
  <2>2. Unfinished(file[o])' # {}
    BY <2>1 DEF Unfinished
  <2> QED BY <1>i, <2>1, <2>2 DEF Sees
<1>11. CASE Write(o)
  <2>1. /\ pc'[o] = "rename" /\ cache' = cache /\ want' = want /\ file' = file
        /\ pc[o] = "write"
    BY <1>t, <1>11 DEF TypeOK, Write, Goto
  <2>2. PICK p \in partials : p.name = file[o]
    BY <1>i, <2>1 DEF Sees, Unfinished
  <2>3. \A q \in partials : /\ [q EXCEPT !.whole = TRUE].name = q.name
                            /\ [q EXCEPT !.whole = TRUE].whole
    BY <1>t DEF TypeOK, Files
  <2>4. partials' = {IF q.name = file[o] THEN [q EXCEPT !.whole = TRUE] ELSE q : q \in partials}
    BY <1>11 DEF Write
  <2>5. [p EXCEPT !.whole = TRUE] \in partials'
    BY <2>2, <2>4
  <2>6. \A q \in partials' : q.name = file[o] => q.whole
    BY <2>3, <2>4
  <2>7. Unfinished(file[o])' # {} /\ \A q \in Unfinished(file[o])' : q.whole
    BY <2>1, <2>2, <2>3, <2>5, <2>6 DEF Unfinished
  <2> QED BY <1>i, <2>1, <2>7 DEF Sees
<1>12. CASE Rename(o)
  <2>1. /\ pc'[o] = "enforce" /\ file' = file /\ file[o] \in Names
    BY <1>t, <1>12 DEF TypeOK, Rename, Goto, Standing
  <2>2. PICK p \in Unfinished(file[o]) :
          [for |-> file[o].for, at |-> file[o].at, whole |-> p.whole] \in cache'
    BY <1>12 DEF Rename, RenamePartial
  <2>3. Published(file[o])' # {}
    BY <2>1, <2>2 DEF Published
  <2> QED BY <2>1, <2>3 DEF Sees
<1>13. CASE Tick
  <2>1. /\ \A s \in cache : s.at \in Int
        /\ now \in Int /\ MinRefresh \in Int
    BY <1>t, CacheAssumption DEF TypeOK, Snapshots
  <2>2. \A s \in cache : Suits(o, s)' => Suits(o, s)
    BY <1>13, <2>1 DEF Tick, Suits, load
  <2> QED BY <1>i, <1>13, <2>2 DEF Tick, Sees, Unfinished, Published, disk, load
<1>14. ASSUME NEW l \in Loaders, Cancel(l) PROVE FALSE
  BY <1>t, <1>14, DetachedEmpty DEF Cancel
<1>15. CASE UNCHANGED vars
  BY <1>0, <1>15 DEF vars, load
<1> QED
  BY <1>i, <1>2, <1>3, <1>4, <1>5, <1>6, <1>7, <1>8, <1>9, <1>10, <1>11, <1>12, <1>13,
     <1>14, <1>15 DEF Next, Step

LEMMA CacheInvInit == Init => CacheInv
BY LockInvInit DEF Init, CacheInv, Undisturbed, Sees

LEMMA CacheInvStep == CacheInv /\ [Next]_vars => CacheInv'
<1> SUFFICES ASSUME CacheInv, [Next]_vars PROVE CacheInv'
  OBVIOUS
<1>1. LockInv'
  BY LockInvStep DEF CacheInv
<1>2. ASSUME cancels' = 0 PROVE Undisturbed'
  BY <1>2, DetachedEmpty, SnapshotsStep, SeesStep DEF Undisturbed
<1> QED BY <1>1, <1>2 DEF CacheInv

(* Locks, loads and the directory fit together between any two file        *)
(* operations of any processes (source.rs:120-215, cache.rs:120-240).       *)
THEOREM CacheInvariant == Spec => []CacheInv
BY CacheInvInit, CacheInvStep, PTL DEF Spec

(* Every variable keeps its type. *)
THEOREM TypeCorrect == Spec => []TypeOK
<1>1. CacheInv => TypeOK
  BY DEF CacheInv, LockInv
<1> QED BY <1>1, CacheInvariant, PTL

(* Looking again under the exclusive lock is enough: no snapshot within the *)
(* refresh floor of another, no second one of an epoch (source.rs:163-170). *)
THEOREM DownloadsAreNeeded == Spec => []NoNeedlessDownload
<1>1. CacheInv => NoNeedlessDownload
  BY DEF CacheInv, Undisturbed, NoNeedlessDownload
<1> QED BY <1>1, CacheInvariant, PTL

(* The shared lock keeps what a reader listed (cache.rs:3-5). *)
THEOREM ReadersKeepTheirSnapshots == Spec => []ListedIsStillThere
<1>1. CacheInv => ListedIsStillThere
  BY DEF CacheInv, Undisturbed, Sees, ListedIsStillThere
<1> QED BY <1>1, CacheInvariant, PTL

(* Only what a cancelled load left running takes a download's partial file  *)
(* away: the disturbance the cancelled run shows has no other cause         *)
(* (cache.rs:336-365).                                                      *)
THEOREM OnlyCancelsDisturb == Spec => [](cancels = 0 => DownloadIsNotDisturbed)
<1>1. CacheInv => (cancels = 0 => DownloadIsNotDisturbed)
  BY DEF CacheInv, Undisturbed, Sees, DownloadIsNotDisturbed
<1> QED BY <1>1, CacheInvariant, PTL
-----------------------------------------------------------------------------
(* Whatever is cancelled. *)

(* The names loads are at work on, and those of the file operations left    *)
(* running: each of its process, and one of both is taken again.            *)
AtWork(l) == pc[l] \in {"create", "write", "rename", "enforce"}
Left(task) == task.op \in Making

OwnNames ==
  /\ \A l \in Loaders : AtWork(l) => file[l].by = l
  /\ \A task \in detached : Left(task) => task.file.by = task.by

TakenAgain ==
  /\ \A l \in Loaders, task \in detached :
       AtWork(l) /\ Left(task) /\ task.file = file[l] => file[l] \in reused
  /\ \A t, u \in detached :
       t.op = "create" /\ u.op = "rename" /\ t.file = u.file => t.file \in reused

(* What a rename would publish is whole, unless its name was taken again.   *)
Ready(name) == \A p \in Unfinished(name) : p.whole \/ name \in reused

WholeInv ==
  /\ OwnNames
  /\ TakenAgain
  /\ \A l \in Loaders : pc[l] = "rename" => Ready(file[l])
  /\ \A task \in detached : task.op = "rename" => Ready(task.file)
  /\ SnapshotsAreWhole

(* Everything a step may do to the partial files of a name that is ready:   *)
(* nothing, take them away, write them out, or begin one taken again.       *)
LEMMA ReadyStays ==
  ASSUME NEW name, Ready(name), reused \subseteq reused',
         \A p \in partials' : p.name = name =>
           p.whole \/ p \in partials \/ name \in reused'
  PROVE  Ready(name)'
BY DEF Ready, Unfinished

(* A rename publishes a whole file, unless its name was taken again. *)
LEMMA RenameIsReady ==
  ASSUME NEW name, Ready(name), RenamePartial(name), SnapshotsAreWhole,
         UNCHANGED reused
  PROVE  SnapshotsAreWhole'
<1>1. PICK p \in Unfinished(name) :
        cache' = (cache \ Published(name)) \cup
          {[for |-> name.for, at |-> name.at, whole |-> p.whole]}
  BY DEF RenamePartial
<1> DEFINE new == [for |-> name.for, at |-> name.at, whole |-> p.whole]
<1>2. new.for = name.for /\ new.at = name.at /\ new.whole = p.whole
  OBVIOUS
<1>3. \A s \in cache' : s \in cache \/ s = new
  BY <1>1
<1> HIDE DEF new
<1> QED BY <1>2, <1>3 DEF SnapshotsAreWhole, Ready

LEMMA WholeInvInit == Init => WholeInv
BY DEF Init, WholeInv, OwnNames, TakenAgain, AtWork, SnapshotsAreWhole

(* Names are taken by downloads alone, and left by cancels alone.           *)
LEMMA NamesStep ==
  ASSUME LockInv, WholeInv, [Next]_vars
  PROVE  OwnNames' /\ TakenAgain' /\ reused \subseteq reused'
<1> DEFINE Good == OwnNames' /\ TakenAgain' /\ reused \subseteq reused'
<1> USE DEF LockInv, WholeInv, OwnNames, TakenAgain, AtWork, Left, Making, Goto, End, load,
    counts
<1>t. TypeOK
  OBVIOUS
<1>1. ASSUME NEW l \in Loaders, NEW c \in Catalogs, NEW first \in {"fresh", "cached"},
             Begin(l, c, first)
      PROVE  Good
  BY <1>t, <1>1 DEF Begin, TypeOK
<1>2. ASSUME NEW l \in Loaders,
             \/ Prune(l) \/ LockToEvict(l) \/ Evict(l) \/ PruneCache(l) \/ Lock(l) \/ Look(l)
             \/ Read(l) \/ Missed(l) \/ Refused(l) \/ Enforce(l) \/ Fail(l) \/ Crash(l)
      PROVE  Good
  <2>1. /\ detached' \subseteq detached /\ UNCHANGED reused
        /\ \A o \in Loaders : AtWork(o)' => AtWork(o) /\ file'[o] = file[o]
    BY <1>t, <1>2 DEF Prune, LockToEvict, Evict, PruneCache, Lock, Look, Read, Missed,
       Refused, Enforce, Fail, Crash, TypeOK
  <2> QED BY <2>1
<1>3. ASSUME NEW l \in Loaders, Create(l) \/ Write(l) \/ Rename(l) PROVE Good
  BY <1>t, <1>3 DEF Create, Write, Rename, TypeOK
<1>4. ASSUME NEW l \in Loaders, Fetch(l) PROVE Good
  <2> DEFINE name == [for |-> want[l], at |-> now, by |-> l]
  <2>1. /\ UNCHANGED detached
        /\ file' = [file EXCEPT ![l] = name]
        /\ pc' = [pc EXCEPT ![l] = "create"]
        /\ reused' = reused \cup
             {task.file : task \in {t \in detached : t.op \in Making /\ t.file = name}}
    BY <1>4 DEF Fetch
  <2>2. name.by = l
    OBVIOUS
  <2> HIDE DEF name
  <2>3. \A task \in detached : Left(task) /\ task.file = name => name \in reused'
    BY <2>1
  <2>4. /\ file'[l] = name
        /\ \A o \in Loaders \ {l} : file'[o] = file[o] /\ pc'[o] = pc[o]
    BY <1>t, <2>1 DEF TypeOK
  <2>5. OwnNames'
    BY <2>1, <2>2, <2>4
  <2>6. reused \subseteq reused'
    BY <2>1
  <2>7. TakenAgain'
    BY <2>1, <2>3, <2>4, <2>6
  <2> QED BY <2>5, <2>6, <2>7
<1>5. ASSUME NEW l \in Loaders, Cancel(l) PROVE Good
  <2> DEFINE left == [op |-> pc[l], by |-> l, file |-> file[l]]
  <2>1. /\ UNCHANGED reused
        /\ pc' = [pc EXCEPT ![l] = "idle"] /\ file' = [file EXCEPT ![l] = None]
        /\ detached' \subseteq detached \cup {left}
    BY <1>5 DEF Cancel
  <2>2. left.op = pc[l] /\ left.by = l /\ left.file = file[l]
    OBVIOUS
  <2> HIDE DEF left
  <2>3. \A o \in Loaders : AtWork(o)' => AtWork(o) /\ file'[o] = file[o] /\ o # l
    BY <1>t, <2>1 DEF TypeOK
  <2>4. OwnNames'
    BY <2>1, <2>2, <2>3
  <2>5. ASSUME NEW o \in Loaders, NEW task \in detached', AtWork(o)', Left(task),
               task.file = file'[o]
        PROVE  file'[o] \in reused
    BY <2>1, <2>2, <2>3, <2>5
  <2>6. ASSUME NEW t \in detached', NEW u \in detached', t.op = "create",
               u.op = "rename", t.file = u.file
        PROVE  t.file \in reused
    BY <2>1, <2>2, <2>6
  <2> QED BY <2>1, <2>4, <2>5, <2>6
<1>6. ASSUME NEW task \in detached, RunDetached(task) PROVE Good
  BY <1>6 DEF RunDetached
<1>7. CASE Tick
  BY <1>7 DEF Tick
<1>8. CASE UNCHANGED vars
  BY <1>8 DEF vars
<1> QED BY <1>1, <1>2, <1>3, <1>4, <1>5, <1>6, <1>7, <1>8 DEF Next, Step

(* What is half-written is not renamed, unless its name was taken again.    *)
LEMMA WholeStep ==
  ASSUME LockInv, WholeInv, [Next]_vars
  PROVE  /\ (\A l \in Loaders : pc[l] = "rename" => Ready(file[l]))'
         /\ (\A task \in detached : task.op = "rename" => Ready(task.file))'
         /\ SnapshotsAreWhole'
<1> DEFINE Good == /\ (\A l \in Loaders : pc[l] = "rename" => Ready(file[l]))'
                   /\ (\A task \in detached : task.op = "rename" => Ready(task.file))'
                   /\ SnapshotsAreWhole'
<1>n. OwnNames' /\ TakenAgain' /\ reused \subseteq reused'
  BY NamesStep
<1>t. TypeOK /\ DetachedFiles /\ OwnNames /\ TakenAgain
  BY DEF LockInv, WholeInv
\* The partial files are as they were, or fewer.
<1>0. ASSUME partials' \subseteq partials,
             \A l \in Loaders : pc'[l] = "rename" => pc[l] = "rename" /\ file'[l] = file[l],
             \A task \in detached' : task.op = "rename" =>
               task \in detached \/ \E l \in Loaders : pc[l] = "rename" /\ task.file = file[l],
             SnapshotsAreWhole'
      PROVE  Good
  BY <1>n, <1>0 DEF WholeInv, Ready, Unfinished
<1>s. cache' \subseteq cache => SnapshotsAreWhole'
  BY <1>n DEF WholeInv, SnapshotsAreWhole
<1> USE DEF Goto, End, load, disk, counts
<1>1. ASSUME NEW l \in Loaders, NEW c \in Catalogs, NEW first \in {"fresh", "cached"},
             Begin(l, c, first)
      PROVE  Good
  BY <1>0, <1>s, <1>t, <1>1 DEF Begin, TypeOK
<1>2. ASSUME NEW l \in Loaders,
             \/ Prune(l) \/ LockToEvict(l) \/ Lock(l) \/ Look(l)
             \/ Read(l) \/ Missed(l) \/ Refused(l) \/ Fetch(l) \/ Crash(l)
      PROVE  Good
  <2>1. /\ UNCHANGED disk /\ detached' \subseteq detached
        /\ \A o \in Loaders : pc'[o] = "rename" => pc[o] = "rename" /\ file'[o] = file[o]
    BY <1>t, <1>2 DEF Prune, LockToEvict, Lock, Look, Read, Missed, Refused, Fetch, Crash,
       TypeOK
  <2> QED BY <1>0, <1>s, <2>1
<1>3. ASSUME NEW l \in Loaders, Evict(l) \/ PruneCache(l) \/ Enforce(l) \/ Fail(l)
      PROVE  Good
  <2>1. cache' \subseteq cache /\ partials' \subseteq partials
    BY <1>3, EvictingRemoves DEF Evict, PruneCache, Enforce, Fail
  <2>2. /\ detached' \subseteq detached
        /\ \A o \in Loaders : pc'[o] = "rename" => pc[o] = "rename" /\ file'[o] = file[o]
    BY <1>t, <1>3 DEF Evict, PruneCache, Enforce, Fail, TypeOK
  <2> QED BY <1>0, <1>s, <2>1, <2>2
\* A file begun has a name that is nobody's to rename, or one taken again.
<1>4. ASSUME NEW name, CreatePartial(name),
             \A o \in Loaders : pc'[o] = "rename" => pc[o] = "rename" /\ file'[o] = file[o],
             detached' \subseteq detached, UNCHANGED <<cache, reused>>,
             \A o \in Loaders : pc[o] = "rename" /\ file[o] = name => name \in reused,
             \A task \in detached : task.op = "rename" /\ task.file = name => name \in reused
      PROVE  Good
  <2>1. \A p \in partials' : p \in partials \/ p = [name |-> name, whole |-> FALSE]
    BY <1>4 DEF CreatePartial
  <2>2. \A p \in partials' : p \in partials \/ p.name = name
    BY <2>1
  <2>3. ASSUME NEW other, Ready(other), other = name => name \in reused
        PROVE  Ready(other)'
    BY <1>4, <2>2, <2>3, ReadyStays
  <2> QED BY <1>4, <1>s, <2>3 DEF WholeInv
<1>5. ASSUME NEW l \in Loaders, Create(l) PROVE Good
  <2>1. /\ CreatePartial(file[l]) /\ pc[l] = "create" /\ UNCHANGED <<file, cache, reused, detached>>
        /\ pc' = [pc EXCEPT ![l] = "write"]
    BY <1>5 DEF Create
  <2>2. \A o \in Loaders : pc[o] = "rename" => file[o] # file[l]
    BY <1>t, <2>1 DEF OwnNames, AtWork
  <2>3. \A task \in detached : task.op = "rename" /\ task.file = file[l] => file[l] \in reused
    BY <1>t, <2>1 DEF TakenAgain, AtWork, Left, Making
  <2>4. \A o \in Loaders : pc'[o] = "rename" => pc[o] = "rename" /\ file'[o] = file[o]
    BY <1>t, <2>1 DEF TypeOK
  <2> QED BY <1>4, <2>1, <2>2, <2>3, <2>4
<1>6. ASSUME NEW l \in Loaders, Write(l) PROVE Good
  <2>1. /\ partials' = {IF p.name = file[l] THEN [p EXCEPT !.whole = TRUE] ELSE p : p \in partials}
        /\ UNCHANGED <<file, cache, reused, detached>>
        /\ pc' = [pc EXCEPT ![l] = "rename"]
    BY <1>6 DEF Write
  <2>2. \A p \in partials : /\ [p EXCEPT !.whole = TRUE].name = p.name
                            /\ [p EXCEPT !.whole = TRUE].whole
    BY <1>t DEF TypeOK, Files
  <2>3. \A p \in partials' : /\ p.whole \/ p \in partials
                             /\ p.name = file[l] => p.whole
    BY <2>1, <2>2
  <2>4. Ready(file[l])'
    BY <2>1, <2>3 DEF Ready, Unfinished
  <2>5. ASSUME NEW name, Ready(name) PROVE Ready(name)'
    BY <1>n, <2>3, <2>5, ReadyStays
  <2>6. \A o \in Loaders : pc'[o] = "rename" => o = l \/ pc[o] = "rename"
    BY <1>t, <2>1 DEF TypeOK
  <2> QED BY <1>s, <2>1, <2>4, <2>5, <2>6 DEF WholeInv
<1>7. ASSUME NEW l \in Loaders, Rename(l) PROVE Good
  <2>1. /\ RenamePartial(file[l]) /\ Ready(file[l]) /\ UNCHANGED <<file, reused, detached>>
        /\ pc' = [pc EXCEPT ![l] = "enforce"]
    BY <1>7 DEF Rename, WholeInv
  <2>2. SnapshotsAreWhole' /\ partials' \subseteq partials
    BY <2>1, RenameIsReady DEF WholeInv, RenamePartial
  <2>3. \A o \in Loaders : pc'[o] = "rename" => pc[o] = "rename" /\ file'[o] = file[o]
    BY <1>t, <2>1 DEF TypeOK
  <2> QED BY <1>0, <2>1, <2>2, <2>3
<1>8. ASSUME NEW l \in Loaders, Cancel(l) PROVE Good
  <2>1. /\ UNCHANGED <<disk, reused>>
        /\ pc' = [pc EXCEPT ![l] = "idle"]  /\ file' = [file EXCEPT ![l] = None]
        /\ detached' \subseteq detached \cup {[op |-> pc[l], by |-> l, file |-> file[l]]}
    BY <1>8 DEF Cancel
  <2>2. \A task \in detached' : task \in detached \/ (task.op = pc[l] /\ task.file = file[l])
    BY <2>1
  <2>3. \A o \in Loaders : pc'[o] = "rename" => pc[o] = "rename" /\ file'[o] = file[o]
    BY <1>t, <2>1 DEF TypeOK
  <2> QED BY <1>0, <1>s, <2>1, <2>2, <2>3
<1>9. ASSUME NEW task \in detached, RunDetached(task) PROVE Good
  <2>1. /\ detached' \subseteq detached /\ UNCHANGED reused
        /\ \A o \in Loaders : pc'[o] = pc[o] /\ file'[o] = file[o]
    BY <1>9 DEF RunDetached
  <2>2. CASE task.op = "create" /\ CreatePartial(task.file) /\ UNCHANGED cache
    <3>1. \A o \in Loaders : pc[o] = "rename" /\ file[o] = task.file => task.file \in reused
      BY <1>t, <2>2 DEF TakenAgain, AtWork, Left, Making
    <3>2. \A u \in detached : u.op = "rename" /\ u.file = task.file => task.file \in reused
      BY <1>t, <2>2 DEF TakenAgain
    <3> QED BY <1>4, <2>1, <2>2, <3>1, <3>2
  <2>3. CASE task.op = "rename" /\ RenamePartial(task.file)
    <3>1. SnapshotsAreWhole' /\ partials' \subseteq partials
      BY <2>1, <2>3, RenameIsReady DEF WholeInv, RenamePartial
    <3> QED BY <1>0, <2>1, <3>1
  <2>4. CASE UNCHANGED disk
    BY <1>0, <1>s, <2>1, <2>4
  <2>5. CASE EnforceLimit(Retained(task.file)) \/ EnforceFails(Retained(task.file))
    BY <1>0, <1>s, <2>1, <2>5, EvictingRemoves
  <2> QED BY <1>9, <2>2, <2>3, <2>4, <2>5 DEF RunDetached
<1>10. CASE Tick \/ UNCHANGED vars
  BY <1>0, <1>s, <1>10 DEF Tick, vars
<1> QED BY <1>1, <1>2, <1>3, <1>5, <1>6, <1>7, <1>8, <1>9, <1>10 DEF Next, Step

LEMMA WholeInvStep == LockInv /\ WholeInv /\ [Next]_vars => WholeInv'
BY NamesStep, WholeStep DEF WholeInv

(* A snapshot under a real name is a whole download, whatever fails, dies   *)
(* or is cancelled, unless a load took the name of a file operation a       *)
(* cancelled one left running (cache.rs:175-177; blocking.rs:18, 28).       *)
THEOREM RealNamesAreWhole == Spec => []SnapshotsAreWhole
<1>1. WholeInv => SnapshotsAreWhole
  BY DEF WholeInv
<1>2. CacheInv => LockInv
  BY DEF CacheInv
<1> QED BY <1>1, <1>2, CacheInvariant, WholeInvInit, WholeInvStep, PTL DEF Spec
-----------------------------------------------------------------------------
(* What evictions spare. *)

(* Of the snapshots, if there are any, one is the most recent. *)
LEMMA NewestExists ==
  ASSUME NEW snapshots \in SUBSET Snapshots, snapshots # {}
  PROVE  Newest(snapshots) # {}
<1> DEFINE Before == OpToRel(<, Nat)
           Ages == {MaxTime - s.at : s \in snapshots}
<1>1. \A s \in snapshots : s.at \in 0..MaxTime
  BY DEF Snapshots
<1>2. Ages \subseteq Nat /\ Ages # {}
  BY <1>1, CacheAssumption
<1>3. PICK age \in Ages : \A other \in Ages : <<other, age>> \notin Before
  <2> HIDE DEF Ages
  <2> QED BY <1>2, NatLessThanWellFounded, WFMin
<1>4. PICK s \in snapshots : age = MaxTime - s.at
  OBVIOUS
<1>5. ASSUME NEW t \in snapshots PROVE t.at <= s.at
  <2>1. MaxTime - t.at \in Ages
    OBVIOUS
  <2>2. ~(MaxTime - t.at < age)
    BY <1>2, <1>3, <2>1 DEF OpToRel
  <2> QED BY <1>1, <1>4, <2>2, CacheAssumption
<1> QED BY <1>4, <1>5 DEF Newest

(* The ceiling spares what was just written ... *)
LEMMA EvictingRetains ==
  ASSUME NEW retained, EnforceLimit(retained)
  PROVE  retained \cap cache \subseteq cache'
BY DEF EnforceLimit, Remaining

(* ... and the most recent snapshot of all. *)
LEMMA EvictingSparesNewest ==
  ASSUME cache \subseteq Snapshots, cache # {},
         NEW retained, EnforceLimit(retained) \/ EnforceFails(retained)
  PROVE  \E s \in Newest(cache) : s \in cache'
<1>1. ASSUME NEW left \in Remaining(retained), left \subseteq cache'
      PROVE  \E s \in Newest(cache) : s \in cache'
  BY <1>1 DEF Remaining
<1>2. CASE EnforceLimit(retained)
  BY <1>1, <1>2 DEF EnforceLimit
<1>3. CASE EnforceFails(retained) /\ UNCHANGED cache
  <2>1. Newest(cache) # {} /\ Newest(cache) \subseteq cache
    BY NewestExists DEF Newest
  <2> QED BY <1>3, <2>1
<1>4. CASE \E left \in Remaining(retained) :
             cache' \in {between \in SUBSET cache : left \subseteq between}
  BY <1>1, <1>4
<1> QED BY <1>2, <1>3, <1>4 DEF EnforceFails

(* A rename that takes a snapshot's name leaves one of the same catalog and *)
(* time there.                                                              *)
LEMMA RenamingReplaces ==
  ASSUME NEW name, RenamePartial(name), NEW s \in cache
  PROVE  \E t \in cache' : t.for = s.for /\ t.at = s.at
<1>1. PICK p \in Unfinished(name) :
        cache' = (cache \ Published(name)) \cup
          {[for |-> name.for, at |-> name.at, whole |-> p.whole]}
  BY DEF RenamePartial
<1> DEFINE new == [for |-> name.for, at |-> name.at, whole |-> p.whole]
<1>2. new \in cache' /\ new.for = name.for /\ new.at = name.at
  BY <1>1
<1>3. s \in Published(name) => s.for = name.for /\ s.at = name.at
  BY DEF Published
<1>4. s \notin Published(name) => s \in cache'
  BY <1>1
<1> HIDE DEF new
<1> QED BY <1>2, <1>3, <1>4

(* What a load just downloaded is there when it returns (cache.rs:158-160). *)
THEOREM DownloadsAreKept == Spec => DownloadedIsKept
<1>1. ASSUME CacheInv, [Next]_vars, NEW l \in Loaders,
             cancels = 0, pc[l] = "enforce", outcome'[l] = "downloaded"
      PROVE  \E s \in cache' : s.for = file[l].for /\ s.at = file[l].at
  <2>1. /\ outcome[l] = "none" /\ Published(file[l]) # {}
        /\ outcome \in [Loaders -> {"none", "fresh", "cached", "downloaded", "stale", "error"}]
    BY <1>1 DEF CacheInv, LockInv, Standing, Undisturbed, Sees, TypeOK
  <2>2. Enforce(l)
    <3>1. ASSUME NEW o \in Loaders, o # l, Step(o) \/ Refused(o) \/ Cancel(o) \/ Crash(o)
          PROVE  outcome'[l] = outcome[l]
      BY <2>1, <3>1 DEF Step, Prune, LockToEvict, Evict, PruneCache, Lock, Look, Read, Missed,
         Fetch, Create, Write, Rename, Enforce, Fail, Refused, Cancel, Crash, End
    <3>2. ASSUME NEW o \in Loaders, NEW c, NEW first, Begin(o, c, first)
          PROVE  outcome'[l] # "downloaded"
      BY <2>1, <3>2 DEF Begin
    <3>3. Step(l) => Enforce(l) \/ Fail(l)
      BY <1>1 DEF Step, Prune, LockToEvict, Evict, PruneCache, Lock, Look, Read, Missed,
         Fetch, Create, Write, Rename
    <3>4. Fail(l) \/ Refused(l) \/ Cancel(l) \/ Crash(l) => outcome'[l] # "downloaded"
      BY <2>1 DEF Fail, Refused, Cancel, Crash, End
    <3>5. (\E task \in detached : RunDetached(task)) \/ Tick \/ UNCHANGED vars
          => outcome'[l] = outcome[l]
      BY DEF RunDetached, Tick, vars
    <3> QED
      BY <1>1, <2>1, <3>1, <3>2, <3>3, <3>4, <3>5 DEF Next
  <2>3. Published(file[l]) \subseteq cache'
    BY <2>2, EvictingRetains DEF Enforce, Published
  <2> QED BY <2>1, <2>3 DEF Published
<1>2. CacheInv /\ [Next]_vars =>
        [\A l \in Loaders :
           cancels = 0 /\ pc[l] = "enforce" /\ outcome'[l] = "downloaded" =>
             \E s \in cache' : s.for = file[l].for /\ s.at = file[l].at]_vars
  BY <1>1
<1> QED BY <1>2, CacheInvariant, PTL DEF Spec, DownloadedIsKept

(* Nobody is ever left without the most recent snapshot, not even by what a *)
(* cancelled load left running (source.rs:69-70).                           *)
THEOREM MostRecentOutlives == Spec => MostRecentIsKept
<1> DEFINE Kept == \E s \in Newest(cache), t \in cache' : t.for = s.for /\ t.at = s.at
<1>1. ASSUME CacheInv, [Next]_vars, cache # {} PROVE Kept
  <2>1. cache \subseteq Snapshots /\ Newest(cache) # {} /\ Newest(cache) \subseteq cache
    BY <1>1, NewestExists DEF CacheInv, LockInv, TypeOK, Newest
  <2>2. ASSUME NEW retained, EnforceLimit(retained) \/ EnforceFails(retained) PROVE Kept
    BY <1>1, <2>1, <2>2, EvictingSparesNewest
  <2>3. ASSUME NEW name, RenamePartial(name) PROVE Kept
    BY <2>1, <2>3, RenamingReplaces
  <2>4. CASE cache' = cache
    BY <2>1, <2>4
  <2>5. ASSUME NEW l \in Loaders, Step(l) \/ Refused(l) \/ Cancel(l) \/ Crash(l)
        PROVE  Kept
    <3>1. Evict(l) \/ PruneCache(l) \/ Enforce(l) => Kept
      BY <2>2 DEF Evict, PruneCache, Enforce
    <3>2. Rename(l) => Kept
      BY <2>3 DEF Rename
    <3>3. Fail(l) => Kept
      BY <2>2, <2>4 DEF Fail
    <3> QED
      BY <2>4, <2>5, <3>1, <3>2, <3>3 DEF Step, Prune, LockToEvict, Lock, Look, Read, Missed,
         Fetch, Create, Write, Refused, Cancel, Crash, disk
  <2>6. ASSUME NEW task \in detached, RunDetached(task) PROVE Kept
    BY <2>2, <2>3, <2>4, <2>6 DEF RunDetached, disk
  <2>7. ASSUME NEW l \in Loaders, NEW c, NEW first, Begin(l, c, first) PROVE Kept
    BY <2>4, <2>7 DEF Begin, disk
  <2>8. CASE Tick \/ UNCHANGED vars
    BY <2>4, <2>8 DEF Tick, vars, disk
  <2> QED BY <1>1, <2>5, <2>6, <2>7, <2>8 DEF Next
<1>2. CacheInv /\ [Next]_vars => [cache # {} => Kept]_vars
  BY <1>1
<1> QED BY <1>2, CacheInvariant, PTL DEF Spec, MostRecentIsKept
=============================================================================
