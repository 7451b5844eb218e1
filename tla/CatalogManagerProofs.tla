------------------------- MODULE CatalogManagerProofs -------------------------
(***************************************************************************)
(* Theorems about the catalog cache.                                       *)
(*                                                                         *)
(* CallInv holds of any number of managers and installers: each call is    *)
(* where its variables say it is, it holds the lock of the artifact it is  *)
(* at, and what it was told is there has a file.  FileInv and OutputInv    *)
(* need the output directory to have one installer at a time, and, where   *)
(* its files may be links to the cache's, names that can be removed: no    *)
(* file anybody writes to has a name in the cache, or, but for the copy    *)
(* being made, in the output directory, so an artifact once there stays    *)
(* so.  HoldInv needs neither.                                             *)
(***************************************************************************)
EXTENDS CatalogManager, FiniteSetTheorems, TLAPS

Locked == {"recheck", "download", "publish", "rename", "discard", "placed"}
Holding == {"download", "publish", "rename", "discard"}
Copying == {"copy", "verify"}

\* The names of its version whose artifacts a manager has been told are there.
Got(m) ==
  IF pc[m] \in Installing \/ outcome[m] = "bundle" THEN Names
  ELSE IF pc[m] \in {"next"} \cup Asking THEN 1..(at[m] - 1)
  ELSE {}

\* The call of one manager, by where it is.
CallOf(m) ==
  /\ pc[m] \in {"idle", "manifest", "fetch", "store"} => at[m] = 1
  /\ outcome[m] = "bundle" => pc[m] = "idle" /\ version[m] \in Versions
  /\ pc[m] \in Asking \cup {"remove", "link", "copy", "verify"} => at[m] \in Names
  /\ temp[m] # None <=> pc[m] \in Holding \cup Copying
  /\ pc[m] \in Copying => source[m] # None
  /\ pc[m] \in Locked => lock[Content(m)] = m
  /\ pc[m] \in {"discard", "placed"} => objects[Content(m)] # None
  /\ \A n \in Got(m) : objects[Bundle[version[m]][n]] # None

DetachedOK ==
  /\ IsFiniteSet(detached) /\ Cardinality(detached) <= drops
  /\ \A d \in detached : IF d.file = None THEN d.as \in Versions ELSE d.as \in Contents

CallInv == TypeOK /\ DetachedOK /\ \A m \in Managers : CallOf(m)

-----------------------------------------------------------------------------
\* What is under a hash is neither the artifact nor cut short.
Rotted(c) == objects[c] # None /\ data[objects[c]] \notin {c, Broken}

\* That is so only of an artifact damaged at first, which is of its size.
ObjectsOK == \A c \in Contents : Rotted(c) => c \in Damaged /\ Present(c)

\* A file installed for an artifact is that artifact, or a link to its object.
Good(f, c) == f # None /\ (data[f] = c \/ (f = objects[c] /\ Present(c)))

\* What a step does to the objects: one that is there stays, and none rots.
GoOn ==
  \A c \in Contents :
    /\ Present(c) => Present(c)'
    /\ Rotted(c)' => Rotted(c)
    /\ \A f \in FileIds : data'[f] = data[f] /\ Good(f, c) => Good(f, c)'

\* A file being written has no name but the one it is copied to, and one writer.
TempOf(m) ==
  temp[m] # None =>
    /\ \A c \in Contents : objects[c] # temp[m]
    /\ \A n \in Names : output[n] = temp[m] => pc[m] \in Copying /\ n = at[m]
    /\ \A o \in Managers : o # m => temp[o] # temp[m]
    /\ \A d \in detached : d.file # temp[m]

\* A rename that may still be done is of a verified file without a name.
RenameOf(d) ==
  d.file # None =>
    /\ data[d.file] = d.as
    /\ \A c \in Contents : objects[c] # d.file
    /\ \A n \in Names : output[n] # d.file
    /\ \A e \in detached : e.file = d.file => e = d
    /\ ~Rotted(d.as)

\* What a manager has verified, been given or installed is as it was.
WorkOf(m) ==
  /\ pc[m] \in {"publish", "rename", "discard"} => data[temp[m]] = Content(m)
  /\ pc[m] \in {"download", "publish", "rename"} => ~Rotted(Content(m))
  /\ pc[m] \in {"discard", "placed"} => Present(Content(m))
  /\ \A n \in Got(m) : Present(Bundle[version[m]][n])
  /\ pc[m] \in Installing =>
       \A n \in 1..(at[m] - 1) : Good(output[n], Bundle[version[m]][n])

OneInstaller ==
  \A m, o \in Managers : pc[m] \in Installing /\ pc[o] \in Installing => m = o

FileInv ==
  /\ ObjectsOK
  /\ \A m \in Managers : TempOf(m) /\ WorkOf(m)
  /\ \A d \in detached : RenameOf(d)
  /\ OneInstaller

\* With links, the name a file is to have is free.  Without, a file of the output
\* directory has no other name: a name that stays is copied over, and nothing else.
OutputInv ==
  IF linkable
  THEN \A m \in Managers : pc[m] = "link" => output[at[m]] = None
  ELSE \A n \in Names : output[n] # None =>
         /\ \A c \in Contents : objects[c] # output[n]
         /\ \A k \in Names : output[k] = output[n] => k = n

\* One installs at a time, and a name that may be a link can be removed.
Orderly == Installers <= 1 /\ TRUE \notin RemovesFail

CatalogInv == CallInv /\ (Orderly => FileInv /\ OutputInv)
-----------------------------------------------------------------------------
(* There is always a file nobody uses. *)

\* A function has no more values than arguments.
LEMMA ValuesBound ==
  ASSUME NEW S, NEW T, NEW f \in [S -> T], IsFiniteSet(S)
  PROVE  IsFiniteSet(Values(f)) /\ Cardinality(Values(f)) <= Cardinality(S)
<1>1. f \in Surjection(S, Values(f))
  BY DEF Values, Surjection
<1>2. QED BY <1>1, FS_Surjection

\* Two sets together have no more elements than each alone.
LEMMA UnionBound ==
  ASSUME NEW A, NEW B, NEW a \in Nat, NEW b \in Nat,
         IsFiniteSet(A), Cardinality(A) <= a, IsFiniteSet(B), Cardinality(B) <= b
  PROVE  IsFiniteSet(A \cup B) /\ Cardinality(A \cup B) <= a + b
<1>1. IsFiniteSet(A \cap B) BY FS_Intersection
<1>2. /\ Cardinality(A) \in Nat /\ Cardinality(B) \in Nat
      /\ Cardinality(A \cap B) \in Nat /\ Cardinality(A \cup B) \in Nat
      /\ IsFiniteSet(A \cup B)
  BY <1>1, FS_CardinalityType, FS_Union
<1>3. Cardinality(A \cup B) = Cardinality(A) + Cardinality(B) - Cardinality(A \cap B)
  BY FS_Union
<1>4. QED BY <1>2, <1>3

\* The file a download or a copy makes is nobody's: names, open files and
\* detached renames use fewer than there are (FilesAssumption).
LEMMA NewFileIsFresh ==
  ASSUME CallInv
  PROVE  /\ NewFile \in FileIds
         /\ \A c \in Contents : objects[c] # NewFile
         /\ \A n \in Names : output[n] # NewFile
         /\ \A m \in Managers : temp[m] # NewFile /\ source[m] # NewFile
         /\ \A d \in detached : d.file # NewFile
<1> DEFINE files == {d.file : d \in detached}
           C == Cardinality(Contents)
           M == Cardinality(Managers)
<1>1. /\ C \in Nat /\ M \in Nat /\ Len(Files) \in Nat /\ MaxDrops \in Nat
      /\ IsFiniteSet(Names) /\ Cardinality(Names) = Len(Files)
  <2>1. C \in Nat /\ M \in Nat BY FilesAssumption, FS_CardinalityType
  <2>2. Len(Files) \in Nat /\ MaxDrops \in Nat BY CatalogAssumption
  <2>3. /\ IsFiniteSet(Names)
        /\ Cardinality(Names) = IF 1 > Len(Files) THEN 0 ELSE Len(Files) - 1 + 1
    BY <2>2, FS_Interval DEF Names
  <2>4. QED BY <2>1, <2>2, <2>3
<1>2. IsFiniteSet(Values(objects)) /\ Cardinality(Values(objects)) <= C
  <2>1. objects \in [Contents -> FileIds \cup {None}] BY DEF CallInv, TypeOK
  <2>2. QED BY <2>1, ValuesBound, FilesAssumption
<1>3. IsFiniteSet(Values(output)) /\ Cardinality(Values(output)) <= Len(Files)
  <2>1. output \in [Names -> FileIds \cup {None}] BY DEF CallInv, TypeOK
  <2>2. QED BY <1>1, <2>1, ValuesBound
<1>4. IsFiniteSet(Values(temp)) /\ Cardinality(Values(temp)) <= M
  <2>1. temp \in [Managers -> FileIds \cup {None}] BY DEF CallInv, TypeOK
  <2>2. QED BY <2>1, ValuesBound, FilesAssumption
<1>5. IsFiniteSet(Values(source)) /\ Cardinality(Values(source)) <= M
  <2>1. source \in [Managers -> FileIds \cup {None}] BY DEF CallInv, TypeOK
  <2>2. QED BY <2>1, ValuesBound, FilesAssumption
<1>6. IsFiniteSet(files) /\ Cardinality(files) <= MaxDrops
  <2> DEFINE f == [d \in detached |-> d.file]
  <2>1. IsFiniteSet(detached) /\ Cardinality(detached) <= drops /\ drops \in 0..MaxDrops
    BY DEF CallInv, DetachedOK, TypeOK
  <2>2. Cardinality(detached) \in Nat BY <2>1, FS_CardinalityType
  <2>3. f \in [detached -> files] OBVIOUS
  <2>4. Values(f) = files BY DEF Values
  <2> HIDE DEF f, files
  <2>5. IsFiniteSet(files) /\ Cardinality(files) <= Cardinality(detached)
    BY <2>1, <2>3, <2>4, ValuesBound
  <2>6. Cardinality(files) \in Nat BY <2>5, FS_CardinalityType
  <2>7. QED BY <1>1, <2>1, <2>2, <2>5, <2>6
<1> HIDE DEF files, C, M
<1>7. IsFiniteSet(InUse) /\ Cardinality(InUse) <= C + Len(Files) + M + M + MaxDrops
  <2>1. /\ IsFiniteSet(Values(objects) \cup Values(output))
        /\ Cardinality(Values(objects) \cup Values(output)) <= C + Len(Files)
    BY <1>1, <1>2, <1>3, UnionBound
  <2>2. /\ IsFiniteSet(Values(objects) \cup Values(output) \cup Values(temp))
        /\ Cardinality(Values(objects) \cup Values(output) \cup Values(temp)) <= C + Len(Files) + M
    <3>1. C + Len(Files) \in Nat BY <1>1
    <3>2. QED BY <1>1, <1>4, <2>1, <3>1, UnionBound
  <2>3. /\ IsFiniteSet(Values(objects) \cup Values(output) \cup Values(temp) \cup Values(source))
        /\ Cardinality(Values(objects) \cup Values(output) \cup Values(temp) \cup Values(source))
             <= C + Len(Files) + M + M
    <3>1. C + Len(Files) + M \in Nat BY <1>1
    <3>2. QED BY <1>1, <1>5, <2>2, <3>1, UnionBound
  <2>4. C + Len(Files) + M + M \in Nat BY <1>1
  <2>5. InUse = Values(objects) \cup Values(output) \cup Values(temp) \cup Values(source) \cup files
    BY DEF InUse, files
  <2>6. QED BY <1>1, <1>6, <2>3, <2>4, <2>5, UnionBound
<1>8. \E f \in FileIds : f \notin InUse
  <2>1. SUFFICES ASSUME FileIds \subseteq InUse PROVE FALSE OBVIOUS
  <2>2. Cardinality(FileIds) <= Cardinality(InUse) BY <1>7, <2>1, FS_Subset
  <2>3. Cardinality(FileIds) \in Nat /\ Cardinality(InUse) \in Nat
    BY <1>7, FilesAssumption, FS_CardinalityType
  <2>4. Cardinality(FileIds) > C + Len(Files) + 2 * M + MaxDrops
    BY FilesAssumption DEF C, M
  <2>5. QED BY <1>1, <1>7, <2>2, <2>3, <2>4
<1>9. NewFile \in FileIds /\ NewFile \notin InUse BY <1>8 DEF NewFile
<1>10. /\ objects \in [Contents -> FileIds \cup {None}] /\ output \in [Names -> FileIds \cup {None}]
       /\ temp \in [Managers -> FileIds \cup {None}] /\ source \in [Managers -> FileIds \cup {None}]
  BY DEF CallInv, TypeOK
<1> HIDE DEF NewFile
<1>11. QED BY <1>9, <1>10 DEF InUse, Values

-----------------------------------------------------------------------------
(* CallInv: the initial states. *)

LEMMA FilesExist == \E f \in FileIds : TRUE
<1>1. SUFFICES ASSUME FileIds = {} PROVE FALSE OBVIOUS
<1>2. Cardinality(FileIds) = 0 BY <1>1, FS_EmptySet
<1>3. Cardinality(Contents) \in Nat /\ Cardinality(Managers) \in Nat
  BY FilesAssumption, FS_CardinalityType
<1>4. QED BY <1>2, <1>3, CatalogAssumption, FilesAssumption

LEMMA CallInit ==
  ASSUME Init
  PROVE  CallInv
<1>1. TypeOK
  <2>1. /\ objects \in [Contents -> FileIds \cup {None}]
        /\ data \in [FileIds -> Contents \cup {Broken}]
    <3>1. (CHOOSE f \in FileIds : TRUE) \in FileIds BY FilesExist
    <3>2. QED BY <3>1 DEF Init
  <2>2. server \in Versions BY CatalogAssumption DEF Init
  <2>3. at \in [Managers -> 1..(Len(Files) + 1)] BY CatalogAssumption DEF Init
  <2>4. ensures \in 0..MaxEnsures /\ drops \in 0..MaxDrops BY CatalogAssumption DEF Init
  <2>5. /\ cached \in Versions \cup {None} /\ linkable \in BOOLEAN
        /\ output \in [Names -> FileIds \cup {None}]
        /\ lock \in [Contents -> Managers \cup {None}]
        /\ temp \in [Managers -> FileIds \cup {None}]
        /\ source \in [Managers -> FileIds \cup {None}]
        /\ detached \subseteq [file : FileIds \cup {None}, as : Contents \cup Versions]
    BY DEF Init
  <2>6. /\ pc \in [Managers -> {"idle", "manifest", "fetch", "store", "next"} \cup Asking \cup Installing]
        /\ policy \in [Managers -> Policies]
        /\ version \in [Managers -> Versions \cup {None}]
        /\ answer \in [Managers -> {"none", "ok", "error"}]
        /\ outcome \in [Managers -> {"none", "bundle", "installed", "error"}]
    BY DEF Init, Policies
  <2>7. \A m \in Managers :
          pc[m] \in {"store", "next"} \cup Asking \cup Installing => version[m] \in Versions
    BY DEF Init, Asking, Installing
  <2>8. QED BY <2>1, <2>2, <2>3, <2>4, <2>5, <2>6, <2>7 DEF TypeOK
<1>2. DetachedOK
  <2>1. detached = {} /\ drops = 0 BY DEF Init
  <2>2. QED BY <2>1, FS_EmptySet DEF DetachedOK
<1>3. ASSUME NEW m \in Managers
      PROVE  CallOf(m)
  <2>1. pc[m] = "idle" /\ at[m] = 1 /\ outcome[m] = "none" /\ temp[m] = None
    BY DEF Init
  <2>2. QED BY <2>1 DEF CallOf, Got, Asking, Installing, Holding, Copying, Locked
<1>4. QED BY <1>1, <1>2, <1>3 DEF CallInv

-----------------------------------------------------------------------------
(* CallInv: the steps. *)

\* A call that takes no step is where it was, if its lock is still its own and
\* no object has gone.
LEMMA CallElsewhere ==
  ASSUME NEW o \in Managers, CallInv, TypeOK',
         pc'[o] = pc[o], outcome'[o] = outcome[o], version'[o] = version[o], at'[o] = at[o],
         temp'[o] = temp[o], source'[o] = source[o],
         \A c \in Contents : lock[c] = o => lock'[c] = o,
         \A c \in Contents : objects[c] # None => objects'[c] # None
  PROVE  CallOf(o)'
<1>1. CallOf(o) BY DEF CallInv
<1>2. Got(o)' = Got(o) BY DEF Got
<1>3. \A v \in Versions, n \in Names : Bundle[v][n] \in Contents BY CatalogAssumption
<1>4. /\ version[o] \in Versions \cup {None}
      /\ pc[o] \in {"store", "next"} \cup Asking \cup Installing => version[o] \in Versions
      /\ at[o] \in 1..(Len(Files) + 1)
  BY DEF CallInv, TypeOK
<1>5. pc[o] \in Asking => Content(o) \in Contents
  BY <1>1, <1>3, <1>4 DEF Content, CallOf
<1>6. Content(o)' = Content(o) BY DEF Content
<1>7. Locked \subseteq Asking /\ {"discard", "placed"} \subseteq Asking BY DEF Locked, Asking
<1>8. pc'[o] \in Locked => lock'[Content(o)'] = o
  BY <1>1, <1>5, <1>6, <1>7 DEF CallOf
<1>9. pc'[o] \in {"discard", "placed"} => objects'[Content(o)'] # None
  BY <1>1, <1>5, <1>6, <1>7 DEF CallOf
<1>10. \A n \in Got(o) : n \in Names /\ version[o] \in Versions
  BY <1>1, <1>4, CatalogAssumption DEF Got, CallOf, Names
<1>11. \A n \in Got(o)' : objects'[Bundle[version'[o]][n]] # None
  BY <1>1, <1>2, <1>3, <1>10 DEF CallOf
<1>12. QED BY <1>1, <1>8, <1>9, <1>11 DEF CallOf

LEMMA BundleIs == \A v \in Versions, n \in Names : Bundle[v][n] \in Contents
BY CatalogAssumption

LEMMA ContentIs ==
  ASSUME CallInv, NEW m \in Managers,
         pc[m] \in Asking \cup {"remove", "link", "copy", "verify"}
  PROVE  /\ version[m] \in Versions /\ at[m] \in Names /\ Content(m) \in Contents
         /\ at[m] + 1 \in 1..(Len(Files) + 1)
<1>1. version[m] \in Versions /\ at[m] \in Names
  BY DEF CallInv, TypeOK, CallOf, Installing
<1>2. Content(m) \in Contents BY <1>1, BundleIs DEF Content
<1>3. at[m] + 1 \in 1..(Len(Files) + 1) BY <1>1, CatalogAssumption DEF Names
<1>4. QED BY <1>1, <1>2, <1>3

\* A call that has not come to an artifact, or has ended, without a bundle.
LEMMA CallOutside ==
  ASSUME NEW m \in Managers, at'[m] = 1, temp'[m] = None, outcome'[m] # "bundle",
         pc'[m] \in {"idle", "manifest", "fetch", "store", "next"}
  PROVE  CallOf(m)'
<1>1. Got(m)' = {}
  BY DEF Got, Asking, Installing
<1>2. QED BY <1>1 DEF CallOf, Asking, Installing, Holding, Copying, Locked

\* A call that stays at its artifact, or at its output file.
LEMMA CallWithin ==
  ASSUME CallInv, TypeOK', NEW m \in Managers,
         \/ pc[m] \in Asking /\ pc'[m] \in Asking
         \/ pc[m] \in Installing /\ pc'[m] \in Installing /\ at[m] \in Names,
         outcome'[m] = outcome[m], version'[m] = version[m], at'[m] = at[m],
         temp'[m] # None <=> pc'[m] \in Holding \cup Copying,
         pc'[m] \in Copying => source'[m] # None,
         pc'[m] \in Locked => lock'[Content(m)] = m,
         pc'[m] \in {"discard", "placed"} => objects'[Content(m)] # None,
         \A c \in Contents : objects[c] # None => objects'[c] # None
  PROVE  CallOf(m)'
<1>1. CallOf(m) BY DEF CallInv
<1>2. Asking \cap Installing = {} /\ "next" \notin Asking \cup Installing
      /\ {"idle", "manifest", "fetch", "store"} \cap (Asking \cup Installing) = {}
  BY DEF Asking, Installing
<1>3. outcome[m] # "bundle" BY <1>1, <1>2 DEF CallOf
<1>4. Got(m)' = Got(m) BY <1>2, <1>3 DEF Got
<1>5. version[m] \in Versions BY DEF CallInv, TypeOK
<1>6. at[m] \in Names BY <1>1 DEF CallOf
<1>7. \A n \in Got(m) : n \in Names BY <1>6, CatalogAssumption DEF Got, Names
<1>8. \A n \in Got(m)' : objects'[Bundle[version'[m]][n]] # None
  BY <1>1, <1>4, <1>5, <1>7, BundleIs DEF CallOf
<1>9. Content(m)' = Content(m) BY DEF Content
<1>10. QED BY <1>1, <1>2, <1>3, <1>6, <1>8, <1>9 DEF CallOf

LEMMA CallPublish ==
  ASSUME CallInv, Publish
  PROVE  CallInv'
<1>1. TypeOK' BY DEF CallInv, TypeOK, Publish, disk, call, counts
<1>2. DetachedOK' BY DEF CallInv, DetachedOK, Publish, counts
<1>3. ASSUME NEW o \in Managers PROVE CallOf(o)'
  BY <1>1, CallElsewhere DEF Publish, disk, call
<1>4. QED BY <1>1, <1>2, <1>3 DEF CallInv

LEMMA CallEnsure ==
  ASSUME CallInv, NEW m \in Managers, NEW p \in Policies, Ensure(m, p)
  PROVE  CallInv'
<1>1. TypeOK'
  <2>1. ensures' \in 0..MaxEnsures BY CatalogAssumption DEF CallInv, TypeOK, Ensure
  <2>2. QED BY <2>1 DEF CallInv, TypeOK, Ensure, Goto, manifest, disk, Asking, Installing
<1>2. DetachedOK' BY DEF CallInv, DetachedOK, Ensure
<1>3. ASSUME NEW o \in Managers PROVE CallOf(o)'
  <2>1. CASE o = m
    <3>1. /\ pc'[m] = "manifest" /\ outcome'[m] = "none" /\ at'[m] = at[m] /\ temp'[m] = temp[m]
          /\ pc[m] = "idle"
      BY DEF CallInv, TypeOK, Ensure, Goto
    <3>2. at[m] = 1 /\ temp[m] = None
      BY <3>1 DEF CallInv, CallOf, Holding, Copying
    <3>3. QED BY <2>1, <3>1, <3>2, CallOutside
  <2>2. CASE o # m
    BY <1>1, <2>2, CallElsewhere DEF CallInv, TypeOK, Ensure, Goto, disk
  <2>3. QED BY <2>1, <2>2
<1>4. QED BY <1>1, <1>2, <1>3 DEF CallInv

\* What is cached is read, or the call fails, before any artifact.
LEMMA CallRead ==
  ASSUME CallInv, NEW m \in Managers, pc[m] \in {"manifest", "fetch", "store"},
         (cached # None /\ ReadCached(m)) \/ Error(m),
         UNCHANGED <<manifest, linkable, disk, lock, temp, source, answer, detached, counts>>
  PROVE  CallInv'
<1>1. TypeOK'
  <2>1. CASE cached # None /\ ReadCached(m)
    BY <2>1 DEF CallInv, TypeOK, ReadCached, Goto, manifest, disk, counts, Asking, Installing
  <2>2. CASE Error(m)
    <3>1. at' \in [Managers -> 1..(Len(Files) + 1)]
      BY <2>2, CatalogAssumption DEF CallInv, TypeOK, Error, Forget
    <3>2. QED
      BY <2>2, <3>1 DEF CallInv, TypeOK, Error, Forget, Goto, manifest, disk, counts, Asking, Installing, Policies
  <2>3. QED BY <2>1, <2>2
<1>2. DetachedOK' BY DEF CallInv, DetachedOK, counts
<1>3. CallOf(m)'
  <2>1. at[m] = 1 /\ temp[m] = None /\ outcome[m] # "bundle"
    BY DEF CallInv, CallOf, Holding, Copying
  <2>2. at'[m] = 1 /\ temp'[m] = None /\ outcome'[m] # "bundle" /\ pc'[m] \in {"idle", "next"}
    BY <2>1 DEF CallInv, TypeOK, ReadCached, Error, Forget, Goto
  <2>3. QED BY <2>2, CallOutside
<1>4. ASSUME NEW o \in Managers, o # m PROVE CallOf(o)'
  BY <1>1, <1>4, CallElsewhere
     DEF CallInv, TypeOK, ReadCached, Error, Forget, Goto, disk
<1>5. QED BY <1>1, <1>2, <1>3, <1>4 DEF CallInv

\* The manifest is asked of the server, read or written.
LEMMA CallGoesOn ==
  ASSUME CallInv, NEW m \in Managers, pc[m] \in {"manifest", "fetch", "store"},
         NEW where \in {"fetch", "store", "next"}, Goto(m, where),
         version' = version \/ version' = [version EXCEPT ![m] = server],
         where # "fetch" => version'[m] \in Versions,
         cached' \in Versions \cup {None}, server' = server,
         UNCHANGED <<linkable, disk, lock, policy, at, temp, source, answer, outcome, detached, counts>>
  PROVE  CallInv'
<1>1. TypeOK'
  BY DEF CallInv, TypeOK, Goto, disk, counts, Asking, Installing
<1>2. DetachedOK' BY DEF CallInv, DetachedOK, counts
<1>3. CallOf(m)'
  <2>1. at[m] = 1 /\ temp[m] = None /\ outcome[m] # "bundle"
    BY DEF CallInv, CallOf, Holding, Copying
  <2>2. at'[m] = 1 /\ temp'[m] = None /\ outcome'[m] # "bundle" /\ pc'[m] = where
    BY <2>1 DEF CallInv, TypeOK, Goto
  <2>3. QED BY <2>2, CallOutside
<1>4. ASSUME NEW o \in Managers, o # m PROVE CallOf(o)'
  BY <1>1, <1>4, CallElsewhere DEF CallInv, TypeOK, Goto, disk
<1>5. QED BY <1>1, <1>2, <1>3, <1>4 DEF CallInv

LEMMA CallManifest ==
  ASSUME CallInv, NEW m \in Managers,
         LoadManifest(m) \/ Fetch(m) \/ StoreManifest(m) \/ FetchFails(m)
  PROVE  CallInv'
<1>1. CASE LoadManifest(m)
  <2>1. pc[m] = "manifest" /\ UNCHANGED <<manifest, linkable, disk, lock, temp, source, answer, detached, counts>>
    BY <1>1 DEF LoadManifest
  <2>2. CASE (cached # None /\ ReadCached(m)) \/ Error(m)
    BY <2>1, <2>2, CallRead
  <2>3. CASE Goto(m, "fetch") /\ UNCHANGED <<policy, version, at, outcome>>
    BY <2>1, <2>3, CallGoesOn DEF manifest, CallInv, TypeOK
  <2>4. QED BY <1>1, <2>2, <2>3 DEF LoadManifest
<1>2. CASE Fetch(m)
  <2>1. version'[m] \in Versions BY <1>2 DEF Fetch, CallInv, TypeOK
  <2>2. cached \in Versions \cup {None} BY DEF CallInv, TypeOK
  <2>3. QED BY <1>2, <2>1, <2>2, CallGoesOn DEF Fetch, manifest
<1>3. CASE StoreManifest(m)
  <2>1. version[m] \in Versions BY <1>3 DEF StoreManifest, CallInv, TypeOK
  <2>2. QED BY <1>3, <2>1, CallGoesOn DEF StoreManifest, call
<1>4. CASE FetchFails(m)
  BY <1>4, CallRead DEF FetchFails
<1>5. QED BY <1>1, <1>2, <1>3, <1>4

\* The artifact is there, and the call goes on to the next.
LEMMA CallFound ==
  ASSUME CallInv, NEW m \in Managers, pc[m] \in Asking, Found(m),
         objects[Content(m)] # None,
         UNCHANGED <<manifest, linkable, disk, policy, version, source, outcome, detached, counts>>
  PROVE  CallInv'
<1>1. version[m] \in Versions /\ at[m] \in Names /\ at[m] + 1 \in 1..(Len(Files) + 1)
  BY ContentIs
<1>2. TypeOK'
  BY <1>1 DEF CallInv, TypeOK, Found, Goto, manifest, disk, counts, Asking, Installing
<1>3. DetachedOK' BY DEF CallInv, DetachedOK, counts
<1>4. CallOf(m)'
  <2>1. /\ pc'[m] = "next" /\ at'[m] = at[m] + 1 /\ temp'[m] = None
        /\ version' = version /\ outcome' = outcome /\ objects' = objects
    BY DEF CallInv, TypeOK, Found, Goto, disk
  <2>2. outcome[m] # "bundle" /\ \A n \in Got(m) : objects[Bundle[version[m]][n]] # None
    BY DEF CallInv, CallOf, Asking
  <2>3. Got(m) = 1..(at[m] - 1) BY <2>2 DEF Got, Asking, Installing
  <2>4. Got(m)' = 1..at[m]
    <3>1. Got(m)' = 1..(at'[m] - 1) BY <2>1, <2>2 DEF Got, Installing
    <3>2. QED BY <1>1, <2>1, <3>1 DEF Names
  <2>5. \A n \in 1..at[m] : n = at[m] \/ n \in 1..(at[m] - 1) BY <1>1 DEF Names
  <2>6. \A n \in Got(m)' : objects'[Bundle[version'[m]][n]] # None
    BY <2>1, <2>2, <2>3, <2>4, <2>5 DEF Content
  <2>7. QED BY <2>1, <2>2, <2>6 DEF CallOf, Asking, Holding, Copying, Locked
<1>5. ASSUME NEW o \in Managers, o # m PROVE CallOf(o)'
  <2>1. \A c \in Contents : lock[c] = o => lock'[c] = o BY <1>5 DEF Found
  <2>2. QED BY <1>2, <1>5, <2>1, CallElsewhere DEF CallInv, TypeOK, Found, Goto, disk
<1>6. QED BY <1>2, <1>3, <1>4, <1>5 DEF CallInv

LEMMA HitIsThere ==
  ASSUME NEW m \in Managers, Hit(m)
  PROVE  objects[Content(m)] # None
BY DEF Hit, Present, SizeMatches

LEMMA CallNextFile ==
  ASSUME CallInv, NEW m \in Managers, NextFile(m)
  PROVE  CallInv'
<1>1. TypeOK'
  BY DEF CallInv, TypeOK, NextFile, Goto, manifest, disk, call, counts, Asking, Installing
<1>2. DetachedOK' BY DEF CallInv, DetachedOK, NextFile, counts
<1>3. CallOf(m)'
  <2>1. /\ pc[m] = "next" /\ pc'[m] = "probe" /\ at'[m] = at[m] /\ temp'[m] = temp[m]
        /\ version' = version /\ outcome' = outcome /\ objects' = objects /\ at[m] \in Names
    BY DEF CallInv, TypeOK, NextFile, Goto, disk, call
  <2>2. /\ outcome[m] # "bundle" /\ temp[m] = None
        /\ \A n \in Got(m) : objects[Bundle[version[m]][n]] # None
    BY <2>1 DEF CallInv, CallOf, Holding, Copying
  <2>3. Got(m)' = Got(m) BY <2>1, <2>2 DEF Got, Installing, Asking
  <2>4. \A n \in Got(m)' : objects'[Bundle[version'[m]][n]] # None
    BY <2>1, <2>2, <2>3
  <2>5. QED BY <2>1, <2>2, <2>4 DEF CallOf, Holding, Copying, Locked
<1>4. ASSUME NEW o \in Managers, o # m PROVE CallOf(o)'
  BY <1>1, <1>4, CallElsewhere DEF CallInv, TypeOK, NextFile, Goto, disk, call
<1>5. QED BY <1>1, <1>2, <1>3, <1>4 DEF CallInv

LEMMA CallEnsureEnds ==
  ASSUME CallInv, NEW m \in Managers, EnsureEnds(m)
  PROVE  CallInv'
<1>1. TypeOK'
  <2>1. at' \in [Managers -> 1..(Len(Files) + 1)]
    BY CatalogAssumption DEF CallInv, TypeOK, EnsureEnds
  <2>2. QED
    BY <2>1 DEF CallInv, TypeOK, EnsureEnds, Goto, manifest, disk, counts, Asking, Installing, Policies
<1>2. DetachedOK' BY DEF CallInv, DetachedOK, EnsureEnds, counts
<1>3. CallOf(m)'
  <2>1. /\ pc[m] = "next" /\ at[m] \notin Names
        /\ pc'[m] = "idle" /\ at'[m] = 1 /\ temp'[m] = temp[m] /\ outcome'[m] = "bundle"
        /\ version' = version /\ objects' = objects
    BY DEF CallInv, TypeOK, EnsureEnds, Goto, disk
  <2>2. /\ outcome[m] # "bundle" /\ temp[m] = None
        /\ \A n \in Got(m) : objects[Bundle[version[m]][n]] # None
    BY <2>1 DEF CallInv, CallOf, Holding, Copying
  <2>3. version[m] \in Versions BY <2>1 DEF CallInv, TypeOK
  <2>4. at[m] = Len(Files) + 1
    <3>1. at[m] \in 1..(Len(Files) + 1) BY DEF CallInv, TypeOK
    <3>2. QED BY <2>1, <3>1, CatalogAssumption DEF Names
  <2>5. Got(m) = Names
    <3>1. Got(m) = 1..(at[m] - 1) BY <2>1, <2>2 DEF Got, Installing
    <3>2. Len(Files) \in Nat BY CatalogAssumption
    <3>3. QED BY <2>4, <3>1, <3>2 DEF Names
  <2>6. Got(m)' = Names BY <2>1 DEF Got
  <2>7. \A n \in Got(m)' : objects'[Bundle[version'[m]][n]] # None
    BY <2>1, <2>2, <2>5, <2>6
  <2>8. QED BY <2>1, <2>2, <2>3, <2>7 DEF CallOf, Asking, Holding, Copying, Locked
<1>4. ASSUME NEW o \in Managers, o # m PROVE CallOf(o)'
  BY <1>1, <1>4, CallElsewhere DEF CallInv, TypeOK, EnsureEnds, Goto, disk
<1>5. QED BY <1>1, <1>2, <1>3, <1>4 DEF CallInv

LEMMA CallProbe ==
  ASSUME CallInv, NEW m \in Managers, Probe(m)
  PROVE  CallInv'
<1>1. pc[m] = "probe" /\ pc[m] \in Asking BY DEF Probe, Asking
<1>2. CASE Hit(m) BY <1>1, <1>2, HitIsThere, CallFound DEF Probe
<1>3. CASE ~Hit(m)
  <2>1. TypeOK'
    BY <1>3 DEF CallInv, TypeOK, Probe, Goto, manifest, disk, counts, Asking, Installing
  <2>2. DetachedOK' BY DEF CallInv, DetachedOK, Probe, counts
  <2>3. /\ pc'[m] = "lock" /\ at' = at /\ temp' = temp /\ lock' = lock /\ version' = version
        /\ outcome' = outcome /\ objects' = objects /\ source' = source
    BY <1>3 DEF CallInv, TypeOK, Probe, Goto, disk
  <2>4. temp[m] = None BY <1>1 DEF CallInv, CallOf, Holding, Copying
  <2>5. CallOf(m)'
    BY <1>1, <2>1, <2>3, <2>4, CallWithin DEF Asking, Holding, Copying, Locked
  <2>6. ASSUME NEW o \in Managers, o # m PROVE CallOf(o)'
    BY <1>3, <2>1, <2>3, <2>6, CallElsewhere DEF CallInv, TypeOK, Probe, Goto
  <2>7. QED BY <2>1, <2>2, <2>5, <2>6 DEF CallInv
<1>4. QED BY <1>2, <1>3

LEMMA CallLock ==
  ASSUME CallInv, NEW m \in Managers, Lock(m)
  PROVE  CallInv'
<1>1. pc[m] = "lock" /\ pc[m] \in Asking BY DEF Lock, Asking
<1>2. Content(m) \in Contents BY <1>1, ContentIs
<1>3. TypeOK'
  BY <1>2 DEF CallInv, TypeOK, Lock, Goto, manifest, disk, call, counts, Asking, Installing
<1>4. DetachedOK' BY DEF CallInv, DetachedOK, Lock, counts
<1>5. /\ pc'[m] = "recheck" /\ at' = at /\ temp' = temp /\ version' = version
      /\ outcome' = outcome /\ objects' = objects /\ source' = source /\ lock'[Content(m)] = m
  BY <1>2 DEF CallInv, TypeOK, Lock, Goto, disk, call
<1>6. temp[m] = None BY <1>1 DEF CallInv, CallOf, Holding, Copying
<1>7. CallOf(m)'
  BY <1>1, <1>3, <1>5, <1>6, CallWithin DEF Asking, Holding, Copying
<1>8. ASSUME NEW o \in Managers, o # m PROVE CallOf(o)'
  <2>1. \A c \in Contents : lock[c] = o => lock'[c] = o
    BY <1>8, <1>2, CatalogAssumption DEF Lock, CallInv, TypeOK
  <2>2. QED BY <1>3, <1>5, <1>8, <2>1, CallElsewhere DEF CallInv, TypeOK, Lock, Goto
<1>9. QED BY <1>3, <1>4, <1>7, <1>8 DEF CallInv

\* A file changes, or the place a call is at, and the objects stay.
LEMMA CallAdvances ==
  ASSUME CallInv, NEW m \in Managers,
         NEW where \in {"download", "publish", "rename", "discard", "placed",
                       "remove", "link", "copy", "verify"},
         Goto(m, where),
         \/ pc[m] \in Asking /\ where \in Asking
         \/ pc[m] \in Installing /\ where \in Installing /\ at[m] \in Names,
         data' \in [FileIds -> Contents \cup {Broken}],
         output' \in [Names -> FileIds \cup {None}],
         objects' \in [Contents -> FileIds \cup {None}],
         temp' \in [Managers -> FileIds \cup {None}],
         source' \in [Managers -> FileIds \cup {None}],
         \A o \in Managers : o # m => temp'[o] = temp[o] /\ source'[o] = source[o],
         \A c \in Contents : objects[c] # None => objects'[c] # None,
         temp'[m] # None <=> where \in Holding \cup Copying,
         where \in Copying => source'[m] # None,
         where \in Locked => pc[m] \in Locked,
         where \in {"discard", "placed"} => objects'[Content(m)] # None,
         UNCHANGED <<manifest, linkable, lock, policy, version, at, answer, outcome, detached, counts>>
  PROVE  CallInv'
<1>1. TypeOK'
  BY DEF CallInv, TypeOK, Goto, manifest, counts, Asking, Installing
<1>2. DetachedOK' BY DEF CallInv, DetachedOK, counts
<1>3. pc'[m] = where BY DEF CallInv, TypeOK, Goto
<1>4. where \in Locked => lock'[Content(m)] = m BY DEF CallInv, CallOf
<1>5. CallOf(m)' BY <1>1, <1>3, <1>4, CallWithin
<1>6. ASSUME NEW o \in Managers, o # m PROVE CallOf(o)'
  BY <1>1, <1>6, CallElsewhere DEF CallInv, TypeOK, Goto
<1>7. QED BY <1>1, <1>2, <1>5, <1>6 DEF CallInv

LEMMA CallRecheck ==
  ASSUME CallInv, NEW m \in Managers, Recheck(m)
  PROVE  CallInv'
<1>1. pc[m] = "recheck" /\ pc[m] \in Asking BY DEF Recheck, Asking
<1>2. CASE Hit(m) BY <1>1, <1>2, HitIsThere, CallFound DEF Recheck, disk
<1>3. CASE ~Hit(m)
  <2>1. NewFile \in FileIds /\ NewFile # None BY NewFileIsFresh, CatalogAssumption
  <2>2. /\ temp' = [temp EXCEPT ![m] = NewFile] /\ data' = [data EXCEPT ![NewFile] = Broken]
        /\ Goto(m, "download") /\ UNCHANGED <<answer, at, lock>>
        /\ UNCHANGED <<manifest, linkable, objects, output, policy, version, source, outcome, detached, counts>>
    BY <1>3 DEF Recheck
  <2> HIDE DEF NewFile
  <2>3. data' \in [FileIds -> Contents \cup {Broken}] BY <2>1, <2>2 DEF CallInv, TypeOK
  <2>4. temp' \in [Managers -> FileIds \cup {None}] /\ temp'[m] # None
    BY <2>1, <2>2 DEF CallInv, TypeOK
  <2>5. \A o \in Managers : o # m => temp'[o] = temp[o] BY <2>2 DEF CallInv, TypeOK
  <2>6. /\ output \in [Names -> FileIds \cup {None}] /\ objects \in [Contents -> FileIds \cup {None}]
        /\ source \in [Managers -> FileIds \cup {None}]
    BY DEF CallInv, TypeOK
  <2>7. QED
    BY <1>1, <2>2, <2>3, <2>4, <2>5, <2>6, CallAdvances DEF Asking, Holding, Copying, Locked
<1>4. QED BY <1>2, <1>3

LEMMA CallPlaced ==
  ASSUME CallInv, NEW m \in Managers, Placed(m)
  PROVE  CallInv'
<1>1. pc[m] = "placed" /\ pc[m] \in Asking BY DEF Placed, Asking
<1>2. objects[Content(m)] # None BY <1>1 DEF CallInv, CallOf
<1>3. QED BY <1>1, <1>2, CallFound DEF Placed

\* A call that ends, and what it knew with it.
LEMMA CallEnds ==
  ASSUME CallInv, NEW m \in Managers, Forget(m), Goto(m, "idle"),
         \/ outcome' = [outcome EXCEPT ![m] = "error"]
         \/ outcome' = [outcome EXCEPT ![m] = "installed"],
         lock' \in [Contents -> Managers \cup {None}],
         \A o \in Managers, c \in Contents : o # m /\ lock[c] = o => lock'[c] = o,
         data' \in [FileIds -> Contents \cup {Broken}],
         answer' \in [Managers -> {"none", "ok", "error"}],
         temp' = [temp EXCEPT ![m] = None],
         source' = source \/ source' = [source EXCEPT ![m] = None],
         detached' \subseteq [file : FileIds \cup {None}, as : Contents \cup Versions],
         drops' \in 0..MaxDrops, DetachedOK',
         UNCHANGED <<manifest, linkable, objects, output, ensures>>
  PROVE  CallInv'
<1>1. TypeOK'
  <2>1. at' \in [Managers -> 1..(Len(Files) + 1)]
    BY CatalogAssumption DEF CallInv, TypeOK, Forget
  <2>2. QED
    BY <2>1 DEF CallInv, TypeOK, Forget, Goto, manifest, Asking, Installing, Policies
<1>2. CallOf(m)'
  <2>1. at'[m] = 1 /\ temp'[m] = None /\ outcome'[m] # "bundle" /\ pc'[m] = "idle"
    BY DEF CallInv, TypeOK, Forget, Goto
  <2>2. QED BY <2>1, CallOutside
<1>3. ASSUME NEW o \in Managers, o # m PROVE CallOf(o)'
  <2>1. /\ pc'[o] = pc[o] /\ outcome'[o] = outcome[o] /\ version'[o] = version[o] /\ at'[o] = at[o]
        /\ temp'[o] = temp[o] /\ source'[o] = source[o]
    BY <1>3 DEF CallInv, TypeOK, Forget, Goto
  <2>2. QED BY <1>1, <1>3, <2>1, CallElsewhere
<1>4. QED BY <1>1, <1>2, <1>3 DEF CallInv

LEMMA CallAskFails ==
  ASSUME CallInv, NEW m \in Managers, AskFails(m)
  PROVE  CallInv'
<1>1. lock' \in [Contents -> Managers \cup {None}] /\ answer' \in [Managers -> {"none", "ok", "error"}]
  BY DEF AskFails, CallInv, TypeOK
<1>2. \A o \in Managers, c \in Contents : o # m /\ lock[c] = o => lock'[c] = o BY DEF AskFails
<1>3. temp[m] = None BY DEF AskFails, CallInv, CallOf, Holding, Copying
<1>4. temp' = [temp EXCEPT ![m] = None]
  BY <1>3 DEF AskFails, CallInv, TypeOK
<1>5. DetachedOK' BY DEF CallInv, DetachedOK, AskFails, counts
<1>6. QED
  BY <1>1, <1>2, <1>4, <1>5, CallEnds DEF AskFails, Error, CallInv, TypeOK, disk, manifest, counts

LEMMA DiscardedKeepsType ==
  ASSUME CallInv, NEW f, NEW names, Discarded(f, names)
  PROVE  data' \in [FileIds -> Contents \cup {Broken}]
BY DEF CallInv, TypeOK, Discarded

LEMMA CallDownloadFails ==
  ASSUME CallInv, NEW m \in Managers, DownloadFails(m)
  PROVE  CallInv'
<1>1. pc[m] \in Locked /\ pc[m] \in Asking BY DEF DownloadFails, Locked, Asking
<1>2. Content(m) \in Contents BY <1>1, ContentIs
<1>3. lock[Content(m)] = m BY <1>1 DEF CallInv, CallOf
<1>4. lock' \in [Contents -> Managers \cup {None}] /\ answer' \in [Managers -> {"none", "ok", "error"}]
  BY DEF DownloadFails, CallInv, TypeOK
<1>5. \A o \in Managers, c \in Contents : o # m /\ lock[c] = o => lock'[c] = o
  BY <1>2, <1>3 DEF DownloadFails, CallInv, TypeOK
<1>6. data' \in [FileIds -> Contents \cup {Broken}] BY DiscardedKeepsType DEF DownloadFails
<1>7. DetachedOK' BY DEF CallInv, DetachedOK, DownloadFails, counts
<1>8. QED
  BY <1>4, <1>5, <1>6, <1>7, CallEnds DEF DownloadFails, Error, CallInv, TypeOK, manifest, counts

LEMMA CallDownload ==
  ASSUME CallInv, NEW m \in Managers,
         Download(m) \/ PublishObject(m) \/ Rename(m) \/ Discard(m)
  PROVE  CallInv'
<1>1. pc[m] \in Asking /\ pc[m] \in Holding
  BY DEF Download, PublishObject, Rename, Discard, Asking, Holding
<1>2. Content(m) \in Contents BY <1>1, ContentIs
<1>3. temp[m] # None BY <1>1 DEF CallInv, CallOf
<1>4. /\ data \in [FileIds -> Contents \cup {Broken}] /\ output \in [Names -> FileIds \cup {None}]
      /\ objects \in [Contents -> FileIds \cup {None}] /\ temp \in [Managers -> FileIds \cup {None}]
      /\ source \in [Managers -> FileIds \cup {None}]
  BY DEF CallInv, TypeOK
<1>5. CASE Download(m)
  <2>1. data' \in [FileIds -> Contents \cup {Broken}] BY <1>2, <1>4, <1>5 DEF Download
  <2>2. QED
    BY <1>1, <1>3, <1>4, <1>5, <2>1, CallAdvances DEF Download, call, Asking, Holding, Copying, Locked
<1>6. CASE PublishObject(m)
  <2>1. CASE Hit(m)
    <3>1. objects[Content(m)] # None BY <2>1, HitIsThere
    <3>2. QED
      BY <1>1, <1>3, <1>4, <1>6, <2>1, <3>1, CallAdvances
         DEF PublishObject, disk, call, Asking, Holding, Copying, Locked
  <2>2. CASE ~Hit(m)
    BY <1>1, <1>3, <1>4, <1>6, <2>2, CallAdvances
       DEF PublishObject, disk, call, Asking, Holding, Copying, Locked
  <2>3. QED BY <2>1, <2>2
<1>7. CASE Rename(m)
  <2>1. objects' \in [Contents -> FileIds \cup {None}] /\ objects'[Content(m)] # None
    BY <1>2, <1>3, <1>4, <1>7 DEF Rename
  <2>2. \A c \in Contents : objects[c] # None => objects'[c] # None
    BY <1>3, <1>4, <1>7 DEF Rename
  <2>3. /\ temp' \in [Managers -> FileIds \cup {None}] /\ temp'[m] = None
        /\ \A o \in Managers : o # m => temp'[o] = temp[o]
    BY <1>4, <1>7 DEF Rename
  <2>4. QED
    BY <1>1, <1>4, <1>7, <2>1, <2>2, <2>3, CallAdvances DEF Rename, Asking, Holding, Copying, Locked
<1>8. CASE Discard(m)
  <2>1. data' \in [FileIds -> Contents \cup {Broken}]
    BY <1>8, DiscardedKeepsType DEF Discard
  <2>2. /\ temp' \in [Managers -> FileIds \cup {None}] /\ temp'[m] = None
        /\ \A o \in Managers : o # m => temp'[o] = temp[o]
    BY <1>4, <1>8 DEF Discard
  <2>3. objects[Content(m)] # None BY <1>8 DEF Discard, CallInv, CallOf
  <2>4. QED
    BY <1>1, <1>4, <1>8, <2>1, <2>2, <2>3, CallAdvances DEF Discard, Asking, Holding, Copying, Locked
<1>9. QED BY <1>5, <1>6, <1>7, <1>8

LEMMA CallInstall ==
  ASSUME CallInv, NEW m \in Managers, Install(m)
  PROVE  CallInv'
<1>1. pc[m] = "idle" /\ outcome[m] = "bundle" BY DEF Install
<1>2. version[m] \in Versions /\ temp[m] = None BY <1>1 DEF CallInv, CallOf, Holding, Copying
<1>3. TypeOK'
  BY <1>2 DEF CallInv, TypeOK, Install, Goto, manifest, disk, call, counts, Asking, Installing
<1>4. DetachedOK' BY DEF CallInv, DetachedOK, Install, counts
<1>5. CallOf(m)'
  <2>1. /\ pc'[m] = "inspect" /\ outcome'[m] = "none" /\ temp' = temp /\ version' = version
        /\ objects' = objects
    BY DEF CallInv, TypeOK, Install, Goto, disk, call
  <2>2. Got(m) = Names BY <1>1 DEF Got
  <2>3. Got(m)' = Names BY <2>1 DEF Got, Installing
  <2>4. \A n \in Got(m) : objects[Bundle[version[m]][n]] # None BY DEF CallInv, CallOf
  <2>5. \A n \in Got(m)' : objects'[Bundle[version'[m]][n]] # None
    BY <2>1, <2>2, <2>3, <2>4
  <2>6. QED BY <1>2, <2>1, <2>5 DEF CallOf, Asking, Holding, Copying, Locked
<1>6. ASSUME NEW o \in Managers, o # m PROVE CallOf(o)'
  BY <1>3, <1>6, CallElsewhere DEF CallInv, TypeOK, Install, Goto, disk, call
<1>7. QED BY <1>3, <1>4, <1>5, <1>6 DEF CallInv

LEMMA CallInstallStops ==
  ASSUME CallInv, NEW m \in Managers, InstallFails(m) \/ InstallEnds(m)
  PROVE  CallInv'
<1>1. /\ lock' = lock /\ data' = data /\ answer' = answer /\ detached' = detached /\ drops' = drops
      /\ Forget(m) /\ Goto(m, "idle")
      /\ UNCHANGED <<manifest, linkable, objects, output, ensures>>
      /\ \/ outcome' = [outcome EXCEPT ![m] = "error"]
         \/ outcome' = [outcome EXCEPT ![m] = "installed"]
  BY DEF InstallFails, InstallEnds, Error, disk, counts
<1>2. source' = source \/ source' = [source EXCEPT ![m] = None]
  BY DEF InstallFails, InstallEnds
<1>3. temp' = [temp EXCEPT ![m] = None]
  <2>1. CASE InstallFails(m) BY <2>1 DEF InstallFails
  <2>2. CASE InstallEnds(m)
    <3>1. temp[m] = None BY <2>2 DEF InstallEnds, CallInv, CallOf, Holding, Copying
    <3>2. QED BY <2>2, <3>1 DEF InstallEnds, CallInv, TypeOK
  <2>3. QED BY <2>1, <2>2
<1>4. /\ lock \in [Contents -> Managers \cup {None}] /\ data \in [FileIds -> Contents \cup {Broken}]
      /\ answer \in [Managers -> {"none", "ok", "error"}] /\ drops \in 0..MaxDrops
      /\ detached \subseteq [file : FileIds \cup {None}, as : Contents \cup Versions]
  BY DEF CallInv, TypeOK
<1>5. DetachedOK' BY <1>1 DEF CallInv, DetachedOK
<1>6. QED BY <1>1, <1>2, <1>3, <1>4, <1>5, CallEnds

\* An output file is in place, and the installation goes on to the next.
LEMMA CallInstalled ==
  ASSUME CallInv, NEW m \in Managers, pc[m] \in Installing, at[m] \in Names, Installed(m),
         output' \in [Names -> FileIds \cup {None}],
         UNCHANGED <<manifest, linkable, objects, data, lock, policy, version, answer, outcome,
                     detached, counts>>
  PROVE  CallInv'
<1>1. at[m] + 1 \in 1..(Len(Files) + 1) BY CatalogAssumption DEF Names
<1>2. version[m] \in Versions BY DEF CallInv, TypeOK
<1>3. TypeOK'
  BY <1>1, <1>2 DEF CallInv, TypeOK, Installed, Goto, manifest, counts, Asking, Installing
<1>4. DetachedOK' BY DEF CallInv, DetachedOK, counts
<1>5. CallOf(m)'
  <2>1. /\ pc'[m] = "inspect" /\ temp'[m] = None
        /\ version' = version /\ outcome' = outcome /\ objects' = objects
    BY DEF CallInv, TypeOK, Installed, Goto
  <2>2. outcome[m] # "bundle" BY DEF CallInv, CallOf, Installing
  <2>3. Got(m) = Names /\ Got(m)' = Names BY <2>1 DEF Got, Installing
  <2>4. \A n \in Got(m) : objects[Bundle[version[m]][n]] # None BY DEF CallInv, CallOf
  <2>5. \A n \in Got(m)' : objects'[Bundle[version'[m]][n]] # None
    BY <2>1, <2>3, <2>4
  <2>6. QED BY <2>1, <2>2, <2>5 DEF CallOf, Asking, Holding, Copying, Locked
<1>6. ASSUME NEW o \in Managers, o # m PROVE CallOf(o)'
  BY <1>3, <1>6, CallElsewhere DEF CallInv, TypeOK, Installed, Goto
<1>7. QED BY <1>3, <1>4, <1>5, <1>6 DEF CallInv

LEMMA CallInstalling ==
  ASSUME CallInv, NEW m \in Managers,
         Inspect(m) \/ Remove(m) \/ Link(m) \/ Copy(m) \/ CopyBytes(m) \/ Verify(m)
  PROVE  CallInv'
<1>1. pc[m] \in Installing
  BY DEF Inspect, Remove, Link, Copy, CopyBytes, Verify, Installing
<1>2. at[m] \in Names
  BY DEF Inspect, Remove, Link, Copy, CopyBytes, Verify, CallInv, CallOf
<1>3. /\ data \in [FileIds -> Contents \cup {Broken}] /\ output \in [Names -> FileIds \cup {None}]
      /\ objects \in [Contents -> FileIds \cup {None}] /\ temp \in [Managers -> FileIds \cup {None}]
      /\ source \in [Managers -> FileIds \cup {None}]
  BY DEF CallInv, TypeOK
<1>4. Content(m) \in Contents /\ objects[Content(m)] # None
  <2>1. version[m] \in Versions BY <1>1 DEF CallInv, TypeOK
  <2>2. Got(m) = Names BY <1>1 DEF Got
  <2>3. objects[Content(m)] # None BY <1>2, <2>2 DEF CallInv, CallOf, Content
  <2>4. QED BY <1>2, <2>1, <2>3, BundleIs DEF Content
<1>5. CASE Inspect(m)
  <2>1. CASE Installed(m)
    BY <1>1, <1>2, <1>3, <1>5, <2>1, CallInstalled DEF Inspect, disk
  <2>2. CASE Goto(m, "remove") /\ UNCHANGED <<at, temp, source>>
    <3>1. temp[m] = None BY <1>5 DEF Inspect, CallInv, CallOf, Holding, Copying
    <3>2. QED
      BY <1>1, <1>2, <1>3, <1>5, <2>2, <3>1, CallAdvances
         DEF Inspect, disk, Installing, Holding, Copying, Locked
  <2>3. QED BY <1>5, <2>1, <2>2 DEF Inspect
<1>6. CASE Remove(m)
  <2>1. temp[m] = None BY <1>6 DEF Remove, CallInv, CallOf, Holding, Copying
  <2>2. data' \in [FileIds -> Contents \cup {Broken}]
    BY <1>3, <1>6, DiscardedKeepsType DEF Remove
  <2>3. output' \in [Names -> FileIds \cup {None}] BY <1>3, <1>6 DEF Remove
  <2>4. QED
    BY <1>1, <1>2, <1>3, <1>6, <2>1, <2>2, <2>3, CallAdvances
       DEF Remove, call, Installing, Holding, Copying, Locked
<1>7. CASE Link(m)
  <2>1. output' \in [Names -> FileIds \cup {None}] BY <1>3, <1>4, <1>7 DEF Link
  <2>2. QED BY <1>1, <1>2, <1>7, <2>1, CallInstalled DEF Link
<1>8. CASE Copy(m)
  <2>1. PICK target \in FileIds :
          /\ output' = [output EXCEPT ![at[m]] = target]
          /\ data' = [data EXCEPT ![target] = Broken]
          /\ temp' = [temp EXCEPT ![m] = target]
          /\ source' = [source EXCEPT ![m] = objects[Content(m)]]
    <3>1. NewFile \in FileIds BY NewFileIsFresh
    <3>2. output[at[m]] = None \/ output[at[m]] \in FileIds BY <1>2, <1>3
    <3> HIDE DEF NewFile
    <3>3. QED BY <1>8, <3>1, <3>2 DEF Copy
  <2>2. data' \in [FileIds -> Contents \cup {Broken}] BY <1>3, <2>1
  <2>3. /\ output' \in [Names -> FileIds \cup {None}] /\ temp' \in [Managers -> FileIds \cup {None}]
        /\ source' \in [Managers -> FileIds \cup {None}]
    BY <1>3, <1>4, <2>1
  <2>4. temp'[m] # None /\ source'[m] # None BY <1>3, <1>4, <2>1, CatalogAssumption
  <2>5. \A o \in Managers : o # m => temp'[o] = temp[o] /\ source'[o] = source[o]
    BY <1>3, <2>1
  <2>6. Goto(m, "copy") /\ UNCHANGED <<manifest, linkable, objects, lock, policy, version, at, answer,
                                      outcome, detached, counts>>
    BY <1>8 DEF Copy
  <2>7. QED
    BY <1>1, <1>2, <1>3, <2>2, <2>3, <2>4, <2>5, <2>6, CallAdvances
       DEF Installing, Holding, Copying, Locked
<1>9. CASE CopyBytes(m)
  <2>1. source[m] # None /\ temp[m] # None
    BY <1>9 DEF CopyBytes, CallInv, CallOf, Copying
  <2>2. data' \in [FileIds -> Contents \cup {Broken}] BY <1>3, <1>9, <2>1 DEF CopyBytes
  <2>3. QED
    BY <1>1, <1>2, <1>3, <1>9, <2>1, <2>2, CallAdvances
       DEF CopyBytes, call, Installing, Holding, Copying, Locked
<1>10. CASE Verify(m)
  BY <1>1, <1>2, <1>3, <1>10, CallInstalled DEF Verify, disk
<1>11. QED BY <1>5, <1>6, <1>7, <1>8, <1>9, <1>10

LEMMA CallDrop ==
  ASSUME CallInv, NEW m \in Managers, Drop(m)
  PROVE  CallInv'
<1>1. lock' \in [Contents -> Managers \cup {None}] /\ answer' \in [Managers -> {"none", "ok", "error"}]
  BY DEF Drop, CallInv, TypeOK
<1>2. \A o \in Managers, c \in Contents : o # m /\ lock[c] = o => lock'[c] = o BY DEF Drop
<1>3. drops \in 0..MaxDrops /\ drops' = drops + 1 /\ drops' \in 0..MaxDrops
  BY CatalogAssumption DEF Drop, CallInv, TypeOK
<1>4. \/ detached' = detached
      \/ \E d \in [file : FileIds \cup {None}, as : Contents \cup Versions] :
           /\ detached' = detached \cup {d}
           /\ IF d.file = None THEN d.as \in Versions ELSE d.as \in Contents
  <2>1. CASE pc[m] = "rename"
    <3>1. Content(m) \in Contents BY <2>1, ContentIs DEF Asking
    <3>2. temp[m] # None /\ temp[m] \in FileIds BY <2>1 DEF CallInv, CallOf, TypeOK, Holding
    <3>3. detached' = detached \cup {[file |-> temp[m], as |-> Content(m)]} BY <2>1 DEF Drop
    <3>4. QED BY <3>1, <3>2, <3>3
  <2>2. CASE pc[m] = "store"
    <3>1. version[m] \in Versions BY <2>2 DEF CallInv, TypeOK
    <3>2. detached' = detached \cup {[file |-> None, as |-> version[m]]} BY <2>2 DEF Drop
    <3>3. QED BY <3>1, <3>2
  <2>3. CASE pc[m] \notin {"rename", "store"} BY <2>3 DEF Drop
  <2>4. QED BY <2>1, <2>2, <2>3
<1>5. detached' \subseteq [file : FileIds \cup {None}, as : Contents \cup Versions]
  BY <1>4 DEF CallInv, TypeOK
<1>6. DetachedOK'
  <2>1. /\ IsFiniteSet(detached) /\ Cardinality(detached) <= drops
        /\ \A d \in detached : IF d.file = None THEN d.as \in Versions ELSE d.as \in Contents
    BY DEF CallInv, DetachedOK
  <2>2. Cardinality(detached) \in Nat BY <2>1, FS_CardinalityType
  <2>3. IsFiniteSet(detached') /\ Cardinality(detached') <= drops'
    <3>1. drops \in Int BY <1>3
    <3>2. CASE detached' = detached BY <1>3, <2>1, <2>2, <3>1, <3>2
    <3>3. ASSUME NEW d, detached' = detached \cup {d}
          PROVE  IsFiniteSet(detached') /\ Cardinality(detached') <= drops'
      <4>1. /\ IsFiniteSet(detached')
            /\ Cardinality(detached') = IF d \in detached THEN Cardinality(detached)
                                        ELSE Cardinality(detached) + 1
        BY <2>1, <3>3, FS_AddElement
      <4>2. QED BY <1>3, <2>1, <2>2, <3>1, <4>1
    <3>4. QED BY <1>4, <3>2, <3>3
  <2>4. \A d \in detached' : IF d.file = None THEN d.as \in Versions ELSE d.as \in Contents
    BY <1>4, <2>1
  <2>5. QED BY <2>3, <2>4 DEF DetachedOK
<1>7. QED
  BY <1>1, <1>2, <1>3, <1>5, <1>6, CallEnds DEF Drop, Error, disk, CallInv, TypeOK

LEMMA CallDetached ==
  ASSUME CallInv, NEW d \in detached, DetachedRename(d) \/ DetachedStore(d)
  PROVE  CallInv'
<1>1. /\ d \in [file : FileIds \cup {None}, as : Contents \cup Versions]
      /\ d.file # None => d.as \in Contents
      /\ d.file = None => d.as \in Versions
  BY DEF CallInv, TypeOK, DetachedOK
<1>2. /\ detached' = detached \ {d}
      /\ UNCHANGED <<server, linkable, output, data, lock, pc, call, answer, outcome, counts>>
  BY DEF DetachedRename, DetachedStore, manifest, disk
<1>3. /\ objects' \in [Contents -> FileIds \cup {None}]
      /\ \A c \in Contents : objects[c] # None => objects'[c] # None
  BY <1>1 DEF DetachedRename, DetachedStore, disk, CallInv, TypeOK
<1>4. cached' \in Versions \cup {None}
  BY <1>1 DEF DetachedRename, DetachedStore, manifest, CallInv, TypeOK
<1>5. TypeOK' BY <1>2, <1>3, <1>4 DEF CallInv, TypeOK, call, counts
<1>6. DetachedOK'
  <2>1. /\ IsFiniteSet(detached) /\ Cardinality(detached) <= drops /\ drops' = drops
        /\ \A e \in detached : IF e.file = None THEN e.as \in Versions ELSE e.as \in Contents
    BY <1>2 DEF CallInv, DetachedOK, counts
  <2>2. drops \in Nat BY CatalogAssumption DEF CallInv, TypeOK
  <2>3. IsFiniteSet(detached') /\ Cardinality(detached') <= Cardinality(detached)
    BY <1>2, <2>1, FS_Subset
  <2>4. Cardinality(detached) \in Nat /\ Cardinality(detached') \in Nat
    BY <2>1, <2>3, FS_CardinalityType
  <2>5. \A e \in detached' : IF e.file = None THEN e.as \in Versions ELSE e.as \in Contents
    BY <1>2, <2>1
  <2>6. QED BY <2>1, <2>2, <2>3, <2>4, <2>5 DEF DetachedOK
<1>7. ASSUME NEW o \in Managers PROVE CallOf(o)'
  BY <1>2, <1>3, <1>5, CallElsewhere DEF call
<1>8. QED BY <1>5, <1>6, <1>7 DEF CallInv

LEMMA CallStutters ==
  ASSUME CallInv, UNCHANGED vars
  PROVE  CallInv'
<1>1. TypeOK' BY DEF CallInv, TypeOK, vars, manifest, disk, call, counts
<1>2. DetachedOK' BY DEF CallInv, DetachedOK, vars, counts
<1>3. ASSUME NEW o \in Managers PROVE CallOf(o)'
  BY <1>1, CallElsewhere DEF vars, disk, call
<1>4. QED BY <1>1, <1>2, <1>3 DEF CallInv

\* The call invariant holds in every state: each call is where its variables
\* say, with the lock of its artifact, and what it was told is there has a file.
THEOREM CallsAreSound == Spec => []CallInv
<1>1. Init => CallInv BY CallInit
<1>2. CallInv /\ [Next]_vars => CallInv'
  <2>1. SUFFICES ASSUME CallInv, [Next]_vars PROVE CallInv' OBVIOUS
  <2>2. CASE UNCHANGED vars BY <2>1, <2>2, CallStutters
  <2>3. CASE Publish BY <2>1, <2>3, CallPublish
  <2>4. ASSUME NEW m \in Managers, Step(m) PROVE CallInv'
    BY <2>1, <2>4, CallManifest, CallNextFile, CallEnsureEnds, CallProbe, CallLock, CallRecheck,
       CallDownload, CallDownloadFails, CallPlaced, CallInstallStops, CallInstalling DEF Step
  <2>5. ASSUME NEW m \in Managers, AskFails(m) \/ Install(m) \/ Drop(m) PROVE CallInv'
    BY <2>1, <2>5, CallAskFails, CallInstall, CallDrop
  <2>6. ASSUME NEW m \in Managers, NEW p \in Policies, Ensure(m, p) PROVE CallInv'
    BY <2>1, <2>6, CallEnsure
  <2>7. ASSUME NEW d \in detached, DetachedRename(d) \/ DetachedStore(d) PROVE CallInv'
    BY <2>1, <2>7, CallDetached
  <2>8. QED BY <2>1, <2>2, <2>3, <2>4, <2>5, <2>6, <2>7 DEF Next
<1>3. QED BY <1>1, <1>2, PTL DEF Spec

\* Every variable keeps its type, in every instance.
THEOREM TypeCorrect == Spec => []TypeOK
<1>1. CallInv => TypeOK BY DEF CallInv
<1>2. QED BY <1>1, CallsAreSound, PTL

-----------------------------------------------------------------------------
(* Downloads. *)

\* A download begins under the lock, when the artifact was not there on the
\* second look, and in no other step.
LEMMA DownloadsBegin ==
  ASSUME CallInv, NEW m \in Managers, Next, pc[m] # "download", pc'[m] = "download"
  PROVE  Recheck(m) /\ ~Hit(m)
<1>1. ASSUME NEW o \in Managers, NEW where, Goto(o, where), where # "download"
      PROVE  FALSE
  BY <1>1 DEF CallInv, TypeOK, Goto
<1>2. ASSUME pc' = pc PROVE FALSE BY <1>2
<1>3. CASE Publish BY <1>2, <1>3 DEF Publish
<1>4. ASSUME NEW o \in Managers, LoadManifest(o) \/ Fetch(o) \/ StoreManifest(o) \/ FetchFails(o)
      PROVE  FALSE
  BY <1>1, <1>4 DEF LoadManifest, Fetch, StoreManifest, FetchFails, ReadCached, Error
<1>5. ASSUME NEW o \in Managers,
             NextFile(o) \/ EnsureEnds(o) \/ Probe(o) \/ Lock(o) \/ AskFails(o) \/ Drop(o)
      PROVE  FALSE
  BY <1>1, <1>5 DEF NextFile, EnsureEnds, Probe, Lock, AskFails, Drop, Found, Error
<1>6. ASSUME NEW o \in Managers, Download(o) \/ DownloadFails(o) \/ Rename(o) \/ Discard(o) \/ Placed(o)
      PROVE  FALSE
  BY <1>1, <1>6 DEF Download, DownloadFails, Rename, Discard, Placed, Found, Error
<1>7. ASSUME NEW o \in Managers, PublishObject(o) PROVE FALSE
  <2>1. Goto(o, "discard") \/ Goto(o, "rename") BY <1>7 DEF PublishObject
  <2>2. QED BY <1>1, <2>1
<1>8. ASSUME NEW o \in Managers, Install(o) \/ InstallFails(o) \/ InstallEnds(o) PROVE FALSE
  BY <1>1, <1>8 DEF Install, InstallFails, InstallEnds, Error
<1>9. ASSUME NEW o \in Managers, Inspect(o) \/ Remove(o) \/ Link(o) \/ Verify(o) PROVE FALSE
  BY <1>1, <1>9 DEF Inspect, Remove, Link, Verify, Installed
<1>10. ASSUME NEW o \in Managers, Copy(o) \/ CopyBytes(o) PROVE FALSE
  BY <1>1, <1>10 DEF Copy, CopyBytes
<1>11. ASSUME NEW o \in Managers, NEW p \in Policies, Ensure(o, p) PROVE FALSE
  BY <1>1, <1>11 DEF Ensure
<1>12. ASSUME NEW d \in detached, DetachedRename(d) \/ DetachedStore(d) PROVE FALSE
  BY <1>2, <1>12 DEF DetachedRename, DetachedStore
<1>13. ASSUME NEW o \in Managers, Recheck(o) PROVE o = m /\ ~Hit(o)
  <2>1. CASE Hit(o) BY <1>1, <1>13, <2>1 DEF Recheck, Found
  <2>2. CASE ~Hit(o)
    <3>1. Goto(o, "download") BY <1>13, <2>2 DEF Recheck
    <3>2. QED BY <2>2, <3>1 DEF Goto, CallInv, TypeOK
  <2>3. QED BY <2>1, <2>2
<1>14. \E o \in Managers : Recheck(o)
  BY <1>3, <1>4, <1>5, <1>6, <1>7, <1>8, <1>9, <1>10, <1>11, <1>12 DEF Next, Step
<1>15. QED BY <1>13, <1>14

\* A whole artifact is found by its size.
LEMMA WholeIsHit ==
  ASSUME NEW c \in Contents, Whole(c)
  PROVE  SizeMatches(objects[c], c)
BY CatalogAssumption DEF Whole, SizeMatches

\* Nobody downloads an artifact that is there, or that another is downloading:
\* a download begins with its lock held, after a look under it.
THEOREM DownloadsAreNeeded == Spec => NoNeedlessDownload
<1> DEFINE Needed ==
      \A m \in Managers : pc[m] # "download" /\ pc'[m] = "download" =>
        /\ ~Whole(Content(m))
        /\ \A o \in Managers \ {m} :
             pc[o] \in {"download", "publish"} => Content(o) # Content(m)
<1>1. CallInv /\ [Next]_vars => [Needed]_vars
  <2>1. SUFFICES ASSUME CallInv, Next, NEW m \in Managers, pc[m] # "download", pc'[m] = "download"
                 PROVE  /\ ~Whole(Content(m))
                        /\ \A o \in Managers \ {m} :
                             pc[o] \in {"download", "publish"} => Content(o) # Content(m)
    OBVIOUS
  <2>2. pc[m] = "recheck" /\ ~Hit(m) BY <2>1, DownloadsBegin DEF Recheck
  <2>3. Content(m) \in Contents BY <2>1, <2>2, ContentIs DEF Asking
  <2>4. ~Whole(Content(m)) BY <2>2, <2>3, WholeIsHit DEF Hit, Present
  <2>5. \A o \in Managers : pc[o] \in Locked => lock[Content(o)] = o
    BY <2>1 DEF CallInv, CallOf
  <2>6. lock[Content(m)] = m BY <2>2, <2>5 DEF Locked
  <2>7. QED BY <2>4, <2>5, <2>6 DEF Locked
<1>2. QED BY <1>1, CallsAreSound, PTL DEF Spec, NoNeedlessDownload

-----------------------------------------------------------------------------
(* FileInv: what each kind of step leaves alone. *)

\* Objects whose files nobody writes to stay whole, and so does one replaced by
\* a verified file.
LEMMA ObjectsKept ==
  ASSUME FileInv,
         \A c \in Contents : objects[c] # None => data'[objects[c]] = data[objects[c]],
         \A c \in Contents :
           \/ objects'[c] = objects[c]
           \/ ~Rotted(c) /\ objects'[c] # None /\ data'[objects'[c]] = c
  PROVE  ObjectsOK' /\ GoOn
<1>1. ASSUME NEW c \in Contents
      PROVE  /\ Present(c) => Present(c)'
             /\ Rotted(c)' => Rotted(c)
             /\ Rotted(c) => c \in Damaged /\ Present(c)
             /\ \A f \in FileIds : data'[f] = data[f] /\ Good(f, c) => Good(f, c)'
  <2>1. Rotted(c) => c \in Damaged /\ Present(c) BY DEF FileInv, ObjectsOK
  <2>2. CASE objects'[c] = objects[c]
    BY <2>1, <2>2 DEF Present, SizeMatches, Rotted, Good
  <2>3. CASE ~Rotted(c) /\ objects'[c] # None /\ data'[objects'[c]] = c
    <3>1. Present(c)' /\ ~Rotted(c)' BY <2>3, CatalogAssumption DEF Present, SizeMatches, Rotted
    <3>2. Present(c) => data[objects[c]] = c BY <2>3 DEF Present, SizeMatches, Rotted
    <3>3. \A f \in FileIds : data'[f] = data[f] /\ Good(f, c) => Good(f, c)'
      BY <3>2 DEF Good
    <3>4. QED BY <2>1, <3>1, <3>3
  <2>4. QED BY <2>2, <2>3
<1>2. GoOn BY <1>1 DEF GoOn
<1>3. ObjectsOK' BY <1>1 DEF ObjectsOK
<1>4. QED BY <1>2, <1>3

\* What is missed is not rotted, for that is of its size.
LEMMA MissIsNotRotted ==
  ASSUME FileInv, NEW c \in Contents, ~Present(c)
  PROVE  ~Rotted(c)
BY DEF FileInv, ObjectsOK

\* What is in the output directory stays good, unless it is written to.
LEMMA GoodKept ==
  ASSUME CallInv, GoOn, NEW c \in Contents, NEW n \in Names,
         output'[n] = output[n], output[n] # None => data'[output[n]] = data[output[n]],
         Good(output[n], c)
  PROVE  Good(output[n], c)'
<1>1. output[n] # None /\ output[n] \in FileIds BY DEF Good, CallInv, TypeOK
<1>2. PICK f \in FileIds : f = output[n] BY <1>1
<1>3. Good(f, c)' BY <1>1, <1>2 DEF GoOn
<1>4. QED BY <1>2, <1>3 DEF Good

LEMMA InstalledKept ==
  ASSUME CallInv, FileInv, GoOn, NEW m \in Managers,
         pc[m] \in Installing, version'[m] = version[m],
         \A n \in 1..(at[m] - 1) :
           output'[n] = output[n] /\ (output[n] # None => data'[output[n]] = data[output[n]])
  PROVE  \A n \in 1..(at[m] - 1) : Good(output[n], Bundle[version[m]][n])'
<1>1. SUFFICES ASSUME NEW n \in 1..(at[m] - 1) PROVE Good(output[n], Bundle[version[m]][n])'
  OBVIOUS
<1>2. version[m] \in Versions /\ at[m] \in 1..(Len(Files) + 1) BY DEF CallInv, TypeOK
<1>3. n \in Names BY <1>1, <1>2, CatalogAssumption DEF Names
<1>4. PICK c \in Contents : c = Bundle[version[m]][n] BY <1>2, <1>3, BundleIs
<1>5. Good(output[n], c) BY <1>1, <1>4 DEF FileInv, WorkOf
<1>6. Good(output[n], c)' BY <1>1, <1>3, <1>5, GoodKept
<1>7. QED BY <1>4, <1>6 DEF Good

\* What a manager has is named by its version's manifest.
LEMMA GotIs ==
  ASSUME CallInv, NEW m \in Managers, NEW n \in Got(m)
  PROVE  version[m] \in Versions /\ n \in Names
<1>1. CallOf(m) /\ at[m] \in 1..(Len(Files) + 1) BY DEF CallInv, TypeOK
<1>2. pc[m] \in {"next"} \cup Asking \cup Installing => version[m] \in Versions
  BY DEF CallInv, TypeOK
<1>3. version[m] \in Versions BY <1>1, <1>2 DEF Got, CallOf
<1>4. n \in Names \/ n \in 1..(at[m] - 1) BY DEF Got
<1>5. Len(Files) \in Nat BY CatalogAssumption
<1>6. QED BY <1>1, <1>3, <1>4, <1>5 DEF Names

\* A manager that takes no step keeps what it has.
LEMMA WorkElsewhere ==
  ASSUME CallInv, FileInv, NEW o \in Managers,
         pc'[o] = pc[o], outcome'[o] = outcome[o], version'[o] = version[o], at'[o] = at[o],
         temp'[o] = temp[o],
         GoOn,
         pc[o] \in {"publish", "rename", "discard"} => data'[temp[o]] = data[temp[o]],
         pc[o] \in Installing =>
           \A n \in Names :
             /\ output'[n] = output[n]
             /\ output[n] # None => data'[output[n]] = data[output[n]]
  PROVE  WorkOf(o)'
<1>1. CallOf(o) /\ WorkOf(o) BY DEF CallInv, FileInv
<1>2. Got(o)' = Got(o) /\ Content(o)' = Content(o) BY DEF Got, Content
<1>3. /\ pc[o] \in {"store", "next"} \cup Asking \cup Installing => version[o] \in Versions
      /\ at[o] \in 1..(Len(Files) + 1)
  BY DEF CallInv, TypeOK
<1>4. pc[o] \in {"discard", "placed"} => Content(o) \in Contents BY ContentIs DEF Asking
<1>5. ASSUME NEW n \in Got(o) PROVE Bundle[version[o]][n] \in Contents
  BY <1>5, GotIs, BundleIs
<1>6. \A n \in Got(o)' : Present(Bundle[version[o]][n])'
  <2>1. SUFFICES ASSUME NEW n \in Got(o) PROVE Present(Bundle[version[o]][n])'
    BY <1>2
  <2>2. PICK c \in Contents : c = Bundle[version[o]][n] BY <1>5
  <2>3. Present(c) BY <1>1, <2>2 DEF WorkOf
  <2>4. Present(c)' BY <2>3 DEF GoOn
  <2>5. QED BY <2>2, <2>4 DEF Present, SizeMatches
<1>7. /\ pc'[o] \in {"publish", "rename", "discard"} => data'[temp'[o]] = Content(o)'
      /\ pc'[o] \in {"download", "publish", "rename"} => ~Rotted(Content(o))'
  <2>1. pc[o] \in {"download", "publish", "rename"} => Content(o) \in Contents /\ ~Rotted(Content(o))
    BY <1>1, ContentIs DEF WorkOf, Asking
  <2>2. QED BY <1>1, <1>2, <2>1 DEF WorkOf, GoOn, Rotted
<1>8. pc'[o] \in {"discard", "placed"} => Present(Content(o))'
  <2>1. pc[o] \in {"discard", "placed"} => Present(Content(o)) BY <1>1 DEF WorkOf
  <2>2. QED BY <1>2, <1>4, <2>1 DEF Present, SizeMatches, GoOn
<1>9. pc'[o] \in Installing =>
        \A n \in 1..(at'[o] - 1) : Good(output[n], Bundle[version[o]][n])'
  <2>1. \A n \in 1..(at[o] - 1) : n \in Names BY <1>3, CatalogAssumption DEF Names
  <2>2. QED BY <2>1, InstalledKept
<1>10. QED BY <1>6, <1>7, <1>8, <1>9 DEF WorkOf

\* A file being written stays without another name.
LEMMA TempKept ==
  ASSUME CallInv, FileInv, NEW o \in Managers,
         \/ temp'[o] = None
         \/ /\ temp'[o] = temp[o]
            /\ pc[o] \in Copying => pc'[o] \in Copying /\ at'[o] = at[o]
            /\ \A c \in Contents : objects'[c] = objects[c] \/ objects'[c] # temp[o]
            /\ \A n \in Names : output'[n] = output[n] \/ output'[n] # temp[o]
            /\ \A q \in Managers : q # o => temp'[q] = temp[q] \/ temp'[q] # temp[o]
            /\ \A d \in detached' : d \in detached \/ d.file # temp[o]
  PROVE  TempOf(o)'
<1>1. TempOf(o) BY DEF FileInv
<1>2. CASE temp'[o] = None BY <1>2 DEF TempOf
<1>3. CASE temp'[o] # None
  <2>1. /\ \A c \in Contents : objects'[c] # temp'[o]
        /\ \A q \in Managers : q # o => temp'[q] # temp'[o]
        /\ \A d \in detached' : d.file # temp'[o]
    BY <1>1, <1>3 DEF TempOf
  <2>2. \A n \in Names : output'[n] = temp'[o] => pc'[o] \in Copying /\ n = at'[o]
    BY <1>1, <1>3 DEF TempOf
  <2>3. QED BY <2>1, <2>2 DEF TempOf
<1>4. QED BY <1>2, <1>3

\* A rename that may still be done stays one of a verified file without a name.
LEMMA RenameKept ==
  ASSUME CallInv, FileInv, GoOn, NEW d \in detached,
         d.file # None =>
           /\ data'[d.file] = data[d.file]
           /\ \A c \in Contents : objects'[c] = objects[c] \/ objects'[c] # d.file
           /\ \A n \in Names : output'[n] = output[n] \/ output'[n] # d.file
           /\ \A e \in detached' : e \in detached \/ e.file # d.file
  PROVE  RenameOf(d)'
<1>1. CASE d.file = None BY <1>1 DEF RenameOf
<1>2. CASE d.file # None
  <2>1. RenameOf(d) /\ d.as \in Contents BY <1>2 DEF FileInv, CallInv, DetachedOK
  <2>2. ~Rotted(d.as)' BY <1>2, <2>1 DEF RenameOf, GoOn
  <2>3. QED BY <1>2, <2>1, <2>2 DEF RenameOf
<1>3. QED BY <1>1, <1>2

\* Nobody else begins to install.
LEMMA InstallerKept ==
  ASSUME FileInv, \A o \in Managers : pc'[o] \in Installing => pc[o] \in Installing
  PROVE  OneInstaller'
BY DEF FileInv, OneInstaller

\* A step that leaves every file alone.
LEMMA FileQuiet ==
  ASSUME CallInv, FileInv, NEW m \in Managers,
         UNCHANGED disk, detached' \subseteq detached,
         \A o \in Managers : o # m =>
           /\ pc'[o] = pc[o] /\ outcome'[o] = outcome[o] /\ version'[o] = version[o]
           /\ at'[o] = at[o] /\ temp'[o] = temp[o],
         \/ temp'[m] = None
         \/ temp'[m] = temp[m] /\ (pc[m] \in Copying => pc'[m] \in Copying /\ at'[m] = at[m]),
         pc'[m] \in Installing => pc[m] \in Installing,
         WorkOf(m)'
  PROVE  FileInv'
<1>1. objects' = objects /\ output' = output /\ data' = data BY DEF disk
<1>2. ObjectsOK' /\ GoOn BY <1>1, ObjectsKept
<1>3. ASSUME NEW o \in Managers PROVE TempOf(o)'
  <2>1. \A q \in Managers : q # o => temp'[q] = temp[q] \/ temp'[q] # temp[o] \/ temp[o] = None
    OBVIOUS
  <2>2. CASE temp'[o] = None BY <2>2, TempKept
  <2>3. CASE temp'[o] # None
    <3>1. temp'[o] = temp[o] BY <2>3
    <3>2. pc[o] \in Copying => pc'[o] \in Copying /\ at'[o] = at[o] BY <2>3
    <3>3. QED BY <1>1, <2>1, <2>3, <3>1, <3>2, TempKept
  <2>4. QED BY <2>2, <2>3
<1>4. ASSUME NEW d \in detached' PROVE RenameOf(d)'
  <2>1. d \in detached BY <1>4
  <2>2. QED BY <1>1, <1>2, <2>1, RenameKept
<1>5. ASSUME NEW o \in Managers PROVE WorkOf(o)'
  <2>1. CASE o = m BY <2>1
  <2>2. CASE o # m BY <1>1, <1>2, <2>2, WorkElsewhere
  <2>3. QED BY <2>1, <2>2
<1>6. OneInstaller' BY InstallerKept
<1>7. QED BY <1>2, <1>3, <1>4, <1>5, <1>6 DEF FileInv

-----------------------------------------------------------------------------
(* FileInv: the steps that touch no file. *)

\* A call outside its artifacts has been told of none.
LEMMA WorkOutside ==
  ASSUME NEW m \in Managers, at'[m] = 1, outcome'[m] # "bundle",
         pc'[m] \in {"idle", "manifest", "fetch", "store", "next"}
  PROVE  WorkOf(m)'
<1>1. Got(m)' = {} BY DEF Got, Asking, Installing
<1>2. QED BY <1>1 DEF WorkOf, Installing

LEMMA FileManifest ==
  ASSUME CallInv, FileInv, NEW m \in Managers,
         \/ \E p \in Policies : Ensure(m, p)
         \/ LoadManifest(m) \/ Fetch(m) \/ StoreManifest(m) \/ FetchFails(m)
  PROVE  FileInv'
<1>1. pc[m] \in {"idle", "manifest", "fetch", "store"}
  BY DEF Ensure, LoadManifest, Fetch, StoreManifest, FetchFails
<1>2. UNCHANGED disk /\ detached' = detached /\ temp' = temp
  BY DEF Ensure, LoadManifest, Fetch, StoreManifest, FetchFails, call
<1>3. /\ pc'[m] \in {"idle", "manifest", "fetch", "store", "next"}
      /\ \A o \in Managers : o # m => pc'[o] = pc[o]
  BY DEF Ensure, LoadManifest, Fetch, StoreManifest, FetchFails, ReadCached, Error, Goto, CallInv, TypeOK
<1>4. /\ at' = at \/ at' = [at EXCEPT ![m] = 1]
      /\ \/ outcome' = outcome /\ pc[m] # "idle"
         \/ \E e \in {"none", "error"} : outcome' = [outcome EXCEPT ![m] = e]
      /\ version' = version \/ \E v : version' = [version EXCEPT ![m] = v]
  BY DEF Ensure, LoadManifest, Fetch, StoreManifest, FetchFails, ReadCached, Error, Forget, call
<1>5. at[m] = 1 /\ temp[m] = None /\ (pc[m] # "idle" => outcome[m] # "bundle")
  BY <1>1 DEF CallInv, CallOf, Holding, Copying
<1>6. \A o \in Managers : o # m => outcome'[o] = outcome[o] /\ version'[o] = version[o] /\ at'[o] = at[o]
  BY <1>4 DEF CallInv, TypeOK
<1>7. at'[m] = 1 /\ outcome'[m] # "bundle" BY <1>4, <1>5 DEF CallInv, TypeOK
<1>8. WorkOf(m)' BY <1>3, <1>7, WorkOutside
<1>9. pc'[m] \notin Installing BY <1>3 DEF Installing
<1>10. QED BY <1>2, <1>3, <1>5, <1>6, <1>8, <1>9, FileQuiet

\* A call that ends, and touches no file.
LEMMA FileEnds ==
  ASSUME CallInv, FileInv, NEW m \in Managers, AskFails(m) \/ InstallFails(m) \/ InstallEnds(m)
  PROVE  FileInv'
<1>1. UNCHANGED disk /\ detached' = detached BY DEF AskFails, InstallFails, InstallEnds
<1>2. temp' = temp \/ temp' = [temp EXCEPT ![m] = None]
  BY DEF AskFails, InstallFails, InstallEnds
<1>3. temp'[m] = None
  BY <1>2 DEF AskFails, InstallFails, InstallEnds, CallInv, CallOf, TypeOK, Holding, Copying
<1>4. /\ pc' = [pc EXCEPT ![m] = "idle"] /\ at' = [at EXCEPT ![m] = 1]
      /\ version' = [version EXCEPT ![m] = None]
      /\ \E e \in {"error", "installed"} : outcome' = [outcome EXCEPT ![m] = e]
  BY DEF AskFails, InstallFails, InstallEnds, Error, Forget, Goto
<1>5. \A o \in Managers : o # m =>
        /\ pc'[o] = pc[o] /\ outcome'[o] = outcome[o] /\ version'[o] = version[o]
        /\ at'[o] = at[o] /\ temp'[o] = temp[o]
  BY <1>2, <1>4 DEF CallInv, TypeOK
<1>6. pc'[m] = "idle" /\ at'[m] = 1 /\ outcome'[m] # "bundle"
  BY <1>4 DEF CallInv, TypeOK
<1>7. WorkOf(m)' BY <1>6, WorkOutside
<1>8. pc'[m] \notin Installing BY <1>6 DEF Installing
<1>9. QED BY <1>1, <1>3, <1>5, <1>7, <1>8, FileQuiet

\* A call that stays at its artifact has what it had.
LEMMA WorkAsking ==
  ASSUME CallInv, FileInv, NEW m \in Managers,
         pc[m] \in {"next"} \cup Asking, pc'[m] \in Asking,
         outcome'[m] = outcome[m], version'[m] = version[m], at'[m] = at[m],
         GoOn,
         pc'[m] \in {"publish", "rename", "discard"} => data'[temp'[m]] = Content(m),
         pc'[m] \in {"download", "publish", "rename"} =>
           Content(m) \in Contents /\ ~Rotted(Content(m)),
         pc'[m] \in {"discard", "placed"} => Content(m) \in Contents /\ Present(Content(m))'
  PROVE  WorkOf(m)'
<1>1. outcome[m] # "bundle" BY DEF CallInv, CallOf, Asking
<1>2. Got(m)' = Got(m) BY <1>1 DEF Got, Asking, Installing
<1>3. Content(m)' = Content(m) BY DEF Content
<1>4. ASSUME NEW n \in Got(m) PROVE Bundle[version[m]][n] \in Contents /\ Present(Bundle[version[m]][n])
  <2>1. Bundle[version[m]][n] \in Contents BY <1>4, GotIs, BundleIs
  <2>2. Present(Bundle[version[m]][n]) BY <1>4 DEF FileInv, WorkOf
  <2>3. QED BY <2>1, <2>2
<1>5. \A n \in Got(m)' : Present(Bundle[version[m]][n])' BY <1>2, <1>4 DEF Present, SizeMatches, GoOn
<1>6. pc'[m] \notin Installing /\ pc'[m] # "link" BY DEF Asking, Installing
<1>7. pc'[m] \in {"publish", "rename", "discard"} => data'[temp'[m]] = Content(m)' BY <1>3
<1>8. pc'[m] \in {"download", "publish", "rename"} => ~Rotted(Content(m))'
  BY <1>3 DEF GoOn, Rotted
<1>9. QED BY <1>5, <1>6, <1>7, <1>8 DEF WorkOf

\* A call that has been told of its artifact has it, too.
LEMMA FileFound ==
  ASSUME CallInv, FileInv, NEW m \in Managers, pc[m] \in Asking, Found(m), Present(Content(m)),
         UNCHANGED <<disk, version, outcome, detached>>
  PROVE  FileInv'
<1>1. version[m] \in Versions /\ at[m] \in Names BY ContentIs
<1>2. /\ pc'[m] = "next" /\ at'[m] = at[m] + 1 /\ temp'[m] = None
      /\ \A o \in Managers : o # m => pc'[o] = pc[o] /\ at'[o] = at[o] /\ temp'[o] = temp[o]
  BY DEF CallInv, TypeOK, Found, Goto
<1>3. outcome[m] # "bundle" BY DEF CallInv, CallOf, Asking
<1>4. Got(m) = 1..(at[m] - 1) BY <1>3 DEF Got, Asking, Installing
<1>5. Got(m)' = 1..at[m]
  <2>1. Got(m)' = 1..(at'[m] - 1) BY <1>2, <1>3 DEF Got, Installing
  <2>2. QED BY <1>1, <1>2, <2>1 DEF Names
<1>6. \A n \in 1..at[m] : n = at[m] \/ n \in 1..(at[m] - 1) BY <1>1 DEF Names
<1>7. \A n \in Got(m) : Present(Bundle[version[m]][n]) BY DEF FileInv, WorkOf
<1>8. \A n \in 1..at[m] : Present(Bundle[version[m]][n]) BY <1>4, <1>6, <1>7 DEF Content
<1>9. objects' = objects /\ data' = data BY DEF disk
<1>10. \A n \in Got(m)' : Present(Bundle[version[m]][n])'
  BY <1>5, <1>8, <1>9 DEF Present, SizeMatches, GoOn
<1>11. WorkOf(m)' BY <1>2, <1>10 DEF WorkOf, Installing
<1>12. pc'[m] \notin Installing BY <1>2 DEF Installing
<1>13. QED BY <1>2, <1>11, <1>12, FileQuiet

\* A call that goes from one look at its artifact to the next.
LEMMA FileLooks ==
  ASSUME CallInv, FileInv, NEW m \in Managers,
         \/ NextFile(m) \/ Lock(m) \/ PublishObject(m)
         \/ Probe(m) /\ ~Hit(m)
  PROVE  FileInv'
<1>1. /\ pc[m] \in {"next"} \cup Asking
      /\ UNCHANGED disk /\ UNCHANGED <<version, at, temp, outcome, detached>>
  BY DEF NextFile, Lock, PublishObject, Probe, Asking, call
<1>2. PICK where \in {"probe", "lock", "recheck", "discard", "rename"} :
        /\ Goto(m, where)
        /\ where = "discard" => pc[m] = "publish" /\ Hit(m)
        /\ where = "rename" => pc[m] = "publish"
  <2>1. CASE NextFile(m) BY <2>1 DEF NextFile
  <2>2. CASE Lock(m) BY <2>2 DEF Lock
  <2>3. CASE Probe(m) /\ ~Hit(m) BY <2>3 DEF Probe
  <2>4. CASE PublishObject(m) BY <2>4 DEF PublishObject
  <2>5. QED BY <2>1, <2>2, <2>3, <2>4
<1>3. pc'[m] = where /\ \A o \in Managers : o # m => pc'[o] = pc[o]
  BY <1>2 DEF CallInv, TypeOK, Goto
<1>4. objects' = objects /\ data' = data BY <1>1 DEF disk
<1>5. GoOn BY <1>4, ObjectsKept
<1>6. pc[m] = "publish" => data[temp[m]] = Content(m) BY DEF FileInv, WorkOf
<1>7. pc[m] = "publish" => Content(m) \in Contents BY ContentIs DEF Asking
<1>8. /\ where = "discard" => Content(m) \in Contents /\ Present(Content(m))
      /\ where = "rename" => Content(m) \in Contents /\ ~Rotted(Content(m))
  BY <1>2, <1>7 DEF Hit, FileInv, WorkOf
<1>9. where = "discard" => Present(Content(m))' BY <1>1, <1>4, <1>8 DEF Present, SizeMatches, GoOn, Content
<1>10. pc'[m] \in Asking BY <1>3 DEF Asking
<1>11. pc'[m] \in {"publish", "rename", "discard"} => data'[temp'[m]] = Content(m)
  BY <1>1, <1>2, <1>3, <1>4, <1>6
<1>12. WorkOf(m)'
  BY <1>1, <1>3, <1>5, <1>8, <1>9, <1>10, <1>11, WorkAsking
<1>13. pc'[m] \notin Installing /\ pc[m] \notin Copying BY <1>1, <1>10 DEF Installing, Asking, Copying
<1>14. QED BY <1>1, <1>3, <1>12, <1>13, FileQuiet

LEMMA FileEnsureEnds ==
  ASSUME CallInv, FileInv, NEW m \in Managers, EnsureEnds(m)
  PROVE  FileInv'
<1>1. /\ pc[m] = "next" /\ at[m] \notin Names
      /\ UNCHANGED disk /\ UNCHANGED <<version, temp, detached>>
      /\ outcome' = [outcome EXCEPT ![m] = "bundle"]
      /\ at' = [at EXCEPT ![m] = 1] /\ pc' = [pc EXCEPT ![m] = "idle"]
  BY DEF EnsureEnds, Goto
<1>2. /\ pc'[m] = "idle" /\ outcome'[m] = "bundle"
      /\ \A o \in Managers : o # m => pc'[o] = pc[o] /\ at'[o] = at[o] /\ outcome'[o] = outcome[o]
  BY <1>1 DEF CallInv, TypeOK
<1>3. objects' = objects /\ data' = data BY <1>1 DEF disk
<1>4. at[m] = Len(Files) + 1
  <2>1. at[m] \in 1..(Len(Files) + 1) BY DEF CallInv, TypeOK
  <2>2. QED BY <1>1, <2>1, CatalogAssumption DEF Names
<1>5. Got(m) = Names
  <2>1. outcome[m] # "bundle" BY <1>1 DEF CallInv, CallOf
  <2>2. Got(m) = 1..(at[m] - 1) BY <1>1, <2>1 DEF Got, Installing
  <2>3. Len(Files) \in Nat BY CatalogAssumption
  <2>4. QED BY <1>4, <2>2, <2>3 DEF Names
<1>6. Got(m)' = Names BY <1>2 DEF Got
<1>7. \A n \in Got(m) : Present(Bundle[version[m]][n]) BY DEF FileInv, WorkOf
<1>8. \A n \in Got(m)' : Present(Bundle[version[m]][n])' BY <1>1, <1>3, <1>5, <1>6, <1>7 DEF Present, SizeMatches, GoOn
<1>9. WorkOf(m)' BY <1>2, <1>8 DEF WorkOf, Installing
<1>10. pc'[m] \notin Installing /\ pc[m] \notin Copying BY <1>1, <1>2 DEF Installing, Copying
<1>11. QED BY <1>1, <1>2, <1>9, <1>10, FileQuiet

\* The files installed so far are those of the version, and one more is.
LEMMA FileInstalled ==
  ASSUME CallInv, FileInv, NEW m \in Managers, pc[m] \in Installing, at[m] \in Names, Installed(m),
         UNCHANGED disk, UNCHANGED <<version, outcome, detached>>,
         Good(output[at[m]], Content(m))
  PROVE  FileInv'
<1>1. /\ pc'[m] = "inspect" /\ at'[m] = at[m] + 1 /\ temp'[m] = None
      /\ \A o \in Managers : o # m => pc'[o] = pc[o] /\ at'[o] = at[o] /\ temp'[o] = temp[o]
  BY DEF CallInv, TypeOK, Installed, Goto
<1>2. objects' = objects /\ data' = data /\ output' = output BY DEF disk
<1>3. Got(m) = Names /\ Got(m)' = Names BY <1>1 DEF Got, Installing
<1>4. WorkOf(m) BY DEF FileInv
<1>5. \A n \in Got(m) : Present(Bundle[version[m]][n]) BY <1>4 DEF WorkOf
<1>6. \A n \in Got(m)' : Present(Bundle[version[m]][n])' BY <1>2, <1>3, <1>5 DEF Present, SizeMatches, GoOn
<1>7. \A n \in 1..(at[m] - 1) : Good(output[n], Bundle[version[m]][n])
  BY <1>4 DEF WorkOf
<1>8. \A n \in 1..(at'[m] - 1) : Good(output[n], Bundle[version[m]][n])'
  <2>1. \A n \in 1..(at'[m] - 1) : n = at[m] \/ n \in 1..(at[m] - 1) BY <1>1 DEF Names
  <2>2. QED BY <1>2, <1>7, <2>1 DEF Content, Good, Present, SizeMatches
<1>9. WorkOf(m)' BY <1>1, <1>6, <1>8 DEF WorkOf
<1>10. QED BY <1>1, <1>9, FileQuiet

LEMMA FileInspect ==
  ASSUME CallInv, FileInv, NEW m \in Managers, Inspect(m)
  PROVE  FileInv'
<1>1. /\ pc[m] = "inspect" /\ pc[m] \in Installing /\ at[m] \in Names
      /\ UNCHANGED disk /\ UNCHANGED <<version, outcome, detached>>
  BY DEF Inspect, Installing
<1>2. Got(m) = Names BY <1>1 DEF Got
<1>3. Present(Content(m)) BY <1>1, <1>2 DEF FileInv, WorkOf, Content
<1>4. CASE Installed(m) /\ output[at[m]] = objects[Content(m)]
  BY <1>1, <1>3, <1>4, FileInstalled DEF Good, Present, SizeMatches
<1>5. CASE Goto(m, "remove") /\ UNCHANGED <<at, temp, source>>
  <2>1. pc'[m] = "remove" /\ \A o \in Managers : o # m => pc'[o] = pc[o]
    BY <1>5 DEF CallInv, TypeOK, Goto
  <2>2. Got(m)' = Names BY <2>1 DEF Got, Installing
  <2>3. objects' = objects /\ data' = data /\ output' = output BY <1>1 DEF disk
  <2>4. WorkOf(m) BY DEF FileInv
  <2>5. \A n \in Got(m)' : Present(Bundle[version[m]][n])'
    BY <1>1, <1>2, <2>2, <2>3, <2>4 DEF Present, SizeMatches, GoOn, WorkOf
  <2>6. \A n \in 1..(at'[m] - 1) : Good(output[n], Bundle[version[m]][n])'
    BY <1>1, <1>5, <2>3, <2>4 DEF WorkOf, Good, Present, SizeMatches
  <2>7. WorkOf(m)' BY <2>1, <2>5, <2>6 DEF WorkOf
  <2>8. pc[m] \notin Copying BY <1>1 DEF Copying
  <2>9. QED BY <1>1, <1>5, <2>1, <2>7, <2>8, FileQuiet
<1>6. QED BY <1>4, <1>5 DEF Inspect

LEMMA FileVerify ==
  ASSUME CallInv, FileInv, NEW m \in Managers, Verify(m)
  PROVE  FileInv'
<1>1. pc[m] = "verify" /\ pc[m] \in Installing BY DEF Verify, Installing
<1>2. at[m] \in Names BY <1>1 DEF CallInv, CallOf
<1>3. Good(output[at[m]], Content(m)) BY DEF Verify, Good
<1>4. QED BY <1>1, <1>2, <1>3, FileInstalled DEF Verify

\* Nobody else installs when a manager begins to.
LEMMA FileInstall ==
  ASSUME CallInv, FileInv, NEW m \in Managers, Install(m), Installers <= 1
  PROVE  FileInv'
<1>1. /\ pc[m] = "idle" /\ outcome[m] = "bundle"
      /\ UNCHANGED disk /\ UNCHANGED <<version, at, temp, detached>>
      /\ pc' = [pc EXCEPT ![m] = "inspect"] /\ outcome' = [outcome EXCEPT ![m] = "none"]
  BY DEF Install, Goto, call
<1>2. /\ pc'[m] = "inspect" /\ outcome'[m] = "none"
      /\ \A o \in Managers : o # m => pc'[o] = pc[o] /\ outcome'[o] = outcome[o]
  BY <1>1 DEF CallInv, TypeOK
<1>3. \A o \in Managers : pc[o] \notin Installing
  <2> DEFINE installers == {o \in Managers : pc[o] \in Installing}
  <2>1. IsFiniteSet(installers) BY FilesAssumption, FS_Subset
  <2>2. Cardinality(installers) < Installers BY DEF Install
  <2>3. Cardinality(installers) \in Nat BY <2>1, FS_CardinalityType
  <2>4. Cardinality(installers) = 0 BY <2>2, <2>3, CatalogAssumption
  <2>5. installers = {} BY <2>1, <2>4, FS_EmptySet
  <2>6. QED BY <2>5
<1>4. objects' = objects /\ data' = data /\ output' = output BY <1>1 DEF disk
<1>5. at[m] = 1 BY <1>1 DEF CallInv, CallOf
<1>6. Got(m) = Names /\ Got(m)' = Names BY <1>1, <1>2 DEF Got, Installing
<1>7. \A n \in Got(m)' : Present(Bundle[version[m]][n])'
  <2>1. \A n \in Got(m) : Present(Bundle[version[m]][n]) BY DEF FileInv, WorkOf
  <2>2. QED BY <1>1, <1>4, <1>6, <2>1 DEF Present, SizeMatches
<1>8. WorkOf(m)' BY <1>1, <1>2, <1>5, <1>7 DEF WorkOf
<1>9. ObjectsOK' /\ GoOn BY <1>4, ObjectsKept
<1>10. ASSUME NEW o \in Managers PROVE TempOf(o)' /\ WorkOf(o)'
  <2>1. pc[o] \notin Copying BY <1>3 DEF Copying, Installing
  <2>2. TempOf(o)' BY <1>1, <1>4, <2>1, TempKept
  <2>3. CASE o = m BY <1>8, <2>2, <2>3
  <2>4. CASE o # m
    <3>1. WorkOf(o)' BY <1>1, <1>2, <1>4, <1>9, <2>4, WorkElsewhere
    <3>2. QED BY <2>2, <3>1
  <2>5. QED BY <2>3, <2>4
<1>11. \A d \in detached' : RenameOf(d)' BY <1>1, <1>4, <1>9, RenameKept
<1>12. OneInstaller' BY <1>2, <1>3 DEF OneInstaller
<1>13. QED BY <1>9, <1>10, <1>11, <1>12 DEF FileInv

-----------------------------------------------------------------------------
(* FileInv: the steps that write, name or remove a file. *)

\* A step that writes to one file that has no name in the cache, of no other
\* manager and no detached rename, and that names no file but that one and
\* objects' files in the output directory.
LEMMA FileWritten ==
  ASSUME CallInv, FileInv, NEW m \in Managers, NEW f \in FileIds,
         \A g \in FileIds : g # f => data'[g] = data[g],
         \A c \in Contents : objects[c] # f,
         \A d \in detached : d.file # f,
         \A o \in Managers : o # m => temp[o] # f,
         pc[m] \notin Installing => output' = output /\ \A n \in Names : output[n] # f,
         \A n \in Names :
           \/ output'[n] \in {output[n], f, None}
           \/ \E c \in Contents : output'[n] = objects[c],
         objects' = objects, detached' = detached,
         \A o \in Managers : o # m =>
           /\ pc'[o] = pc[o] /\ outcome'[o] = outcome[o] /\ version'[o] = version[o]
           /\ at'[o] = at[o] /\ temp'[o] = temp[o],
         temp'[m] \in {None, temp[m], f},
         pc'[m] \in Installing => pc[m] \in Installing,
         TempOf(m)', WorkOf(m)'
  PROVE  FileInv'
<1>1. /\ objects \in [Contents -> FileIds \cup {None}] /\ output \in [Names -> FileIds \cup {None}]
      /\ temp \in [Managers -> FileIds \cup {None}]
      /\ detached \subseteq [file : FileIds \cup {None}, as : Contents \cup Versions]
  BY DEF CallInv, TypeOK
<1>2. ObjectsOK' /\ GoOn
  <2>1. \A c \in Contents : objects[c] # None => data'[objects[c]] = data[objects[c]] BY <1>1
  <2>2. QED BY <2>1, ObjectsKept
<1>3. ASSUME NEW o \in Managers, o # m PROVE TempOf(o)'
  <2>1. CASE temp[o] = None BY <1>3, <2>1, TempKept
  <2>2. CASE temp[o] # None
    <3>1. TempOf(o) /\ temp[o] # f BY <1>3 DEF FileInv
    <3>2. \A n \in Names : output'[n] = output[n] \/ output'[n] # temp[o]
      BY <2>2, <3>1 DEF TempOf
    <3>3. \A q \in Managers : q # o => temp'[q] = temp[q] \/ temp'[q] # temp[o]
      BY <2>2, <3>1
    <3>4. QED BY <1>3, <2>2, <3>2, <3>3, TempKept
  <2>3. QED BY <2>1, <2>2
<1>4. ASSUME NEW d \in detached PROVE RenameOf(d)'
  <2>1. CASE d.file = None BY <1>2, <2>1, RenameKept
  <2>2. CASE d.file # None
    <3>1. d.file \in FileIds /\ d.file # f BY <1>1, <2>2
    <3>2. \A c \in Contents : objects[c] # d.file BY <2>2 DEF FileInv, RenameOf
    <3>3. data'[d.file] = data[d.file] BY <3>1
    <3>4. \A n \in Names : output'[n] = output[n] \/ output'[n] # d.file
      BY <2>2, <3>1, <3>2
    <3>5. QED BY <1>2, <3>3, <3>4, RenameKept
  <2>3. QED BY <2>1, <2>2
<1>5. ASSUME NEW o \in Managers, o # m PROVE WorkOf(o)'
  <2>1. pc[o] \in {"publish", "rename", "discard"} => data'[temp[o]] = data[temp[o]]
    <3>1. pc[o] \in Holding => temp[o] # None BY DEF CallInv, CallOf
    <3>2. QED BY <1>1, <1>5, <3>1 DEF Holding
  <2>2. ASSUME pc[o] \in Installing, NEW n \in Names
        PROVE  output'[n] = output[n] /\ (output[n] # None => data'[output[n]] = data[output[n]])
    <3>1. pc[m] \notin Installing BY <1>5, <2>2 DEF FileInv, OneInstaller
    <3>2. QED BY <1>1, <2>2, <3>1
  <2>3. QED BY <1>2, <1>5, <2>1, <2>2, WorkElsewhere
<1>6. OneInstaller' BY InstallerKept
<1>7. QED BY <1>2, <1>3, <1>4, <1>5, <1>6 DEF FileInv

\* The file a manager writes has the conditions of FileWritten.
LEMMA TempIsApart ==
  ASSUME CallInv, FileInv, NEW m \in Managers, pc[m] \in Holding \cup Copying
  PROVE  /\ temp[m] \in FileIds
         /\ \A c \in Contents : objects[c] # temp[m]
         /\ \A d \in detached : d.file # temp[m]
         /\ \A o \in Managers : o # m => temp[o] # temp[m]
         /\ \A n \in Names : output[n] = temp[m] => pc[m] \in Copying /\ n = at[m]
         /\ pc[m] \notin Installing => \A n \in Names : output[n] # temp[m]
<1>1. temp[m] # None /\ temp[m] \in FileIds BY DEF CallInv, CallOf, TypeOK
<1>2. TempOf(m) BY DEF FileInv
<1>3. QED BY <1>1, <1>2 DEF TempOf, Copying, Installing

LEMMA FileRecheck ==
  ASSUME CallInv, FileInv, NEW m \in Managers, Recheck(m), ~Hit(m)
  PROVE  FileInv'
<1> DEFINE f == NewFile
<1>1. /\ f \in FileIds
      /\ \A c \in Contents : objects[c] # f
      /\ \A n \in Names : output[n] # f
      /\ \A o \in Managers : temp[o] # f
      /\ \A d \in detached : d.file # f
  BY NewFileIsFresh
<1>2. /\ pc[m] = "recheck" /\ pc' = [pc EXCEPT ![m] = "download"]
      /\ temp' = [temp EXCEPT ![m] = f] /\ data' = [data EXCEPT ![f] = Broken]
      /\ UNCHANGED <<at, objects, output, version, outcome, detached>>
  BY DEF Recheck, Goto
<1> HIDE DEF f
<1>3. /\ pc'[m] = "download" /\ temp'[m] = f
      /\ \A o \in Managers : o # m => pc'[o] = pc[o] /\ temp'[o] = temp[o]
      /\ \A g \in FileIds : g # f => data'[g] = data[g]
  BY <1>2 DEF CallInv, TypeOK
<1>4. TempOf(m)' BY <1>1, <1>2, <1>3 DEF TempOf
<1>5. GoOn
  <2>1. objects \in [Contents -> FileIds \cup {None}] BY DEF CallInv, TypeOK
  <2>2. QED BY <1>1, <1>2, <1>3, <2>1, ObjectsKept
<1>6. Content(m) \in Contents /\ ~Rotted(Content(m))
  BY <1>2, ContentIs, MissIsNotRotted DEF Hit, Asking
<1>7. WorkOf(m)' BY <1>2, <1>3, <1>5, <1>6, WorkAsking DEF Asking
<1>8. pc'[m] \notin Installing /\ pc[m] \notin Installing BY <1>2, <1>3 DEF Installing
<1>9. QED BY <1>1, <1>2, <1>3, <1>4, <1>7, <1>8, FileWritten

LEMMA FileDownload ==
  ASSUME CallInv, FileInv, NEW m \in Managers, Download(m) \/ DownloadFails(m) \/ Discard(m)
  PROVE  FileInv'
<1> DEFINE f == temp[m]
<1>1. pc[m] \in Holding /\ pc[m] \in Asking
  BY DEF Download, DownloadFails, Discard, Holding, Asking
<1>2. /\ f \in FileIds
      /\ \A c \in Contents : objects[c] # f
      /\ \A d \in detached : d.file # f
      /\ \A o \in Managers : o # m => temp[o] # f
      /\ \A n \in Names : output[n] # f
  BY <1>1, TempIsApart DEF Holding, Copying
<1>3. /\ UNCHANGED <<objects, output, detached>>
      /\ \A g \in FileIds : g # f => data'[g] = data[g]
  BY DEF Download, DownloadFails, Discard, Discarded, CallInv, TypeOK
<1>4. GoOn
  <2>1. objects \in [Contents -> FileIds \cup {None}] BY DEF CallInv, TypeOK
  <2>2. QED BY <1>2, <1>3, <2>1, ObjectsKept
<1>5. pc[m] \notin Installing BY <1>1 DEF Asking, Installing
<1>6. CASE Download(m)
  <2>1. /\ pc' = [pc EXCEPT ![m] = "publish"] /\ data' = [data EXCEPT ![f] = Content(m)]
        /\ UNCHANGED <<at, temp, version, outcome>>
    BY <1>6 DEF Download, Goto, call
  <2>2. pc'[m] = "publish" /\ \A o \in Managers : o # m => pc'[o] = pc[o]
    BY <2>1 DEF CallInv, TypeOK
  <2>3. data'[temp'[m]] = Content(m) BY <1>2, <2>1 DEF CallInv, TypeOK
  <2>4. WorkOf(m)'
    <3>1. Content(m) \in Contents /\ ~Rotted(Content(m))
      BY <1>6, ContentIs DEF Download, FileInv, WorkOf, Asking
    <3>2. QED BY <1>1, <1>4, <2>1, <2>2, <2>3, <3>1, WorkAsking DEF Asking
  <2>5. TempOf(m)'
    <3>1. pc[m] \notin Copying BY <1>1 DEF Holding, Copying
    <3>2. QED BY <1>3, <2>1, <3>1, TempKept
  <2>6. pc'[m] \notin Installing BY <2>2 DEF Installing
  <2>7. QED BY <1>2, <1>3, <1>5, <2>1, <2>2, <2>4, <2>5, <2>6, FileWritten
<1>7. CASE DownloadFails(m)
  <2>1. /\ pc' = [pc EXCEPT ![m] = "idle"] /\ outcome' = [outcome EXCEPT ![m] = "error"]
        /\ at' = [at EXCEPT ![m] = 1] /\ version' = [version EXCEPT ![m] = None]
        /\ temp' = [temp EXCEPT ![m] = None]
    BY <1>7 DEF DownloadFails, Error, Forget, Goto
  <2>2. /\ pc'[m] = "idle" /\ outcome'[m] # "bundle" /\ at'[m] = 1 /\ temp'[m] = None
        /\ \A o \in Managers : o # m =>
             /\ pc'[o] = pc[o] /\ outcome'[o] = outcome[o] /\ version'[o] = version[o]
             /\ at'[o] = at[o] /\ temp'[o] = temp[o]
    BY <2>1 DEF CallInv, TypeOK
  <2>3. WorkOf(m)' BY <2>2, WorkOutside
  <2>4. TempOf(m)' BY <2>2 DEF TempOf
  <2>5. pc'[m] \notin Installing BY <2>2 DEF Installing
  <2>6. QED BY <1>2, <1>3, <1>5, <2>2, <2>3, <2>4, <2>5, FileWritten
<1>8. CASE Discard(m)
  <2>1. /\ pc[m] = "discard" /\ pc' = [pc EXCEPT ![m] = "placed"]
        /\ temp' = [temp EXCEPT ![m] = None] /\ UNCHANGED <<at, version, outcome>>
    BY <1>8 DEF Discard, Goto
  <2>2. /\ pc'[m] = "placed" /\ temp'[m] = None
        /\ \A o \in Managers : o # m => pc'[o] = pc[o] /\ temp'[o] = temp[o]
    BY <2>1 DEF CallInv, TypeOK
  <2>3. Content(m) \in Contents /\ Present(Content(m))
    BY <1>1, <2>1, ContentIs DEF FileInv, WorkOf
  <2>4. Content(m)' = Content(m) BY <2>1 DEF Content
  <2>5. Present(Content(m))' BY <1>4, <2>3, <2>4 DEF Present, SizeMatches, GoOn
  <2>6. WorkOf(m)' BY <1>1, <1>4, <2>1, <2>2, <2>3, <2>5, WorkAsking DEF Asking
  <2>7. TempOf(m)' BY <2>2 DEF TempOf
  <2>8. pc'[m] \notin Installing BY <2>2 DEF Installing
  <2>9. QED BY <1>2, <1>3, <1>5, <2>1, <2>2, <2>6, <2>7, <2>8, FileWritten
<1>9. QED BY <1>6, <1>7, <1>8

LEMMA FileRename ==
  ASSUME CallInv, FileInv, NEW m \in Managers, Rename(m)
  PROVE  FileInv'
<1> DEFINE f == temp[m]
<1>1. /\ pc[m] = "rename" /\ pc' = [pc EXCEPT ![m] = "placed"]
      /\ objects' = [objects EXCEPT ![Content(m)] = f] /\ temp' = [temp EXCEPT ![m] = None]
      /\ UNCHANGED <<output, data, version, at, outcome, detached>>
  BY DEF Rename, Goto
<1>2. /\ f \in FileIds
      /\ \A c \in Contents : objects[c] # f
      /\ \A d \in detached : d.file # f
      /\ \A o \in Managers : o # m => temp[o] # f
      /\ \A n \in Names : output[n] # f
  BY <1>1, TempIsApart DEF Holding, Copying
<1>3. Content(m) \in Contents BY <1>1, ContentIs DEF Asking
<1>4. data[f] = Content(m) /\ ~Rotted(Content(m)) BY <1>1 DEF FileInv, WorkOf
<1>5. /\ objects'[Content(m)] = f /\ \A c \in Contents : c # Content(m) => objects'[c] = objects[c]
      /\ f # None
  BY <1>1, <1>2, <1>3, CatalogAssumption DEF CallInv, TypeOK
<1>6. ObjectsOK' /\ GoOn
  BY <1>1, <1>4, <1>5, ObjectsKept
<1>7. /\ pc'[m] = "placed" /\ temp'[m] = None
      /\ \A o \in Managers : o # m => pc'[o] = pc[o] /\ temp'[o] = temp[o]
  BY <1>1 DEF CallInv, TypeOK
<1>8. ASSUME NEW o \in Managers PROVE TempOf(o)'
  <2>1. CASE temp'[o] = None BY <2>1, TempKept
  <2>2. CASE temp'[o] # None
    <3>1. o # m /\ temp'[o] = temp[o] /\ temp[o] # f BY <1>2, <1>7, <2>2
    <3>2. \A c \in Contents : objects'[c] = objects[c] \/ objects'[c] # temp[o]
      BY <1>5, <3>1
    <3>3. \A q \in Managers : q # o => temp'[q] = temp[q] \/ temp'[q] # temp[o]
      BY <1>7, <2>2, <3>1
    <3>4. QED BY <1>1, <1>7, <3>1, <3>2, <3>3, TempKept
  <2>3. QED BY <2>1, <2>2
<1>9. ASSUME NEW d \in detached' PROVE RenameOf(d)'
  BY <1>1, <1>2, <1>5, <1>6, <1>9, RenameKept
<1>10. ASSUME NEW o \in Managers PROVE WorkOf(o)'
  <2>1. CASE o = m
    <3>1. Content(m)' = Content(m) BY <1>1 DEF Content
    <3>2. Present(Content(m))' BY <1>1, <1>3, <1>4, <1>5, <3>1, CatalogAssumption DEF Present, SizeMatches
    <3>3. QED BY <1>1, <1>3, <1>6, <1>7, <2>1, <3>2, WorkAsking DEF Asking
  <2>2. CASE o # m BY <1>1, <1>6, <1>7, <2>2, WorkElsewhere
  <2>3. QED BY <2>1, <2>2
<1>11. OneInstaller' BY <1>7, InstallerKept DEF Installing
<1>12. QED BY <1>6, <1>8, <1>9, <1>10, <1>11 DEF FileInv

\* The rename of a dropped call puts its verified file under the hash.
LEMMA FileDetachedRename ==
  ASSUME CallInv, FileInv, NEW d \in detached, DetachedRename(d)
  PROVE  FileInv'
<1>1. /\ d.file # None
      /\ objects' = [objects EXCEPT ![d.as] = d.file] /\ detached' = detached \ {d}
      /\ UNCHANGED <<output, data, pc, version, at, temp, outcome>>
  BY DEF DetachedRename, call
<1>2. d.as \in Contents BY <1>1 DEF CallInv, DetachedOK
<1>3. /\ data[d.file] = d.as /\ ~Rotted(d.as)
      /\ \A n \in Names : output[n] # d.file
      /\ \A e \in detached : e.file = d.file => e = d
  BY <1>1 DEF FileInv, RenameOf
<1>4. objects'[d.as] = d.file /\ \A c \in Contents : c # d.as => objects'[c] = objects[c]
  BY <1>1, <1>2 DEF CallInv, TypeOK
<1>5. ObjectsOK' /\ GoOn
  BY <1>1, <1>3, <1>4, ObjectsKept
<1>6. ASSUME NEW o \in Managers PROVE TempOf(o)'
  <2>1. CASE temp[o] = None BY <1>1, <2>1, TempKept
  <2>2. CASE temp[o] # None
    <3>1. d.file # temp[o] BY <2>2 DEF FileInv, TempOf
    <3>2. \A c \in Contents : objects'[c] = objects[c] \/ objects'[c] # temp[o]
      BY <1>4, <3>1
    <3>3. QED BY <1>1, <3>2, TempKept
  <2>3. QED BY <2>1, <2>2
<1>7. ASSUME NEW e \in detached' PROVE RenameOf(e)'
  <2>1. e \in detached /\ e # d /\ e.file # d.file BY <1>1, <1>3, <1>7
  <2>2. \A c \in Contents : objects'[c] = objects[c] \/ objects'[c] # e.file BY <1>4, <2>1
  <2>3. QED BY <1>1, <1>5, <2>1, <2>2, RenameKept
<1>8. ASSUME NEW o \in Managers PROVE WorkOf(o)'
  BY <1>1, <1>5, WorkElsewhere
<1>9. OneInstaller' BY <1>1, InstallerKept
<1>10. QED BY <1>5, <1>6, <1>7, <1>8, <1>9 DEF FileInv

LEMMA FileDetachedStore ==
  ASSUME CallInv, FileInv, NEW d \in detached, DetachedStore(d)
  PROVE  FileInv'
<1>1. /\ detached' = detached \ {d} /\ objects' = objects
      /\ UNCHANGED <<output, data, pc, version, at, temp, outcome>>
  BY DEF DetachedStore, disk, call
<1>2. ObjectsOK' /\ GoOn BY <1>1, ObjectsKept
<1>3. ASSUME NEW o \in Managers PROVE TempOf(o)' BY <1>1, TempKept
<1>4. ASSUME NEW e \in detached' PROVE RenameOf(e)' BY <1>1, <1>2, <1>4, RenameKept
<1>5. ASSUME NEW o \in Managers PROVE WorkOf(o)' BY <1>1, <1>2, WorkElsewhere
<1>6. OneInstaller' BY <1>1, InstallerKept
<1>7. QED BY <1>2, <1>3, <1>4, <1>5, <1>6 DEF FileInv

\* A dropped call leaves a verified file without a name to its rename.
LEMMA FileDrop ==
  ASSUME CallInv, FileInv, NEW m \in Managers, Drop(m)
  PROVE  FileInv'
<1>1. /\ pc' = [pc EXCEPT ![m] = "idle"] /\ outcome' = [outcome EXCEPT ![m] = "error"]
      /\ at' = [at EXCEPT ![m] = 1] /\ version' = [version EXCEPT ![m] = None]
      /\ temp' = [temp EXCEPT ![m] = None] /\ UNCHANGED disk
  BY DEF Drop, Error, Forget, Goto
<1>2. /\ pc'[m] = "idle" /\ outcome'[m] # "bundle" /\ at'[m] = 1 /\ temp'[m] = None
      /\ \A o \in Managers : o # m =>
           /\ pc'[o] = pc[o] /\ outcome'[o] = outcome[o] /\ version'[o] = version[o]
           /\ at'[o] = at[o] /\ temp'[o] = temp[o]
  BY <1>1 DEF CallInv, TypeOK
<1>3. objects' = objects /\ output' = output /\ data' = data BY <1>1 DEF disk
<1>4. ASSUME NEW d, detached' = detached \cup {d},
             \/ d.file = None
             \/ /\ pc[m] = "rename" /\ d.file = temp[m] /\ d.as = Content(m)
      PROVE  FileInv'
  <2>1. ObjectsOK' /\ GoOn BY <1>3, ObjectsKept
  <2>2. d.file # None =>
          /\ data[d.file] = d.as /\ d.as \in Contents /\ ~Rotted(d.as)
          /\ \A c \in Contents : objects[c] # d.file
          /\ \A e \in detached : e.file # d.file
          /\ \A o \in Managers : o # m => temp[o] # d.file
          /\ \A n \in Names : output[n] # d.file
    <3>1. SUFFICES ASSUME pc[m] = "rename", d.file = temp[m], d.as = Content(m)
                   PROVE  /\ data[d.file] = d.as /\ d.as \in Contents /\ ~Rotted(d.as)
                          /\ \A c \in Contents : objects[c] # d.file
                          /\ \A e \in detached : e.file # d.file
                          /\ \A o \in Managers : o # m => temp[o] # d.file
                          /\ \A n \in Names : output[n] # d.file
      BY <1>4
    <3>2. data[temp[m]] = Content(m) /\ Content(m) \in Contents /\ ~Rotted(Content(m))
      BY <3>1, ContentIs DEF FileInv, WorkOf, Asking
    <3>3. QED BY <3>1, <3>2, TempIsApart DEF Holding, Copying
  <2>3. ASSUME NEW o \in Managers PROVE TempOf(o)'
    <3>1. CASE temp'[o] = None BY <3>1, TempKept
    <3>2. CASE temp'[o] # None
      <4>1. o # m /\ temp'[o] = temp[o] /\ temp[o] # None BY <1>2, <3>2
      <4>2. \A e \in detached' : e \in detached \/ e.file # temp[o]
        BY <1>4, <2>2, <4>1
      <4>3. \A q \in Managers : q # o => temp'[q] = temp[q] \/ temp'[q] # temp[o]
        BY <1>2, <4>1
      <4>4. QED BY <1>2, <1>3, <4>1, <4>2, <4>3, TempKept
    <3>3. QED BY <3>1, <3>2
  <2>4. ASSUME NEW e \in detached PROVE RenameOf(e)'
    <3>1. e.file # None => \A g \in detached' : g \in detached \/ g.file # e.file
      BY <1>4, <2>2
    <3>2. QED BY <1>3, <2>1, <3>1, RenameKept
  <2>5. RenameOf(d)' BY <1>3, <1>4, <2>1, <2>2 DEF RenameOf, GoOn
  <2>6. ASSUME NEW o \in Managers PROVE WorkOf(o)'
    <3>1. CASE o = m BY <1>2, <3>1, WorkOutside
    <3>2. CASE o # m BY <1>2, <1>3, <2>1, <3>2, WorkElsewhere
    <3>3. QED BY <3>1, <3>2
  <2>7. OneInstaller' BY <1>2, InstallerKept DEF Installing
  <2>8. QED BY <1>4, <2>1, <2>3, <2>4, <2>5, <2>6, <2>7 DEF FileInv
<1>5. CASE pc[m] = "rename"
  <2>1. detached' = detached \cup {[file |-> temp[m], as |-> Content(m)]} BY <1>5 DEF Drop
  <2>2. QED BY <1>4, <1>5, <2>1
<1>6. CASE pc[m] = "store"
  <2>1. detached' = detached \cup {[file |-> None, as |-> version[m]]} BY <1>6 DEF Drop
  <2>2. QED BY <1>4, <2>1
<1>7. CASE pc[m] \notin {"rename", "store"}
  <2>1. detached' = detached BY <1>7 DEF Drop
  <2>2. WorkOf(m)' BY <1>2, WorkOutside
  <2>3. QED BY <1>1, <1>2, <2>1, <2>2, FileQuiet DEF Installing
<1>8. QED BY <1>5, <1>6, <1>7

\* An installer keeps what it was given and what it has installed.
LEMMA WorkInstalling ==
  ASSUME CallInv, FileInv, NEW m \in Managers,
         pc[m] \in Installing, pc'[m] \in Installing, version'[m] = version[m],
         GoOn,
         \A n \in 1..(at'[m] - 1) : Good(output[n], Bundle[version[m]][n])'
  PROVE  WorkOf(m)'
<1>1. Got(m) = Names /\ Got(m)' = Names BY DEF Got
<1>2. ASSUME NEW n \in Got(m) PROVE Bundle[version[m]][n] \in Contents /\ Present(Bundle[version[m]][n])
  <2>1. Bundle[version[m]][n] \in Contents BY <1>2, GotIs, BundleIs
  <2>2. Present(Bundle[version[m]][n]) BY <1>2 DEF FileInv, WorkOf
  <2>3. QED BY <2>1, <2>2
<1>3. \A n \in Got(m)' : Present(Bundle[version[m]][n])' BY <1>1, <1>2 DEF Present, SizeMatches, GoOn
<1>4. pc'[m] \notin {"download", "publish", "rename", "discard", "placed"} BY DEF Installing
<1>5. QED BY <1>3, <1>4 DEF WorkOf

\* What holds of an installer before each of its steps.
LEMMA InstallerHas ==
  ASSUME CallInv, FileInv, NEW m \in Managers, pc[m] \in {"remove", "link", "copy", "verify"}
  PROVE  /\ pc[m] \in Installing /\ at[m] \in Names /\ Content(m) \in Contents /\ Present(Content(m))
         /\ \A n \in 1..(at[m] - 1) :
              n \in Names /\ n # at[m] /\ Good(output[n], Bundle[version[m]][n])
         /\ objects \in [Contents -> FileIds \cup {None}]
         /\ output \in [Names -> FileIds \cup {None}]
<1>1. pc[m] \in Installing BY DEF Installing
<1>2. at[m] \in Names /\ Content(m) \in Contents BY ContentIs
<1>3. Got(m) = Names BY <1>1 DEF Got
<1>4. Present(Content(m)) BY <1>2, <1>3 DEF FileInv, WorkOf, Content
<1>5. \A n \in 1..(at[m] - 1) : n \in Names /\ n # at[m]
  BY <1>2, CatalogAssumption DEF Names
<1>6. \A n \in 1..(at[m] - 1) : Good(output[n], Bundle[version[m]][n])
  BY <1>1 DEF FileInv, WorkOf
<1>7. objects \in [Contents -> FileIds \cup {None}] /\ output \in [Names -> FileIds \cup {None}]
  BY DEF CallInv, TypeOK
<1>8. QED BY <1>1, <1>2, <1>4, <1>5, <1>6, <1>7

\* A name that stays changes no file.
LEMMA FileLeft ==
  ASSUME CallInv, FileInv, NEW m \in Managers, Remove(m), UNCHANGED <<output, data>>
  PROVE  FileInv'
<1>1. /\ pc[m] = "remove" /\ pc' = [pc EXCEPT ![m] = "link"]
      /\ UNCHANGED disk /\ UNCHANGED <<objects, output, data, version, at, temp, outcome, detached>>
  BY DEF Remove, Goto, call, disk
<1>2. /\ pc[m] \in Installing /\ at[m] \in Names
      /\ \A n \in 1..(at[m] - 1) : Good(output[n], Bundle[version[m]][n])
  BY <1>1, InstallerHas
<1>3. pc'[m] = "link" /\ \A o \in Managers : o # m => pc'[o] = pc[o]
  BY <1>1 DEF CallInv, TypeOK
<1>4. pc'[m] \in Installing BY <1>3 DEF Installing
<1>5. GoOn BY <1>1, ObjectsKept
<1>6. \A n \in 1..(at'[m] - 1) : Good(output[n], Bundle[version[m]][n])'
  BY <1>1, <1>2 DEF Good, Present, SizeMatches
<1>7. WorkOf(m)' BY <1>1, <1>2, <1>4, <1>5, <1>6, WorkInstalling
<1>8. temp[m] = None BY <1>1 DEF CallInv, CallOf, Holding, Copying
<1>9. QED BY <1>1, <1>2, <1>3, <1>7, <1>8, FileQuiet

\* A file that loses its name in the output directory is no object's, or stays.
LEMMA FileRemove ==
  ASSUME CallInv, FileInv, NEW m \in Managers, Remove(m), ~UNCHANGED <<output, data>>
  PROVE  FileInv'
<1>1. /\ pc[m] = "remove" /\ pc' = [pc EXCEPT ![m] = "link"]
      /\ output' = [output EXCEPT ![at[m]] = None]
      /\ UNCHANGED <<objects, version, at, temp, outcome, detached>>
  BY DEF Remove, Goto, call
<1>2. /\ pc[m] \in Installing /\ at[m] \in Names
      /\ \A n \in 1..(at[m] - 1) :
           n \in Names /\ n # at[m] /\ Good(output[n], Bundle[version[m]][n])
      /\ objects \in [Contents -> FileIds \cup {None}]
      /\ output \in [Names -> FileIds \cup {None}]
  BY <1>1, InstallerHas
<1>3. /\ pc'[m] = "link" /\ \A o \in Managers : o # m => pc'[o] = pc[o]
      /\ output'[at[m]] = None /\ \A n \in Names : n # at[m] => output'[n] = output[n]
  BY <1>1, <1>2 DEF CallInv, TypeOK
<1>4. pc'[m] \in Installing BY <1>3 DEF Installing
<1>5. temp[m] = None BY <1>1 DEF CallInv, CallOf, Holding, Copying
<1>6. TempOf(m)' BY <1>1, <1>5 DEF TempOf
\* Whatever f is, nothing that has a name changes.
<1>7. ASSUME NEW f \in FileIds,
             \A g \in FileIds : g # f => data'[g] = data[g],
             \A c \in Contents : objects[c] # f, \A d \in detached : d.file # f,
             \A o \in Managers : o # m => temp[o] # f,
             \A n \in Names : output'[n] # f
      PROVE  FileInv'
  <2>1. GoOn BY <1>1, <1>2, <1>7, ObjectsKept
  <2>2. \A n \in 1..(at[m] - 1) : Good(output[n], Bundle[version[m]][n])'
    <3>1. \A n \in 1..(at[m] - 1) :
            output'[n] = output[n] /\ (output[n] # None => data'[output[n]] = data[output[n]])
      BY <1>2, <1>3, <1>7
    <3>2. QED BY <1>1, <1>2, <2>1, <3>1, InstalledKept
  <2>3. WorkOf(m)' BY <1>1, <1>2, <1>3, <1>4, <2>1, <2>2, WorkInstalling
  <2>4. \A n \in Names : output'[n] \in {output[n], f, None} BY <1>3
  <2>5. QED BY <1>1, <1>2, <1>3, <1>4, <1>6, <1>7, <2>3, <2>4, FileWritten
<1>8. CASE data' = data
  <2>1. /\ NewFile \in FileIds
        /\ \A c \in Contents : objects[c] # NewFile
        /\ \A n \in Names : output[n] # NewFile
        /\ \A o \in Managers : temp[o] # NewFile
        /\ \A d \in detached : d.file # NewFile
    BY NewFileIsFresh
  <2>2. \A n \in Names : output'[n] # NewFile BY <1>3, <2>1, CatalogAssumption
  <2>3. QED BY <1>7, <1>8, <2>1, <2>2
<1>9. CASE data' # data
  <2> DEFINE f == output[at[m]]
  <2>1. f # None /\ Discarded(f, output') BY <1>9 DEF Remove
  <2>2. f \in FileIds BY <1>2, <2>1
  <2>3. f \notin Values(objects) \cup Values(output')
    BY <1>9, <2>1, <2>2 DEF Discarded, CallInv, TypeOK
  <2>4. \A g \in FileIds : g # f => data'[g] = data[g]
    BY <2>1, <2>2 DEF Discarded, CallInv, TypeOK
  <2>5. \A c \in Contents : objects[c] # f BY <1>2, <2>3 DEF Values
  <2>6. \A n \in Names : output'[n] # f BY <1>1, <1>2, <2>3 DEF Values
  <2>7. \A d \in detached : d.file # f BY <1>2, <2>1 DEF FileInv, RenameOf
  <2>8. ASSUME NEW o \in Managers, o # m, temp[o] = f PROVE FALSE
    <3>1. pc[o] \in Copying BY <1>2, <2>1, <2>8 DEF FileInv, TempOf
    <3>2. QED BY <1>2, <2>8, <3>1 DEF FileInv, OneInstaller, Copying, Installing
  <2>9. QED BY <1>7, <2>2, <2>4, <2>5, <2>6, <2>7, <2>8
<1>10. QED BY <1>8, <1>9

LEMMA FileLink ==
  ASSUME CallInv, FileInv, NEW m \in Managers, Link(m)
  PROVE  FileInv'
<1>1. /\ pc[m] = "link" /\ pc' = [pc EXCEPT ![m] = "inspect"]
      /\ output' = [output EXCEPT ![at[m]] = objects[Content(m)]]
      /\ at' = [at EXCEPT ![m] = @ + 1] /\ temp' = [temp EXCEPT ![m] = None]
      /\ UNCHANGED <<objects, data, version, outcome, detached>>
  BY DEF Link, Installed, Goto
<1>2. /\ pc[m] \in Installing /\ at[m] \in Names /\ Content(m) \in Contents /\ Present(Content(m))
      /\ \A n \in 1..(at[m] - 1) :
           n \in Names /\ n # at[m] /\ Good(output[n], Bundle[version[m]][n])
      /\ output \in [Names -> FileIds \cup {None}]
  BY <1>1, InstallerHas
<1>3. /\ pc'[m] = "inspect" /\ at'[m] = at[m] + 1 /\ temp'[m] = None
      /\ \A o \in Managers : o # m => pc'[o] = pc[o] /\ at'[o] = at[o] /\ temp'[o] = temp[o]
      /\ output'[at[m]] = objects[Content(m)]
      /\ \A n \in Names : n # at[m] => output'[n] = output[n]
  BY <1>1, <1>2 DEF CallInv, TypeOK
<1>4. pc'[m] \in Installing BY <1>3 DEF Installing
<1>5. GoOn BY <1>1, ObjectsKept
<1>6. \A n \in 1..(at'[m] - 1) : Good(output[n], Bundle[version[m]][n])'
  <2>1. \A n \in 1..(at'[m] - 1) : n = at[m] \/ n \in 1..(at[m] - 1) BY <1>2, <1>3 DEF Names
  <2>2. ASSUME NEW n \in Names, NEW c \in Contents, n = at[m], c = Content(m)
        PROVE  Good(output[n], c)'
    BY <1>1, <1>2, <1>3, <2>2 DEF Good, Present, SizeMatches
  <2>3. \A n \in 1..(at[m] - 1) : Good(output[n], Bundle[version[m]][n])'
    BY <1>1, <1>2, <1>3, <1>5, InstalledKept
  <2>4. ASSUME NEW n \in 1..(at'[m] - 1) PROVE Good(output[n], Bundle[version[m]][n])'
    <3>1. CASE n = at[m]
      <4>1. PICK c \in Contents : c = Content(m) BY <1>2
      <4>2. Good(output[n], c)' BY <1>2, <2>2, <3>1, <4>1
      <4>3. c = Bundle[version'[m]][n] BY <1>1, <3>1, <4>1 DEF Content
      <4>4. QED BY <4>2, <4>3 DEF Good
    <3>2. CASE n \in 1..(at[m] - 1) BY <2>3, <3>2
    <3>3. QED BY <2>1, <2>4, <3>1, <3>2
  <2>5. QED BY <2>4
<1>7. WorkOf(m)' BY <1>1, <1>2, <1>3, <1>4, <1>5, <1>6, WorkInstalling
<1>8. TempOf(m)' BY <1>3 DEF TempOf
<1>9. /\ NewFile \in FileIds
      /\ \A c \in Contents : objects[c] # NewFile
      /\ \A d \in detached : d.file # NewFile
      /\ \A o \in Managers : temp[o] # NewFile
  BY NewFileIsFresh
<1>10. \A n \in Names :
         output'[n] \in {output[n], NewFile, None} \/ \E c \in Contents : output'[n] = objects[c]
  BY <1>2, <1>3
<1>11. QED BY <1>1, <1>2, <1>3, <1>7, <1>8, <1>9, <1>10, FileWritten

\* The copy's target is a new file, or one with the name it is to have and no other.
LEMMA CopyIsApart ==
  ASSUME CallInv, FileInv, OutputInv, NEW m \in Managers, Copy(m)
  PROVE  \E f \in FileIds :
           /\ \A c \in Contents : objects[c] # f
           /\ \A n \in Names : output[n] = f => n = at[m]
           /\ \A o \in Managers : o # m => temp[o] # f
           /\ \A d \in detached : d.file # f
           /\ output' = [output EXCEPT ![at[m]] = f] /\ data' = [data EXCEPT ![f] = Broken]
           /\ temp' = [temp EXCEPT ![m] = f]
<1>1. pc[m] = "link" /\ ~Linked(m) BY DEF Copy
<1>2. /\ pc[m] \in Installing /\ at[m] \in Names
      /\ output \in [Names -> FileIds \cup {None}]
  BY <1>1, InstallerHas
<1>3. CASE output[at[m]] = None
  <2>1. /\ NewFile \in FileIds
        /\ \A c \in Contents : objects[c] # NewFile
        /\ \A n \in Names : output[n] # NewFile
        /\ \A o \in Managers : temp[o] # NewFile
        /\ \A d \in detached : d.file # NewFile
    BY NewFileIsFresh
  <2>2. /\ output' = [output EXCEPT ![at[m]] = NewFile] /\ data' = [data EXCEPT ![NewFile] = Broken]
        /\ temp' = [temp EXCEPT ![m] = NewFile]
    BY <1>3 DEF Copy
  <2> HIDE DEF NewFile
  <2>3. QED BY <2>1, <2>2
<1>4. CASE output[at[m]] # None
  <2> DEFINE f == output[at[m]]
  <2>1. f \in FileIds /\ f # None BY <1>2, <1>4
  <2>2. ~linkable BY <1>1, <1>4 DEF OutputInv
  <2>3. /\ \A c \in Contents : objects[c] # f
        /\ \A n \in Names : output[n] = f => n = at[m]
    BY <1>2, <1>4, <2>2 DEF OutputInv
  <2>4. \A d \in detached : d.file # f BY <1>2, <2>1 DEF FileInv, RenameOf
  <2>5. ASSUME NEW o \in Managers, o # m, temp[o] = f PROVE FALSE
    <3>1. pc[o] \in Copying BY <1>2, <2>1, <2>5 DEF FileInv, TempOf
    <3>2. QED BY <1>2, <2>5, <3>1 DEF FileInv, OneInstaller, Copying, Installing
  <2>6. /\ output' = [output EXCEPT ![at[m]] = f] /\ data' = [data EXCEPT ![f] = Broken]
        /\ temp' = [temp EXCEPT ![m] = f]
    BY <1>4 DEF Copy
  <2>7. QED BY <2>1, <2>3, <2>4, <2>5, <2>6
<1>5. QED BY <1>3, <1>4

LEMMA FileCopy ==
  ASSUME CallInv, FileInv, OutputInv, NEW m \in Managers, Copy(m)
  PROVE  FileInv'
<1>1. PICK f \in FileIds :
        /\ \A c \in Contents : objects[c] # f
        /\ \A n \in Names : output[n] = f => n = at[m]
        /\ \A o \in Managers : o # m => temp[o] # f
        /\ \A d \in detached : d.file # f
        /\ output' = [output EXCEPT ![at[m]] = f] /\ data' = [data EXCEPT ![f] = Broken]
        /\ temp' = [temp EXCEPT ![m] = f]
  BY CopyIsApart
<1>2. pc[m] = "link" BY DEF Copy
<1>4. /\ pc' = [pc EXCEPT ![m] = "copy"]
      /\ UNCHANGED <<objects, version, at, outcome, detached>>
  BY DEF Copy, Goto
<1>5. /\ pc[m] \in Installing /\ at[m] \in Names
      /\ \A n \in 1..(at[m] - 1) :
           n \in Names /\ n # at[m] /\ Good(output[n], Bundle[version[m]][n])
      /\ objects \in [Contents -> FileIds \cup {None}]
      /\ output \in [Names -> FileIds \cup {None}]
  BY <1>2, InstallerHas
<1>6. /\ pc'[m] = "copy" /\ temp'[m] = f
      /\ \A o \in Managers : o # m => pc'[o] = pc[o] /\ temp'[o] = temp[o]
      /\ output'[at[m]] = f /\ \A n \in Names : n # at[m] => output'[n] = output[n]
      /\ \A g \in FileIds : g # f => data'[g] = data[g]
  BY <1>1, <1>4, <1>5 DEF CallInv, TypeOK
<1>7. pc'[m] \in Installing BY <1>6 DEF Installing
<1>8. GoOn BY <1>1, <1>4, <1>5, <1>6, ObjectsKept
<1>9. \A n \in 1..(at[m] - 1) : Good(output[n], Bundle[version[m]][n])'
  <2>1. \A n \in 1..(at[m] - 1) :
          output'[n] = output[n] /\ (output[n] # None => data'[output[n]] = data[output[n]])
    BY <1>1, <1>5, <1>6
  <2>2. QED BY <1>4, <1>5, <1>8, <2>1, InstalledKept
<1>10. WorkOf(m)' BY <1>4, <1>5, <1>6, <1>7, <1>8, <1>9, WorkInstalling
<1>11. TempOf(m)' BY <1>1, <1>4, <1>6 DEF TempOf, Copying
<1>12. \A n \in Names : output'[n] \in {output[n], f, None} BY <1>6
<1>13. QED BY <1>1, <1>4, <1>5, <1>6, <1>7, <1>10, <1>11, <1>12, FileWritten

LEMMA FileCopyBytes ==
  ASSUME CallInv, FileInv, NEW m \in Managers, CopyBytes(m)
  PROVE  FileInv'
<1> DEFINE f == temp[m]
<1>1. /\ pc[m] = "copy" /\ pc' = [pc EXCEPT ![m] = "verify"]
      /\ data' = [data EXCEPT ![f] = data[source[m]]]
      /\ UNCHANGED <<objects, output, version, at, temp, outcome, detached>>
  BY DEF CopyBytes, Goto, call
<1>2. /\ f \in FileIds
      /\ \A c \in Contents : objects[c] # f
      /\ \A d \in detached : d.file # f
      /\ \A o \in Managers : o # m => temp[o] # f
      /\ \A n \in Names : output[n] = f => n = at[m]
  BY <1>1, TempIsApart DEF Copying
<1>3. /\ pc[m] \in Installing /\ at[m] \in Names
      /\ \A n \in 1..(at[m] - 1) :
           n \in Names /\ n # at[m] /\ Good(output[n], Bundle[version[m]][n])
      /\ objects \in [Contents -> FileIds \cup {None}]
      /\ output \in [Names -> FileIds \cup {None}]
  BY <1>1, InstallerHas
<1>4. /\ pc'[m] = "verify" /\ \A o \in Managers : o # m => pc'[o] = pc[o]
      /\ \A g \in FileIds : g # f => data'[g] = data[g]
  BY <1>1 DEF CallInv, TypeOK
<1>5. pc'[m] \in Installing BY <1>4 DEF Installing
<1>6. GoOn BY <1>1, <1>2, <1>3, <1>4, ObjectsKept
<1>7. \A n \in 1..(at[m] - 1) : Good(output[n], Bundle[version[m]][n])'
  <2>1. \A n \in 1..(at[m] - 1) :
          output'[n] = output[n] /\ (output[n] # None => data'[output[n]] = data[output[n]])
    BY <1>1, <1>2, <1>3, <1>4
  <2>2. QED BY <1>1, <1>3, <1>6, <2>1, InstalledKept
<1>8. WorkOf(m)' BY <1>1, <1>3, <1>4, <1>5, <1>6, <1>7, WorkInstalling
<1>9. TempOf(m)' BY <1>1, <1>4, TempKept DEF Copying
<1>10. QED BY <1>1, <1>2, <1>3, <1>4, <1>5, <1>8, <1>9, FileWritten

-----------------------------------------------------------------------------
(* The invariant, and what follows of it. *)

LEMMA FileInit ==
  ASSUME Init
  PROVE  FileInv
<1>1. ObjectsOK
  <2>1. SUFFICES ASSUME NEW c \in Contents, Rotted(c) PROVE c \in Damaged /\ Present(c)
    BY DEF ObjectsOK
  <2>2. objects[c] # None /\ objects[c] \in FileIds
    BY <2>1, CallInit DEF Rotted, CallInv, TypeOK
  <2>3. PICK d \in Damaged, x \in Contents \cup {Broken} :
          /\ x # Broken => SizeOf[x] = SizeOf[d]
          /\ objects = [a \in Contents |-> IF a = d THEN CHOOSE f \in FileIds : TRUE ELSE None]
          /\ data = [f \in FileIds |-> IF f = objects[d] THEN x ELSE Broken]
    BY <2>2 DEF Init
  <2>4. c = d /\ data[objects[c]] = x BY <2>2, <2>3
  <2>5. QED BY <2>1, <2>2, <2>3, <2>4 DEF Rotted, Present, SizeMatches
<1>2. ASSUME NEW m \in Managers PROVE TempOf(m) /\ WorkOf(m)
  <2>1. temp[m] = None /\ pc[m] = "idle" /\ outcome[m] = "none" BY DEF Init
  <2>2. QED BY <2>1 DEF TempOf, WorkOf, Got, Asking, Installing
<1>3. \A d \in detached : RenameOf(d) BY DEF Init
<1>4. OneInstaller BY DEF Init, OneInstaller, Installing
<1>5. QED BY <1>1, <1>2, <1>3, <1>4 DEF FileInv

LEMMA FileStep ==
  ASSUME CallInv, FileInv, OutputInv, Installers <= 1, Next
  PROVE  FileInv'
<1>1. CASE Publish
  <2>1. /\ objects' = objects
        /\ UNCHANGED <<output, data, pc, version, at, temp, outcome, detached>>
    BY <1>1 DEF Publish, disk, call
  <2>2. ObjectsOK' /\ GoOn BY <2>1, ObjectsKept
  <2>3. ASSUME NEW o \in Managers PROVE TempOf(o)' BY <2>1, TempKept
  <2>4. ASSUME NEW e \in detached' PROVE RenameOf(e)' BY <2>1, <2>2, <2>4, RenameKept
  <2>5. ASSUME NEW o \in Managers PROVE WorkOf(o)' BY <2>1, <2>2, WorkElsewhere
  <2>6. OneInstaller' BY <2>1, InstallerKept
  <2>7. QED BY <2>2, <2>3, <2>4, <2>5, <2>6 DEF FileInv
<1>2. ASSUME NEW m \in Managers, Probe(m) \/ Recheck(m) PROVE FileInv'
  <2>1. pc[m] \in Asking BY <1>2 DEF Probe, Recheck, Asking
  <2>2. CASE Hit(m)
    <3>1. Present(Content(m)) BY <2>2 DEF Hit
    <3>2. Found(m) /\ UNCHANGED <<disk, version, outcome, detached>>
      BY <1>2, <2>2 DEF Probe, Recheck, disk
    <3>3. QED BY <2>1, <3>1, <3>2, FileFound
  <2>3. CASE ~Hit(m) BY <1>2, <2>3, FileLooks, FileRecheck
  <2>4. QED BY <2>2, <2>3
<1>3. ASSUME NEW m \in Managers, Placed(m) PROVE FileInv'
  <2>1. Present(Content(m)) BY <1>3 DEF Placed, FileInv, WorkOf
  <2>2. QED BY <1>3, <2>1, FileFound DEF Placed, Asking
<1>4. ASSUME NEW m \in Managers, Step(m) PROVE FileInv'
  BY <1>2, <1>3, <1>4, FileManifest, FileLooks, FileEnsureEnds, FileDownload, FileRename, FileEnds,
     FileInspect, FileLeft, FileRemove, FileLink, FileCopy, FileCopyBytes, FileVerify DEF Step
<1>5. ASSUME NEW m \in Managers, AskFails(m) \/ Install(m) \/ Drop(m) PROVE FileInv'
  BY <1>5, FileEnds, FileInstall, FileDrop
<1>6. ASSUME NEW m \in Managers, NEW p \in Policies, Ensure(m, p) PROVE FileInv'
  BY <1>6, FileManifest
<1>7. ASSUME NEW d \in detached, DetachedRename(d) \/ DetachedStore(d) PROVE FileInv'
  BY <1>7, FileDetachedRename, FileDetachedStore
<1>8. QED BY <1>1, <1>4, <1>5, <1>6, <1>7 DEF Next

LEMMA FileStutters ==
  ASSUME CallInv, FileInv, UNCHANGED vars
  PROVE  FileInv'
<1>1. /\ objects' = objects
      /\ UNCHANGED <<output, data, pc, version, at, temp, outcome, detached>>
  BY DEF vars, disk, call
<1>2. ObjectsOK' /\ GoOn BY <1>1, ObjectsKept
<1>3. ASSUME NEW o \in Managers PROVE TempOf(o)' BY <1>1, TempKept
<1>4. ASSUME NEW e \in detached' PROVE RenameOf(e)' BY <1>1, <1>2, <1>4, RenameKept
<1>5. ASSUME NEW o \in Managers PROVE WorkOf(o)' BY <1>1, <1>2, WorkElsewhere
<1>6. OneInstaller' BY <1>1, InstallerKept
<1>7. QED BY <1>2, <1>3, <1>4, <1>5, <1>6 DEF FileInv

\* What a step does that touches neither the output directory nor a link to be made.
LEMMA OutputKept ==
  ASSUME OutputInv, linkable' = linkable, output' = output,
         \A c \in Contents, n \in Names :
           objects'[c] = objects[c] \/ objects'[c] # output[n] \/ output[n] = None,
         \A m \in Managers : pc'[m] = "link" => pc[m] = "link" /\ at'[m] = at[m]
  PROVE  OutputInv'
BY DEF OutputInv

LEMMA OutputQuiet ==
  ASSUME CallInv, OutputInv, NEW m \in Managers, Step(m),
         ~Remove(m), ~Link(m), ~Copy(m), ~Rename(m)
  PROVE  OutputInv'
<1> DEFINE Quiet ==
      /\ linkable' = linkable /\ output' = output /\ objects' = objects
      /\ \E w : w # "link" /\ pc' = [pc EXCEPT ![m] = w]
      /\ at' = at \/ \E a : at' = [at EXCEPT ![m] = a]
<1>1. ASSUME Quiet PROVE OutputInv'
  <2>1. \A o \in Managers : pc'[o] = "link" => pc[o] = "link" /\ at'[o] = at[o]
    BY <1>1 DEF CallInv, TypeOK
  <2>2. QED BY <1>1, <2>1, OutputKept
<1>2. CASE LoadManifest(m) \/ Fetch(m) \/ StoreManifest(m) \/ FetchFails(m)
  BY <1>1, <1>2 DEF LoadManifest, Fetch, StoreManifest, FetchFails, ReadCached, Error, Forget, Goto,
                    disk, call
<1>3. CASE NextFile(m) \/ EnsureEnds(m) \/ Lock(m) \/ PublishObject(m) \/ Download(m)
  BY <1>1, <1>3 DEF NextFile, EnsureEnds, Lock, PublishObject, Download, Goto, disk, call
<1>4. CASE Probe(m) \/ Recheck(m) \/ Placed(m)
  BY <1>1, <1>4 DEF Probe, Recheck, Placed, Found, Goto, disk
<1>5. CASE DownloadFails(m) \/ Discard(m)
  BY <1>1, <1>5 DEF DownloadFails, Discard, Error, Forget, Goto
<1>6. CASE InstallFails(m) \/ InstallEnds(m) \/ CopyBytes(m)
  BY <1>1, <1>6 DEF InstallFails, InstallEnds, CopyBytes, Error, Forget, Goto, disk, call
<1>7. CASE Inspect(m) \/ Verify(m)
  BY <1>1, <1>7 DEF Inspect, Verify, Installed, Goto, disk
<1>8. QED BY <1>2, <1>3, <1>4, <1>5, <1>6, <1>7 DEF Step

\* A rename is of a file that has no name in the output directory.
LEMMA OutputRenamed ==
  ASSUME CallInv, FileInv, OutputInv,
         \/ \E m \in Managers : Rename(m)
         \/ \E d \in detached : DetachedRename(d) \/ DetachedStore(d)
  PROVE  OutputInv'
<1>1. ASSUME NEW m \in Managers, Rename(m) PROVE OutputInv'
  <2>1. pc[m] = "rename" /\ pc' = [pc EXCEPT ![m] = "placed"]
        /\ objects' = [objects EXCEPT ![Content(m)] = temp[m]]
        /\ UNCHANGED <<linkable, output, at>>
    BY <1>1 DEF Rename, Goto
  <2>2. \A n \in Names : output[n] # temp[m] BY <2>1, TempIsApart DEF Holding, Copying, Installing
  <2>3. \A c \in Contents : objects'[c] \in {objects[c], temp[m]} BY <2>1 DEF CallInv, TypeOK
  <2>4. \A o \in Managers : pc'[o] = "link" => pc[o] = "link" BY <2>1 DEF CallInv, TypeOK
  <2>5. QED BY <2>1, <2>2, <2>3, <2>4, OutputKept
<1>2. ASSUME NEW d \in detached, DetachedRename(d) PROVE OutputInv'
  <2>1. d.file # None /\ objects' = [objects EXCEPT ![d.as] = d.file]
        /\ UNCHANGED <<linkable, output, pc, at>>
    BY <1>2 DEF DetachedRename, call
  <2>2. \A n \in Names : output[n] # d.file BY <2>1 DEF FileInv, RenameOf
  <2>3. \A c \in Contents : objects'[c] \in {objects[c], d.file} BY <2>1 DEF CallInv, TypeOK
  <2>4. QED BY <2>1, <2>2, <2>3, OutputKept
<1>3. ASSUME NEW d \in detached, DetachedStore(d) PROVE OutputInv'
  BY <1>3, OutputKept DEF DetachedStore, disk, call
<1>4. QED BY <1>1, <1>2, <1>3

\* An installation's own: a name that may be a link goes, a link is made to a
\* name that went, a copy has one name.
LEMMA OutputInstalling ==
  ASSUME CallInv, FileInv, OutputInv, TRUE \notin RemovesFail, NEW m \in Managers,
         Remove(m) \/ Link(m) \/ Copy(m)
  PROVE  OutputInv'
<1>1. /\ pc[m] \in {"remove", "link"} /\ linkable' = linkable /\ objects' = objects
      /\ output' = output \/ \E f : output' = [output EXCEPT ![at[m]] = f]
      /\ linkable \in BOOLEAN
  BY DEF Remove, Link, Copy, Installed, disk, CallInv, TypeOK
<1>2. pc[m] \in Installing /\ at[m] \in Names /\ output \in [Names -> FileIds \cup {None}]
  BY <1>1, InstallerHas
<1>3. \A o \in Managers : o # m => pc'[o] = pc[o] /\ pc[o] # "link"
  <2>1. \A o \in Managers : o # m => pc'[o] = pc[o]
    BY DEF Remove, Link, Copy, Installed, Goto, CallInv, TypeOK
  <2>2. QED BY <1>2, <2>1 DEF FileInv, OneInstaller, Installing
<1>4. CASE linkable
  <2>1. CASE Remove(m)
    <3>1. linkable \notin RemovesFail BY <1>4, CatalogAssumption DEF OutputInv
    <3>2. output' = [output EXCEPT ![at[m]] = None] /\ at' = at BY <2>1, <3>1 DEF Remove, call
    <3>3. QED BY <1>1, <1>2, <1>3, <1>4, <3>2 DEF OutputInv
  <2>2. CASE Link(m) \/ Copy(m)
    <3>1. pc'[m] # "link" BY <2>2 DEF Link, Copy, Installed, Goto, CallInv, TypeOK
    <3>2. QED BY <1>1, <1>3, <1>4, <3>1 DEF OutputInv
  <2>3. QED BY <2>1, <2>2
<1>5. CASE ~linkable
  <2>1. CASE Remove(m)
    <3>1. \A n \in Names : output'[n] \in {output[n], None} BY <1>2, <2>1 DEF Remove
    <3>2. QED BY <1>1, <1>2, <1>5, <3>1 DEF OutputInv
  <2>2. CASE Link(m) BY <1>5, <2>2 DEF Link, Linked
  <2>3. CASE Copy(m)
    <3>1. PICK f \in FileIds :
            /\ \A c \in Contents : objects[c] # f
            /\ \A n \in Names : output[n] = f => n = at[m]
            /\ output' = [output EXCEPT ![at[m]] = f]
      BY <2>3, CopyIsApart
    <3>2. \A n \in Names : output'[n] = IF n = at[m] THEN f ELSE output[n] BY <1>2, <3>1
    <3>3. QED BY <1>1, <1>2, <1>5, <3>1, <3>2 DEF OutputInv
  <2>4. QED BY <2>1, <2>2, <2>3
<1>6. QED BY <1>1, <1>4, <1>5

LEMMA OutputStep ==
  ASSUME CallInv, FileInv, OutputInv, Orderly, [Next]_vars
  PROVE  OutputInv'
<1>1. CASE UNCHANGED vars BY <1>1, OutputKept DEF vars, disk, call
<1>2. CASE Publish BY <1>2, OutputKept DEF Publish, disk, call
<1>3. ASSUME NEW m \in Managers, Step(m) PROVE OutputInv'
  BY <1>3, OutputQuiet, OutputRenamed, OutputInstalling DEF Orderly
<1>4. ASSUME NEW m \in Managers, AskFails(m) \/ Install(m) \/ Drop(m) PROVE OutputInv'
  <2>1. /\ linkable' = linkable /\ output' = output /\ objects' = objects
        /\ \E w \in {"idle", "inspect"} : pc' = [pc EXCEPT ![m] = w]
        /\ at' = at \/ at' = [at EXCEPT ![m] = 1]
    BY <1>4 DEF AskFails, Install, Drop, Error, Forget, Goto, disk, call
  <2>2. \A o \in Managers : pc'[o] = "link" => pc[o] = "link" /\ at'[o] = at[o]
    BY <2>1 DEF CallInv, TypeOK
  <2>3. QED BY <2>1, <2>2, OutputKept
<1>5. ASSUME NEW m \in Managers, NEW p \in Policies, Ensure(m, p) PROVE OutputInv'
  <2>1. UNCHANGED <<linkable, output, objects, at>> /\ pc' = [pc EXCEPT ![m] = "manifest"]
    BY <1>5 DEF Ensure, Goto, disk
  <2>2. \A o \in Managers : pc'[o] = "link" => pc[o] = "link" BY <2>1 DEF CallInv, TypeOK
  <2>3. QED BY <2>1, <2>2, OutputKept
<1>6. ASSUME NEW d \in detached, DetachedRename(d) \/ DetachedStore(d) PROVE OutputInv'
  BY <1>6, OutputRenamed
<1>7. QED BY <1>1, <1>2, <1>3, <1>4, <1>5, <1>6 DEF Next

LEMMA OutputInit ==
  ASSUME Init
  PROVE  OutputInv
BY DEF Init, OutputInv

\* The invariant of the catalog cache: calls are sound, and with one installer at
\* a time no file that is written to has a name in the cache.
THEOREM CatalogInvariant == Spec => []CatalogInv
<1>1. Init /\ CallInv => CatalogInv BY FileInit, OutputInit DEF CatalogInv
<1>2. CallInv /\ CallInv' /\ CatalogInv /\ [Next]_vars => CatalogInv'
  BY FileStep, FileStutters, OutputStep DEF CatalogInv, Orderly
<1>3. QED BY <1>1, <1>2, CallsAreSound, PTL DEF Spec

\* The files under the hashes are the same, and hold the same.
ObjectsSame ==
  objects' = objects /\ \A c \in Contents : objects[c] # None => data'[objects[c]] = data[objects[c]]

\* They are written to by no step but a rename over them.
LEMMA ObjectsUntouched ==
  ASSUME CallInv, FileInv, OutputInv, NEW m \in Managers,
         \/ Recheck(m) \/ Download(m) \/ DownloadFails(m) \/ Discard(m)
         \/ Remove(m) \/ Copy(m) \/ CopyBytes(m)
  PROVE  ObjectsSame
<1>1. objects' = objects /\ objects \in [Contents -> FileIds \cup {None}]
  BY DEF Recheck, Download, DownloadFails, Discard, Remove, Copy, CopyBytes, CallInv, TypeOK
<1>2. NewFile \in FileIds /\ \A c \in Contents : objects[c] # NewFile BY NewFileIsFresh
<1> HIDE DEF NewFile
<1>3. SUFFICES ASSUME NEW c \in Contents, objects[c] # None
               PROVE  data'[objects[c]] = data[objects[c]]
  BY <1>1 DEF ObjectsSame
<1>4. objects[c] \in FileIds BY <1>1, <1>3
<1>5. CASE Recheck(m) BY <1>2, <1>4, <1>5 DEF Recheck, CallInv, TypeOK
<1>6. CASE Download(m) \/ DownloadFails(m) \/ Discard(m) \/ CopyBytes(m)
  <2>1. pc[m] \in Holding \cup Copying
    BY <1>6 DEF Download, DownloadFails, Discard, CopyBytes, Holding, Copying
  <2>2. objects[c] # temp[m] BY <2>1, TempIsApart
  <2>3. QED
    BY <1>4, <1>6, <2>2 DEF Download, DownloadFails, Discard, CopyBytes, Discarded, CallInv, TypeOK
<1>7. CASE Remove(m)
  <2>1. objects[c] \in Values(objects) BY <1>1 DEF Values
  <2>2. QED BY <1>4, <1>7, <2>1 DEF Remove, Discarded, CallInv, TypeOK
<1>8. CASE Copy(m)
  <2>1. PICK f \in FileIds : objects[c] # f /\ data' = [data EXCEPT ![f] = Broken]
    BY <1>8, CopyIsApart
  <2>2. QED BY <1>4, <2>1 DEF CallInv, TypeOK
<1>9. QED BY <1>5, <1>6, <1>7, <1>8

\* A rename is of a verified artifact, over nothing but that artifact or what
\* was cut short.
LEMMA RenamesAreVerified ==
  ASSUME CallInv, FileInv
  PROVE  /\ \A m \in Managers : Rename(m) =>
              /\ Content(m) \in Contents /\ temp[m] # None /\ data[temp[m]] = Content(m)
              /\ ~Rotted(Content(m))
         /\ \A d \in detached : DetachedRename(d) =>
              d.as \in Contents /\ d.file # None /\ data[d.file] = d.as /\ ~Rotted(d.as)
<1>1. ASSUME NEW m \in Managers, Rename(m)
      PROVE  /\ Content(m) \in Contents /\ temp[m] # None /\ data[temp[m]] = Content(m)
             /\ ~Rotted(Content(m))
  <2>1. pc[m] = "rename" BY <1>1 DEF Rename
  <2>2. QED BY <2>1, ContentIs DEF Asking, CallInv, CallOf, Holding, FileInv, WorkOf
<1>2. ASSUME NEW d \in detached, DetachedRename(d)
      PROVE  d.as \in Contents /\ d.file # None /\ data[d.file] = d.as /\ ~Rotted(d.as)
  BY <1>2 DEF DetachedRename, CallInv, DetachedOK, FileInv, RenameOf
<1>3. QED BY <1>1, <1>2

\* No step of a manager but a rename changes an object.
LEMMA ObjectsUnchanged ==
  ASSUME CallInv, FileInv, OutputInv, NEW m \in Managers, Step(m), ~Rename(m)
  PROVE  ObjectsSame
<1>1. CASE UNCHANGED disk BY <1>1 DEF disk, ObjectsSame
<1>2. CASE \/ Recheck(m) \/ Download(m) \/ DownloadFails(m) \/ Discard(m)
           \/ Remove(m) \/ Copy(m) \/ CopyBytes(m)
  BY <1>2, ObjectsUntouched
<1>3. CASE LoadManifest(m) \/ Fetch(m) \/ StoreManifest(m) \/ FetchFails(m)
  BY <1>1, <1>3 DEF LoadManifest, Fetch, StoreManifest, FetchFails
<1>4. CASE NextFile(m) \/ EnsureEnds(m) \/ Probe(m) \/ Lock(m) \/ PublishObject(m) \/ Placed(m)
  BY <1>1, <1>4 DEF NextFile, EnsureEnds, Probe, Lock, PublishObject, Placed
<1>5. CASE InstallFails(m) \/ InstallEnds(m) \/ Inspect(m) \/ Verify(m)
  BY <1>1, <1>5 DEF InstallFails, InstallEnds, Inspect, Verify
<1>6. CASE Link(m) BY <1>6 DEF Link, ObjectsSame
<1>7. QED BY <1>2, <1>3, <1>4, <1>5, <1>6 DEF Step

LEMMA WholeStays ==
  ASSUME CallInv, FileInv, OutputInv, [Next]_vars, NEW c \in Contents, Whole(c)
  PROVE  Whole(c)'
<1>1. CASE UNCHANGED disk BY <1>1 DEF disk, Whole
<1>2. CASE UNCHANGED vars BY <1>1, <1>2 DEF vars
<1>3. CASE Publish BY <1>1, <1>3 DEF Publish
<1>4. ASSUME NEW m \in Managers, Step(m) PROVE Whole(c)'
  <2>1. CASE Rename(m)
    <3>1. Content(m) \in Contents /\ temp[m] # None /\ data[temp[m]] = Content(m)
      BY <2>1, RenamesAreVerified
    <3>2. objects' = [objects EXCEPT ![Content(m)] = temp[m]] /\ data' = data BY <2>1 DEF Rename
    <3>3. QED BY <3>1, <3>2 DEF Whole, CallInv, TypeOK
  <2>2. CASE ~Rename(m) BY <1>4, <2>2, ObjectsUnchanged DEF ObjectsSame, Whole
  <2>3. QED BY <2>1, <2>2
<1>5. ASSUME NEW m \in Managers, AskFails(m) \/ Install(m) \/ Drop(m) PROVE Whole(c)'
  BY <1>1, <1>5 DEF AskFails, Install, Drop
<1>6. ASSUME NEW m \in Managers, NEW p \in Policies, Ensure(m, p) PROVE Whole(c)'
  BY <1>1, <1>6 DEF Ensure
<1>7. ASSUME NEW d \in detached, DetachedRename(d) \/ DetachedStore(d) PROVE Whole(c)'
  <2>1. CASE DetachedStore(d) BY <1>1, <2>1 DEF DetachedStore
  <2>2. CASE DetachedRename(d)
    <3>1. d.as \in Contents /\ d.file # None /\ data[d.file] = d.as BY <2>2, RenamesAreVerified
    <3>2. objects' = [objects EXCEPT ![d.as] = d.file] /\ data' = data BY <2>2 DEF DetachedRename
    <3>3. QED BY <3>1, <3>2 DEF Whole, CallInv, TypeOK
  <2>3. QED BY <1>7, <2>1, <2>2
<1>8. QED BY <1>2, <1>3, <1>4, <1>5, <1>6, <1>7 DEF Next

\* With one installer at a time, and names that can be removed where they may be
\* links, an artifact that is whole stays whole, whatever is downloaded, dropped or
\* installed.  A second installer is enough for one that does not; so is a link
\* that stays under its name.
THEOREM WholeObjectsStay == Installers <= 1 /\ TRUE \notin RemovesFail /\ Spec => WholeStaysWhole
<1> DEFINE Stays == \A c \in Contents : Whole(c) => Whole(c)'
<1>1. CallInv /\ FileInv /\ OutputInv /\ [Next]_vars => [Stays]_vars BY WholeStays DEF Whole
<1>2. CASE Orderly
  <2>1. CatalogInv => CallInv /\ FileInv /\ OutputInv BY <1>2 DEF CatalogInv
  <2>2. QED BY <1>1, <2>1, CatalogInvariant, PTL DEF Spec, WholeStaysWhole
<1>3. CASE ~Orderly BY <1>3 DEF Orderly
<1>4. QED BY <1>2, <1>3

\* The one step that completes an installation.
LEMMA InstallationsEnd ==
  ASSUME CallInv, NEW m \in Managers, Next, outcome[m] # "installed", outcome'[m] = "installed"
  PROVE  InstallEnds(m)
<1>1. ASSUME outcome' = outcome PROVE FALSE BY <1>1
<1>2. ASSUME NEW o \in Managers, NEW e, outcome' = [outcome EXCEPT ![o] = e], e # "installed"
      PROVE  FALSE
  BY <1>2 DEF CallInv, TypeOK
<1>3. CASE Publish BY <1>1, <1>3 DEF Publish
<1>4. ASSUME NEW o \in Managers, LoadManifest(o) \/ Fetch(o) \/ StoreManifest(o) \/ FetchFails(o)
      PROVE  FALSE
  BY <1>1, <1>2, <1>4 DEF LoadManifest, Fetch, StoreManifest, FetchFails, ReadCached, Error
<1>5. ASSUME NEW o \in Managers, NextFile(o) \/ Probe(o) \/ Lock(o) \/ Recheck(o) \/ Placed(o)
      PROVE  FALSE
  BY <1>1, <1>5 DEF NextFile, Probe, Lock, Recheck, Placed
<1>6. ASSUME NEW o \in Managers, Download(o) \/ PublishObject(o) \/ Rename(o) \/ Discard(o)
      PROVE  FALSE
  BY <1>1, <1>6 DEF Download, PublishObject, Rename, Discard
<1>7. ASSUME NEW o \in Managers, AskFails(o) \/ DownloadFails(o) \/ InstallFails(o) \/ Drop(o)
      PROVE  FALSE
  BY <1>2, <1>7 DEF AskFails, DownloadFails, InstallFails, Drop, Error
<1>8. ASSUME NEW o \in Managers, EnsureEnds(o) \/ Install(o) PROVE FALSE
  BY <1>2, <1>8 DEF EnsureEnds, Install
<1>9. ASSUME NEW o \in Managers,
             Inspect(o) \/ Remove(o) \/ Link(o) \/ Copy(o) \/ CopyBytes(o) \/ Verify(o)
      PROVE  FALSE
  BY <1>1, <1>9 DEF Inspect, Remove, Link, Copy, CopyBytes, Verify
<1>10. ASSUME NEW o \in Managers, NEW p \in Policies, Ensure(o, p) PROVE FALSE
  BY <1>2, <1>10 DEF Ensure
<1>11. ASSUME NEW d \in detached, DetachedRename(d) \/ DetachedStore(d) PROVE FALSE
  BY <1>1, <1>11 DEF DetachedRename, DetachedStore
<1>12. ASSUME NEW o \in Managers, InstallEnds(o) PROVE o = m
  BY <1>12 DEF InstallEnds, CallInv, TypeOK
<1>13. \E o \in Managers : InstallEnds(o)
  BY <1>3, <1>4, <1>5, <1>6, <1>7, <1>8, <1>9, <1>10, <1>11 DEF Next, Step
<1>14. QED BY <1>12, <1>13

\* With one installer at a time, and names that can be removed where they may be
\* links, an installation that succeeds leaves the artifacts of its version in the
\* output directory, but for one damaged in the cache at first without losing its size.
THEOREM InstallationsAreWhole == Installers <= 1 /\ TRUE \notin RemovesFail /\ Spec => InstallsOneVersion
<1> DEFINE Installs ==
      \A m \in Managers : outcome[m] # "installed" /\ outcome'[m] = "installed" =>
        \A n \in Names : LET c == Bundle[version[m]][n] IN
          /\ output[n] # None
          /\ data[output[n]] = c \/ (c \in Damaged /\ output[n] = objects[c])
<1>1. CallInv /\ FileInv /\ [Next]_vars => [Installs]_vars
  <2>1. SUFFICES ASSUME CallInv, FileInv, Next, NEW m \in Managers, outcome[m] # "installed",
                        outcome'[m] = "installed", NEW n \in Names, NEW c,
                        c = Bundle[version[m]][n]
                 PROVE  /\ output[n] # None
                        /\ data[output[n]] = c \/ (c \in Damaged /\ output[n] = objects[c])
    OBVIOUS
  <2>2. pc[m] = "inspect" /\ at[m] \notin Names BY <2>1, InstallationsEnd DEF InstallEnds
  <2>3. pc[m] \in Installing /\ at[m] \in 1..(Len(Files) + 1) /\ version[m] \in Versions
    BY <2>1, <2>2 DEF CallInv, TypeOK, Installing
  <2>4. n \in 1..(at[m] - 1) BY <2>1, <2>2, <2>3, CatalogAssumption DEF Names
  <2>5. Good(output[n], c) BY <2>1, <2>3, <2>4 DEF FileInv, WorkOf
  <2>6. c \in Contents BY <2>1, <2>3, BundleIs
  <2>7. Rotted(c) => c \in Damaged BY <2>1, <2>6 DEF FileInv, ObjectsOK
  <2>8. QED BY <2>5, <2>7 DEF Good, Rotted, Present, SizeMatches
<1>2. CASE Orderly
  <2>1. CatalogInv => CallInv /\ FileInv /\ OutputInv BY <1>2 DEF CatalogInv
  <2>2. QED BY <1>1, <2>1, CatalogInvariant, PTL DEF Spec, InstallsOneVersion
<1>3. CASE ~Orderly BY <1>3 DEF Orderly
<1>4. QED BY <1>2, <1>3

-----------------------------------------------------------------------------
(* The cache implements WriteOnceStore. *)

\* What each place of the store holds, and what each manager asks it for.
Held == [c \in Contents |-> IF Present(c) THEN data[objects[c]] ELSE None]
Asked == [m \in Managers |-> IF pc[m] \in Asking THEN Content(m) ELSE None]

LEMMA StoreUnchanged ==
  ASSUME Held' = Held, Asked' = Asked, answer' = answer
  PROVE  UNCHANGED Objects!vars
BY DEF Objects!vars, Held, Asked

LEMMA HeldUnchanged ==
  ASSUME ObjectsSame
  PROVE  Held' = Held
<1>1. Held' = [c \in Contents |-> IF Present(c)' THEN data'[objects'[c]] ELSE None]
  BY DEF Held, Present, SizeMatches
<1>2. ASSUME NEW c \in Contents
      PROVE  (IF Present(c)' THEN data'[objects'[c]] ELSE None)
             = (IF Present(c) THEN data[objects[c]] ELSE None)
  BY DEF ObjectsSame, Present, SizeMatches
<1>3. QED BY <1>1, <1>2 DEF Held

\* Only the manager that takes the step asks for something else.
LEMMA AskedElsewhere ==
  ASSUME CallInv, NEW m \in Managers,
         \A o \in Managers : o # m => pc'[o] = pc[o] /\ version'[o] = version[o] /\ at'[o] = at[o]
  PROVE  Asked' = [Asked EXCEPT ![m] = IF pc'[m] \in Asking THEN Content(m)' ELSE None]
BY DEF Asked, Content

\* A step within an artifact, or outside of all, asks for nothing new.
LEMMA StoreStutters ==
  ASSUME CallInv, NEW m \in Managers,
         \A o \in Managers : o # m => pc'[o] = pc[o] /\ version'[o] = version[o] /\ at'[o] = at[o],
         \/ pc[m] \notin Asking /\ pc'[m] \notin Asking
         \/ /\ pc[m] \in Asking /\ pc'[m] \in Asking
            /\ version'[m] = version[m] /\ at'[m] = at[m],
         ObjectsSame,
         answer' = answer
  PROVE  UNCHANGED Objects!vars
<1>1. Asked' = [Asked EXCEPT ![m] = IF pc'[m] \in Asking THEN Content(m)' ELSE None]
  BY AskedElsewhere
<1>2. (IF pc'[m] \in Asking THEN Content(m)' ELSE None) = Asked[m] BY DEF Asked, Content
<1>3. Asked' = Asked BY <1>1, <1>2 DEF Asked
<1>4. Held' = Held BY HeldUnchanged
<1>5. QED BY <1>3, <1>4, StoreUnchanged

\* A call that is told of its artifact is answered ok.
LEMMA StoreAnswers ==
  ASSUME CallInv, NEW m \in Managers, pc[m] \in Asking, Found(m), Present(Content(m)),
         UNCHANGED <<disk, version>>
  PROVE  Objects!AnswerOk(m)
<1>1. Content(m) \in Contents BY ContentIs
<1>2. /\ pc'[m] \notin Asking
      /\ \A o \in Managers : o # m => pc'[o] = pc[o] /\ version'[o] = version[o] /\ at'[o] = at[o]
      /\ answer' = [answer EXCEPT ![m] = "ok"]
  BY DEF CallInv, TypeOK, Found, Goto, Asking
<1>3. Asked' = [Asked EXCEPT ![m] = None] BY <1>2, AskedElsewhere
<1>4. Held' = Held
  <2>1. ObjectsSame BY DEF ObjectsSame, disk
  <2>2. QED BY <2>1, HeldUnchanged
<1>5. Asked[m] = Content(m) /\ Held[Content(m)] # None /\ Content(m) # None
  <2>1. objects[Content(m)] \in FileIds /\ data[objects[Content(m)]] \in Contents
    BY <1>1 DEF Present, SizeMatches, CallInv, TypeOK
  <2>2. QED BY <1>1, <2>1, CatalogAssumption DEF Asked, Held
<1>6. QED BY <1>2, <1>3, <1>4, <1>5 DEF Objects!AnswerOk, Asked, Held

\* A call that ends at an artifact gives it up.
LEMMA StoreGivesUp ==
  ASSUME CallInv, NEW m \in Managers, pc[m] \in Asking, Error(m),
         answer' = [answer EXCEPT ![m] = "error"],
         ObjectsSame
  PROVE  Objects!GiveUp(m)
<1>1. Content(m) \in Contents BY ContentIs
<1>2. /\ pc'[m] \notin Asking
      /\ \A o \in Managers : o # m => pc'[o] = pc[o] /\ version'[o] = version[o] /\ at'[o] = at[o]
  BY DEF CallInv, TypeOK, Error, Forget, Goto, Asking
<1>3. Asked' = [Asked EXCEPT ![m] = None] BY <1>2, AskedElsewhere
<1>4. Held' = Held BY HeldUnchanged
<1>5. Asked[m] = Content(m) /\ Content(m) # None BY <1>1, CatalogAssumption DEF Asked
<1>6. QED BY <1>3, <1>4, <1>5 DEF Objects!GiveUp, Asked, Held

\* A rename keeps an artifact its place does not hold, or changes nothing.
LEMMA StoreKeeps ==
  ASSUME CallInv, FileInv, NEW a \in Contents, NEW f, f # None, data[f] = a, ~Rotted(a),
         objects' = [objects EXCEPT ![a] = f], data' = data,
         Asked' = Asked, answer' = answer
  PROVE  Objects!Next \/ UNCHANGED Objects!vars
<1>1. objects'[a] = f /\ \A c \in Contents : c # a => objects'[c] = objects[c]
  BY DEF CallInv, TypeOK
<1>2. Held' = [c \in Contents |-> IF Present(c)' THEN data'[objects'[c]] ELSE None]
  BY DEF Held, Present, SizeMatches
<1>3. Present(a)' BY <1>1, CatalogAssumption DEF Present, SizeMatches
<1>4. \A c \in Contents : c # a =>
        (IF Present(c)' THEN data'[objects'[c]] ELSE None)
        = (IF Present(c) THEN data[objects[c]] ELSE None)
  <2>1. ASSUME NEW c \in Contents, c # a
        PROVE  (IF Present(c)' THEN data'[objects'[c]] ELSE None)
               = (IF Present(c) THEN data[objects[c]] ELSE None)
    BY <1>1, <2>1 DEF Present, SizeMatches
  <2>2. QED BY <2>1
<1>5. Held' = [Held EXCEPT ![a] = a]
  <2> DEFINE Was(c) == IF Present(c) THEN data[objects[c]] ELSE None
             Is(c) == IF Present(c)' THEN data'[objects'[c]] ELSE None
  <2>1. Is(a) = a BY <1>1, <1>3
  <2>2. \A c \in Contents : c # a => Is(c) = Was(c) BY <1>4
  <2>3. Held' = [c \in Contents |-> Is(c)] /\ Held = [c \in Contents |-> Was(c)]
    BY <1>2 DEF Held
  <2> HIDE DEF Is, Was
  <2>4. QED BY <2>1, <2>2, <2>3
<1>6. CASE Present(a)
  <2>1. Held[a] = a BY <1>6 DEF Held, Rotted, Present, SizeMatches
  <2>2. Held' = Held BY <1>5, <2>1 DEF Held
  <2>3. QED BY <2>2, StoreUnchanged
<1>7. CASE ~Present(a)
  <2>1. Held[a] = None BY <1>7 DEF Held
  <2>2. Objects!Keep(a, a) BY <1>5, <2>1 DEF Objects!Keep, Held, Asked
  <2>3. QED BY <2>2 DEF Objects!Next
<1>8. QED BY <1>6, <1>7

LEMMA StoreInit ==
  ASSUME Init
  PROVE  Objects!Init
<1>1. Held \in [Contents -> Contents \cup {None}]
  <2>1. ASSUME NEW c \in Contents, Present(c) PROVE data[objects[c]] \in Contents
    <3>1. objects[c] # None /\ data[objects[c]] # Broken BY <2>1 DEF Present, SizeMatches
    <3>2. QED BY <3>1, CallInit DEF CallInv, TypeOK
  <2>2. QED BY <2>1 DEF Held
<1>2. Asked = [m \in Managers |-> None] BY DEF Init, Asked, Asking
<1>3. answer = [m \in Managers |-> "none"] BY DEF Init
<1>4. QED BY <1>1, <1>2, <1>3 DEF Objects!Init, Held, Asked

\* A step of a manager asks, is answered, gives up, keeps an artifact, or is
\* none of the store's.
LEMMA StoreStep ==
  ASSUME CallInv, FileInv, OutputInv, NEW m \in Managers, Step(m)
  PROVE  Objects!Next \/ UNCHANGED Objects!vars
<1>1. CASE \/ LoadManifest(m) \/ Fetch(m) \/ StoreManifest(m) \/ FetchFails(m)
           \/ EnsureEnds(m) \/ InstallFails(m) \/ InstallEnds(m)
  <2>1. /\ pc[m] \notin Asking /\ pc'[m] \notin Asking /\ answer' = answer /\ UNCHANGED disk
        /\ \A o \in Managers : o # m => pc'[o] = pc[o] /\ version'[o] = version[o] /\ at'[o] = at[o]
    <3>1. CASE LoadManifest(m) \/ FetchFails(m)
      BY <3>1 DEF LoadManifest, FetchFails, ReadCached, Error, Forget, Goto, Asking, CallInv, TypeOK
    <3>2. CASE Fetch(m) \/ StoreManifest(m) \/ EnsureEnds(m)
      BY <3>2 DEF Fetch, StoreManifest, EnsureEnds, Goto, call, Asking, CallInv, TypeOK
    <3>3. CASE InstallFails(m) \/ InstallEnds(m)
      BY <3>3 DEF InstallFails, InstallEnds, Error, Forget, Goto, Asking, Installing, CallInv, TypeOK
    <3>4. QED BY <1>1, <3>1, <3>2, <3>3
  <2>2. ObjectsSame BY <2>1 DEF ObjectsSame, disk
  <2>3. QED BY <2>1, <2>2, StoreStutters
<1>2. CASE Inspect(m) \/ Remove(m) \/ Link(m) \/ Copy(m) \/ CopyBytes(m) \/ Verify(m)
  <2>1. /\ pc[m] \notin Asking /\ pc'[m] \notin Asking /\ answer' = answer
        /\ \A o \in Managers : o # m => pc'[o] = pc[o] /\ version'[o] = version[o] /\ at'[o] = at[o]
    BY <1>2 DEF Inspect, Remove, Link, Copy, CopyBytes, Verify, Installed, Goto, call, Asking, CallInv, TypeOK
  <2>2. ~Rename(m) BY <1>2 DEF Rename, Inspect, Remove, Link, Copy, CopyBytes, Verify
  <2>3. QED BY <2>1, <2>2, ObjectsUnchanged, StoreStutters
<1>3. CASE NextFile(m)
  <2>1. /\ pc[m] = "next" /\ pc'[m] = "probe" /\ at[m] \in Names /\ UNCHANGED <<version, at>>
        /\ UNCHANGED disk
        /\ \A o \in Managers : o # m => pc'[o] = pc[o]
        /\ answer' = [answer EXCEPT ![m] = "none"]
    BY <1>3 DEF NextFile, Goto, call, CallInv, TypeOK
  <2>2. version[m] \in Versions BY <2>1 DEF CallInv, TypeOK
  <2>3. Content(m) \in Contents /\ Content(m)' = Content(m) BY <2>1, <2>2, BundleIs DEF Content
  <2>4. Asked[m] = None BY <2>1 DEF Asked, Asking
  <2>5. Asked' = [Asked EXCEPT ![m] = Content(m)]
    BY <2>1, <2>3, AskedElsewhere DEF Asking
  <2>6. ObjectsSame BY <2>1 DEF ObjectsSame, disk
  <2>7. Held' = Held BY <2>6, HeldUnchanged
  <2>8. PICK c \in Contents : c = Content(m) BY <2>3
  <2>9. Objects!Ask(m, c) BY <2>1, <2>4, <2>5, <2>7, <2>8 DEF Objects!Ask, Asked, Held
  <2>10. QED BY <2>9 DEF Objects!Next
<1>4. CASE (Probe(m) \/ Recheck(m)) /\ Hit(m)
  <2>1. pc[m] \in Asking /\ Found(m) /\ UNCHANGED <<disk, version>>
    BY <1>4 DEF Probe, Recheck, Asking, disk
  <2>2. Present(Content(m)) BY <1>4 DEF Hit
  <2>3. QED BY <2>1, <2>2, StoreAnswers DEF Objects!Next
<1>5. CASE Placed(m)
  <2>1. pc[m] \in Asking /\ Found(m) /\ UNCHANGED <<disk, version>> BY <1>5 DEF Placed, Asking
  <2>2. Present(Content(m)) BY <1>5 DEF Placed, FileInv, WorkOf
  <2>3. QED BY <2>1, <2>2, StoreAnswers DEF Objects!Next
<1>6. CASE \/ (Probe(m) \/ Recheck(m)) /\ ~Hit(m)
           \/ Lock(m) \/ Download(m) \/ PublishObject(m) \/ Discard(m)
  <2>1. /\ pc[m] \in Asking /\ answer' = answer /\ UNCHANGED <<version, at>>
    BY <1>6 DEF Probe, Recheck, Lock, Download, PublishObject, Discard, call, Asking
  <2>2. PICK where \in {"lock", "recheck", "download", "publish", "rename", "discard", "placed"} :
          Goto(m, where)
    <3>1. CASE PublishObject(m) BY <3>1 DEF PublishObject
    <3>2. CASE (Probe(m) \/ Recheck(m)) /\ ~Hit(m) BY <3>2 DEF Probe, Recheck
    <3>3. CASE Lock(m) \/ Download(m) \/ Discard(m) BY <3>3 DEF Lock, Download, Discard
    <3>4. QED BY <1>6, <3>1, <3>2, <3>3
  <2>3. pc'[m] \in Asking /\ \A o \in Managers : o # m => pc'[o] = pc[o]
    BY <2>2 DEF Goto, Asking, CallInv, TypeOK
  <2>4. ~Rename(m) BY <1>6 DEF Rename, Probe, Recheck, Lock, Download, PublishObject, Discard
  <2>5. QED BY <2>1, <2>3, <2>4, ObjectsUnchanged, StoreStutters
<1>7. CASE DownloadFails(m)
  <2>1. pc[m] \in Asking /\ Error(m) /\ answer' = [answer EXCEPT ![m] = "error"]
    BY <1>7 DEF DownloadFails, Asking
  <2>2. ObjectsSame BY <1>7, ObjectsUntouched
  <2>3. QED BY <2>1, <2>2, StoreGivesUp DEF Objects!Next
<1>8. CASE Rename(m)
  <2>1. /\ Content(m) \in Contents /\ temp[m] # None /\ data[temp[m]] = Content(m)
        /\ ~Rotted(Content(m))
    BY <1>8, RenamesAreVerified
  <2>2. /\ objects' = [objects EXCEPT ![Content(m)] = temp[m]] /\ data' = data
        /\ UNCHANGED <<version, at, answer>> /\ pc[m] \in Asking /\ pc'[m] \in Asking
        /\ \A o \in Managers : o # m => pc'[o] = pc[o]
    BY <1>8 DEF Rename, Goto, Asking, CallInv, TypeOK
  <2>3. Asked' = Asked BY <2>2 DEF Asked, Content
  <2>4. QED BY <2>1, <2>2, <2>3, StoreKeeps
<1>9. QED BY <1>1, <1>2, <1>3, <1>4, <1>5, <1>6, <1>7, <1>8 DEF Step

LEMMA StoreNext ==
  ASSUME CallInv, FileInv, OutputInv, [Next]_vars
  PROVE  Objects!Next \/ UNCHANGED Objects!vars
<1>1. ASSUME UNCHANGED <<objects, data, pc, version, at, answer>> PROVE UNCHANGED Objects!vars
  <2>1. ObjectsSame BY <1>1 DEF ObjectsSame
  <2>2. Held' = Held BY <2>1, HeldUnchanged
  <2>3. Asked' = Asked BY <1>1 DEF Asked, Content
  <2>4. QED BY <1>1, <2>2, <2>3, StoreUnchanged
<1>2. CASE UNCHANGED vars BY <1>1, <1>2 DEF vars, disk, call
<1>3. CASE Publish BY <1>1, <1>3 DEF Publish, disk, call
<1>4. ASSUME NEW m \in Managers, AskFails(m) PROVE Objects!Next
  <2>1. pc[m] \in Asking /\ Error(m) /\ answer' = [answer EXCEPT ![m] = "error"] /\ UNCHANGED disk
    BY <1>4 DEF AskFails, Asking
  <2>2. ObjectsSame BY <2>1 DEF ObjectsSame, disk
  <2>3. QED BY <2>1, <2>2, StoreGivesUp DEF Objects!Next
<1>5. ASSUME NEW m \in Managers, Install(m) \/ \E p \in Policies : Ensure(m, p)
      PROVE  UNCHANGED Objects!vars
  <2>1. /\ pc[m] \notin Asking /\ pc'[m] \notin Asking /\ answer' = answer /\ UNCHANGED disk
        /\ \A o \in Managers : o # m => pc'[o] = pc[o] /\ version'[o] = version[o] /\ at'[o] = at[o]
    BY <1>5 DEF Install, Ensure, Goto, call, Asking, CallInv, TypeOK
  <2>2. ObjectsSame BY <2>1 DEF ObjectsSame, disk
  <2>3. QED BY <2>1, <2>2, StoreStutters
<1>6. ASSUME NEW m \in Managers, Drop(m) PROVE Objects!Next \/ UNCHANGED Objects!vars
  <2>1. Error(m) /\ UNCHANGED disk BY <1>6 DEF Drop
  <2>2. ObjectsSame BY <2>1 DEF ObjectsSame, disk
  <2>3. CASE pc[m] \in Asking
    <3>1. answer' = [answer EXCEPT ![m] = "error"] BY <1>6, <2>3 DEF Drop
    <3>2. QED BY <2>1, <2>2, <2>3, <3>1, StoreGivesUp DEF Objects!Next
  <2>4. CASE pc[m] \notin Asking
    <3>1. answer' = answer BY <1>6, <2>4 DEF Drop, CallInv, TypeOK
    <3>2. /\ pc'[m] \notin Asking
          /\ \A o \in Managers : o # m => pc'[o] = pc[o] /\ version'[o] = version[o] /\ at'[o] = at[o]
      BY <2>1 DEF Error, Forget, Goto, Asking, CallInv, TypeOK
    <3>3. QED BY <2>2, <2>4, <3>1, <3>2, StoreStutters
  <2>5. QED BY <2>3, <2>4
<1>7. ASSUME NEW d \in detached, DetachedRename(d) PROVE Objects!Next \/ UNCHANGED Objects!vars
  <2>1. d.as \in Contents /\ d.file # None /\ data[d.file] = d.as /\ ~Rotted(d.as)
    BY <1>7, RenamesAreVerified
  <2>2. /\ objects' = [objects EXCEPT ![d.as] = d.file] /\ data' = data
        /\ UNCHANGED <<pc, version, at, answer>>
    BY <1>7 DEF DetachedRename, call
  <2>3. Asked' = Asked BY <2>2 DEF Asked, Content
  <2>4. QED BY <2>1, <2>2, <2>3, StoreKeeps
<1>8. ASSUME NEW d \in detached, DetachedStore(d) PROVE UNCHANGED Objects!vars
  BY <1>1, <1>8 DEF DetachedStore, disk, call
<1>9. QED BY <1>2, <1>3, <1>4, <1>5, <1>6, <1>7, <1>8, StoreStep DEF Next

\* With one installer at a time, and names that can be removed where they may be
\* links, the cache is a write-once store of artifacts: one that is there stays, only
\* a verified one is added, and a manager is answered ok only when its artifact is
\* there.
THEOREM CacheKeepsObjects == Installers <= 1 /\ TRUE \notin RemovesFail /\ Spec => KeepsObjects
<1>1. Init => Objects!Init BY StoreInit
<1>2. CallInv /\ FileInv /\ OutputInv /\ [Next]_vars => [Objects!Next]_(Objects!vars)
  BY StoreNext
<1>3. CASE Orderly
  <2>1. CatalogInv => CallInv /\ FileInv /\ OutputInv BY <1>3 DEF CatalogInv
  <2>2. QED BY <1>1, <1>2, <2>1, CatalogInvariant, PTL DEF Spec, KeepsObjects, Objects!Spec
<1>4. CASE ~Orderly BY <1>4 DEF Orderly
<1>5. QED BY <1>3, <1>4

-----------------------------------------------------------------------------
(* However many install, and whether or not names can be removed. *)

\* The file of a download is its own, and has its artifact once that is verified.
HoldOf(m) ==
  pc[m] \in Holding =>
    /\ \A c \in Contents : objects[c] # temp[m]
    /\ \A n \in Names : output[n] # temp[m]
    /\ \A o \in Managers : o # m => temp[o] # temp[m]
    /\ \A d \in detached : d.file # temp[m]
    /\ pc[m] # "download" => data[temp[m]] = Content(m)

\* So is, and so has, that of a rename that may still be done.
LeftOf(d) ==
  d.file # None =>
    /\ data[d.file] = d.as
    /\ \A c \in Contents : objects[c] # d.file
    /\ \A n \in Names : output[n] # d.file
    /\ \A m \in Managers : temp[m] # d.file
    /\ \A e \in detached : e.file = d.file => e = d

HoldInv == (\A m \in Managers : HoldOf(m)) /\ \A d \in detached : LeftOf(d)

\* A download's file that a step does not write to or name stays its own.
LEMMA HoldKept ==
  ASSUME HoldInv, NEW o \in Managers,
         pc'[o] \in Holding =>
           /\ pc[o] \in Holding /\ (pc'[o] # "download" => pc[o] # "download")
           /\ temp'[o] = temp[o] /\ version'[o] = version[o] /\ at'[o] = at[o]
           /\ data'[temp[o]] = data[temp[o]]
           /\ \A c \in Contents : objects'[c] = objects[c] \/ objects'[c] # temp[o]
           /\ \A n \in Names : output'[n] = output[n] \/ output'[n] # temp[o]
           /\ \A q \in Managers : q # o => temp'[q] = temp[q] \/ temp'[q] # temp[o]
           /\ \A d \in detached' : d \in detached \/ d.file # temp[o]
  PROVE  HoldOf(o)'
BY DEF HoldInv, HoldOf, Content

LEMMA LeftKept ==
  ASSUME HoldInv, NEW d \in detached,
         d.file # None =>
           /\ data'[d.file] = data[d.file]
           /\ \A c \in Contents : objects'[c] = objects[c] \/ objects'[c] # d.file
           /\ \A n \in Names : output'[n] = output[n] \/ output'[n] # d.file
           /\ \A q \in Managers : temp'[q] = temp[q] \/ temp'[q] # d.file
           /\ \A e \in detached' : e \in detached \/ e.file # d.file
  PROVE  LeftOf(d)'
BY DEF HoldInv, LeftOf

\* A step that writes to one file, which no other download and no rename holds,
\* and names no file but that one and objects' files.
LEMMA HoldWritten ==
  ASSUME CallInv, HoldInv, NEW m \in Managers, NEW f \in FileIds,
         \A g \in FileIds : g # f => data'[g] = data[g],
         \A o \in Managers : o # m /\ pc[o] \in Holding => temp[o] # f,
         \A d \in detached : d.file # f,
         objects' = objects, detached' = detached,
         \A n \in Names :
           \/ output'[n] \in {output[n], f, None}
           \/ \E c \in Contents : output'[n] = objects[c],
         \A o \in Managers : o # m =>
           /\ pc'[o] = pc[o] /\ temp'[o] = temp[o] /\ version'[o] = version[o] /\ at'[o] = at[o],
         temp'[m] \in {None, temp[m], f},
         HoldOf(m)'
  PROVE  HoldInv'
<1>1. /\ temp \in [Managers -> FileIds \cup {None}]
      /\ detached \subseteq [file : FileIds \cup {None}, as : Contents \cup Versions]
  BY DEF CallInv, TypeOK
<1>2. ASSUME NEW o \in Managers, o # m PROVE HoldOf(o)'
  <2>1. SUFFICES ASSUME pc[o] \in Holding PROVE HoldOf(o)' BY <1>2, HoldKept
  <2>2. temp[o] # None /\ temp[o] \in FileIds /\ temp[o] # f
    BY <1>1, <1>2, <2>1 DEF CallInv, CallOf
  <2>3. HoldOf(o) BY DEF HoldInv
  <2>4. \A n \in Names : output'[n] = output[n] \/ output'[n] # temp[o]
    BY <2>1, <2>2, <2>3 DEF HoldOf
  <2>5. \A q \in Managers : q # o => temp'[q] = temp[q] \/ temp'[q] # temp[o]
    BY <1>2, <2>2
  <2>6. QED BY <1>2, <2>1, <2>2, <2>4, <2>5, HoldKept
<1>3. ASSUME NEW d \in detached PROVE LeftOf(d)'
  <2>1. CASE d.file = None BY <2>1, LeftKept
  <2>2. CASE d.file # None
    <3>1. d.file \in FileIds /\ d.file # f BY <1>1, <2>2
    <3>2. LeftOf(d) BY DEF HoldInv
    <3>3. \A n \in Names : output'[n] = output[n] \/ output'[n] # d.file
      BY <2>2, <3>1, <3>2 DEF LeftOf
    <3>4. \A q \in Managers : temp'[q] = temp[q] \/ temp'[q] # d.file BY <2>2, <3>1
    <3>5. QED BY <3>1, <3>3, <3>4, LeftKept
  <2>3. QED BY <2>1, <2>2
<1>4. QED BY <1>2, <1>3 DEF HoldInv

\* A step that touches no file.
LEMMA HoldQuiet ==
  ASSUME CallInv, HoldInv, NEW m \in Managers, UNCHANGED disk, detached' = detached,
         \A o \in Managers : o # m =>
           /\ pc'[o] = pc[o] /\ temp'[o] = temp[o] /\ version'[o] = version[o] /\ at'[o] = at[o],
         temp'[m] \in {None, temp[m]},
         pc'[m] \in Holding =>
           /\ pc[m] \in {"publish", "rename", "discard"} /\ temp'[m] = temp[m]
           /\ version'[m] = version[m] /\ at'[m] = at[m]
  PROVE  HoldInv'
<1>1. objects' = objects /\ output' = output /\ data' = data BY DEF disk
<1>2. HoldOf(m)'
  <2>1. pc'[m] \in Holding => temp[m] # None BY DEF CallInv, CallOf, Holding
  <2>2. QED BY <1>1, <2>1, HoldKept DEF Holding
<1>3. /\ NewFile \in FileIds
      /\ \A o \in Managers : temp[o] # NewFile
      /\ \A d \in detached : d.file # NewFile
  BY NewFileIsFresh
<1> HIDE DEF NewFile
<1>4. QED BY <1>1, <1>2, <1>3, HoldWritten

LEMMA HoldSteps ==
  ASSUME CallInv, HoldInv, NEW m \in Managers,
         \/ LoadManifest(m) \/ Fetch(m) \/ StoreManifest(m) \/ FetchFails(m)
         \/ NextFile(m) \/ EnsureEnds(m) \/ Probe(m) \/ Lock(m) \/ (Recheck(m) /\ Hit(m))
         \/ PublishObject(m) \/ Placed(m) \/ AskFails(m) \/ Install(m)
         \/ InstallFails(m) \/ InstallEnds(m) \/ Inspect(m) \/ Verify(m)
         \/ \E p \in Policies : Ensure(m, p)
  PROVE  HoldInv'
<1>1. CASE \/ LoadManifest(m) \/ Fetch(m) \/ StoreManifest(m) \/ FetchFails(m)
           \/ \E p \in Policies : Ensure(m, p)
  <2>1. UNCHANGED disk /\ detached' = detached /\ temp' = temp
    BY <1>1 DEF LoadManifest, Fetch, StoreManifest, FetchFails, Ensure, call
  <2>2. /\ pc'[m] \notin Holding
        /\ \A o \in Managers : o # m => pc'[o] = pc[o] /\ version'[o] = version[o] /\ at'[o] = at[o]
    BY <1>1 DEF LoadManifest, Fetch, StoreManifest, FetchFails, Ensure, ReadCached, Error, Forget,
                Goto, call, Holding, CallInv, TypeOK
  <2>3. QED BY <2>1, <2>2, HoldQuiet
<1>2. CASE NextFile(m) \/ EnsureEnds(m) \/ Lock(m) \/ Install(m)
  <2>1. UNCHANGED disk /\ detached' = detached /\ temp' = temp
    BY <1>2 DEF NextFile, EnsureEnds, Lock, Install, call
  <2>2. /\ pc'[m] \notin Holding
        /\ \A o \in Managers : o # m => pc'[o] = pc[o] /\ version'[o] = version[o] /\ at'[o] = at[o]
    BY <1>2 DEF NextFile, EnsureEnds, Lock, Install, Goto, call, Holding, CallInv, TypeOK
  <2>3. QED BY <2>1, <2>2, HoldQuiet
<1>3. CASE Probe(m) \/ (Recheck(m) /\ Hit(m)) \/ Placed(m)
  <2>1. UNCHANGED disk /\ detached' = detached BY <1>3 DEF Probe, Recheck, Placed, disk
  <2>2. /\ pc'[m] \notin Holding /\ temp'[m] \in {None, temp[m]}
        /\ \A o \in Managers : o # m =>
             pc'[o] = pc[o] /\ temp'[o] = temp[o] /\ version'[o] = version[o] /\ at'[o] = at[o]
    BY <1>3 DEF Probe, Recheck, Placed, Found, Goto, Holding, CallInv, TypeOK
  <2>3. QED BY <2>1, <2>2, HoldQuiet
<1>4. CASE PublishObject(m)
  <2>1. UNCHANGED disk /\ detached' = detached /\ UNCHANGED <<temp, version, at>> /\ pc[m] = "publish"
    BY <1>4 DEF PublishObject, call
  <2>2. \A o \in Managers : o # m => pc'[o] = pc[o] BY <1>4 DEF PublishObject, Goto, CallInv, TypeOK
  <2>3. QED BY <2>1, <2>2, HoldQuiet
<1>5. CASE AskFails(m) \/ InstallFails(m) \/ InstallEnds(m)
  <2>1. UNCHANGED disk /\ detached' = detached BY <1>5 DEF AskFails, InstallFails, InstallEnds
  <2>2. /\ pc'[m] \notin Holding /\ temp'[m] \in {None, temp[m]}
        /\ \A o \in Managers : o # m =>
             pc'[o] = pc[o] /\ temp'[o] = temp[o] /\ version'[o] = version[o] /\ at'[o] = at[o]
    BY <1>5 DEF AskFails, InstallFails, InstallEnds, Error, Forget, Goto, Holding, CallInv, TypeOK
  <2>3. QED BY <2>1, <2>2, HoldQuiet
<1>6. CASE Inspect(m) \/ Verify(m)
  <2>1. UNCHANGED disk /\ detached' = detached BY <1>6 DEF Inspect, Verify
  <2>2. /\ pc'[m] \notin Holding /\ temp'[m] \in {None, temp[m]}
        /\ \A o \in Managers : o # m =>
             pc'[o] = pc[o] /\ temp'[o] = temp[o] /\ version'[o] = version[o] /\ at'[o] = at[o]
    BY <1>6 DEF Inspect, Verify, Installed, Goto, Holding, CallInv, TypeOK
  <2>3. QED BY <2>1, <2>2, HoldQuiet
<1>7. QED BY <1>1, <1>2, <1>3, <1>4, <1>5, <1>6

\* The steps of a download write to its own file.
LEMMA HoldDownload ==
  ASSUME CallInv, HoldInv, NEW m \in Managers,
         \/ (Recheck(m) /\ ~Hit(m))
         \/ Download(m) \/ DownloadFails(m) \/ Discard(m)
  PROVE  HoldInv'
<1>1. CASE (Recheck(m) /\ ~Hit(m))
  <2> DEFINE f == NewFile
  <2>1. /\ f \in FileIds
        /\ \A c \in Contents : objects[c] # f
        /\ \A n \in Names : output[n] # f
        /\ \A o \in Managers : temp[o] # f
        /\ \A d \in detached : d.file # f
    BY NewFileIsFresh
  <2>2. /\ pc' = [pc EXCEPT ![m] = "download"]
        /\ temp' = [temp EXCEPT ![m] = f] /\ data' = [data EXCEPT ![f] = Broken]
        /\ UNCHANGED <<at, objects, output, version, detached>>
    BY <1>1 DEF Recheck, Goto
  <2> HIDE DEF f
  <2>3. /\ pc'[m] = "download" /\ temp'[m] = f
        /\ \A o \in Managers : o # m => pc'[o] = pc[o] /\ temp'[o] = temp[o]
        /\ \A g \in FileIds : g # f => data'[g] = data[g]
    BY <2>2 DEF CallInv, TypeOK
  <2>4. HoldOf(m)' BY <2>1, <2>2, <2>3 DEF HoldOf
  <2>5. QED BY <2>1, <2>2, <2>3, <2>4, HoldWritten
<1>2. CASE Download(m) \/ DownloadFails(m) \/ Discard(m)
  <2>1. pc[m] \in Holding /\ HoldOf(m)
    BY <1>2 DEF Download, DownloadFails, Discard, Holding, HoldInv
  <2>2. temp[m] \in FileIds /\ temp[m] # None BY <2>1 DEF CallInv, CallOf, TypeOK
  <2>3. /\ UNCHANGED <<objects, output, detached>> /\ temp'[m] \in {None, temp[m]}
        /\ \A g \in FileIds : g # temp[m] => data'[g] = data[g]
        /\ \A o \in Managers : o # m =>
             pc'[o] = pc[o] /\ temp'[o] = temp[o] /\ version'[o] = version[o] /\ at'[o] = at[o]
    BY <1>2, <2>2 DEF Download, DownloadFails, Discard, Discarded, Error, Forget, Goto, call,
                      CallInv, TypeOK
  <2>4. HoldOf(m)'
    <3>1. CASE Download(m)
      <4>1. UNCHANGED <<temp, version, at>> /\ data' = [data EXCEPT ![temp[m]] = Content(m)]
        BY <3>1 DEF Download, call
      <4>2. data'[temp[m]] = Content(m) BY <2>2, <4>1 DEF CallInv, TypeOK
      <4>3. QED BY <2>1, <2>3, <4>1, <4>2 DEF HoldOf, Content
    <3>2. CASE DownloadFails(m) \/ Discard(m)
      <4>1. pc'[m] \notin Holding
        BY <3>2 DEF DownloadFails, Discard, Error, Goto, Holding, CallInv, TypeOK
      <4>2. QED BY <4>1 DEF HoldOf
    <3>3. QED BY <1>2, <3>1, <3>2
  <2>5. QED BY <2>1, <2>2, <2>3, <2>4, HoldWritten DEF HoldOf
<1>3. QED BY <1>1, <1>2

\* An installation writes to no file of a download.
LEMMA HoldInstall ==
  ASSUME CallInv, HoldInv, NEW m \in Managers, Remove(m) \/ Link(m) \/ Copy(m) \/ CopyBytes(m)
  PROVE  HoldInv'
<1>1. /\ objects \in [Contents -> FileIds \cup {None}] /\ output \in [Names -> FileIds \cup {None}]
      /\ at[m] \in Names /\ Content(m) \in Contents
  <2>1. pc[m] \in {"remove", "link", "copy", "verify"} BY DEF Remove, Link, Copy, CopyBytes
  <2>2. QED BY <2>1, ContentIs DEF CallInv, TypeOK
<1>2. /\ UNCHANGED <<objects, detached, version>> /\ pc'[m] \notin Holding
      /\ \A o \in Managers : o # m => pc'[o] = pc[o] /\ temp'[o] = temp[o] /\ at'[o] = at[o]
  BY DEF Remove, Link, Copy, CopyBytes, Installed, Goto, call, Holding, CallInv, TypeOK
<1>3. HoldOf(m)' BY <1>2 DEF HoldOf
<1>4. /\ NewFile \in FileIds
      /\ \A o \in Managers : temp[o] # NewFile
      /\ \A d \in detached : d.file # NewFile
  BY NewFileIsFresh
<1> HIDE DEF NewFile
\* A file in the output directory, or that it is copied to, is held by no download.
<1>5. ASSUME NEW f \in FileIds, (\E n \in Names : output[n] = f) \/ temp[m] = f
      PROVE  /\ \A o \in Managers : o # m /\ pc[o] \in Holding => temp[o] # f
             /\ \A d \in detached : d.file # f
  <2>1. f # None BY CatalogAssumption
  <2>2. QED BY <1>5, <2>1 DEF HoldInv, HoldOf, LeftOf
<1>6. CASE Remove(m)
  <2>1. /\ temp' = temp
        /\ \A n \in Names : output'[n] \in {output[n], None}
    BY <1>1, <1>6 DEF Remove, call
  <2>2. CASE data' = data BY <1>2, <1>3, <1>4, <2>1, <2>2, HoldWritten
  <2>3. CASE data' # data
    <3>1. output[at[m]] # None /\ Discarded(output[at[m]], output') BY <1>6, <2>3 DEF Remove
    <3>2. \A g \in FileIds : g # output[at[m]] => data'[g] = data[g]
      BY <3>1 DEF Discarded, CallInv, TypeOK
    <3>3. PICK f \in FileIds : f = output[at[m]] BY <1>1, <3>1
    <3>4. QED BY <1>1, <1>2, <1>3, <1>5, <2>1, <3>2, <3>3, HoldWritten
  <2>4. QED BY <2>2, <2>3
<1>7. CASE Link(m)
  <2>1. data' = data /\ temp' = [temp EXCEPT ![m] = None]
        /\ output' = [output EXCEPT ![at[m]] = objects[Content(m)]]
    BY <1>7 DEF Link, Installed
  <2>2. temp'[m] = None BY <2>1 DEF CallInv, TypeOK
  <2>3. \A n \in Names : output'[n] = output[n] \/ \E c \in Contents : output'[n] = objects[c]
    BY <1>1, <2>1
  <2>4. QED BY <1>2, <1>3, <1>4, <2>1, <2>2, <2>3, HoldWritten
<1>8. CASE Copy(m)
  <2>1. PICK f : /\ f = IF output[at[m]] = None THEN NewFile ELSE output[at[m]]
                 /\ output' = [output EXCEPT ![at[m]] = f] /\ data' = [data EXCEPT ![f] = Broken]
                 /\ temp' = [temp EXCEPT ![m] = f]
    BY <1>8 DEF Copy
  <2>2. f \in FileIds BY <1>1, <1>4, <2>1
  <2>3. /\ \A o \in Managers : o # m /\ pc[o] \in Holding => temp[o] # f
        /\ \A d \in detached : d.file # f
    BY <1>1, <1>4, <1>5, <2>1, <2>2
  <2>4. /\ temp'[m] = f /\ \A g \in FileIds : g # f => data'[g] = data[g]
        /\ \A n \in Names : output'[n] \in {output[n], f}
    BY <1>1, <2>1 DEF CallInv, TypeOK
  <2>5. QED BY <1>2, <1>3, <2>2, <2>3, <2>4, HoldWritten
<1>9. CASE CopyBytes(m)
  <2>1. temp[m] # None /\ temp[m] \in FileIds
    BY <1>9 DEF CopyBytes, CallInv, CallOf, TypeOK, Copying
  <2>2. data' = [data EXCEPT ![temp[m]] = data[source[m]]] /\ UNCHANGED <<output, temp>>
    BY <1>9 DEF CopyBytes, call
  <2>3. \A g \in FileIds : g # temp[m] => data'[g] = data[g] BY <2>2 DEF CallInv, TypeOK
  <2>4. QED BY <1>2, <1>3, <1>5, <2>1, <2>2, <2>3, HoldWritten
<1>10. QED BY <1>6, <1>7, <1>8, <1>9

\* A rename gives the file its name, and leaves it to nobody.
LEMMA HoldRename ==
  ASSUME CallInv, HoldInv, NEW m \in Managers, Rename(m)
  PROVE  HoldInv'
<1>1. /\ pc[m] = "rename" /\ objects' = [objects EXCEPT ![Content(m)] = temp[m]]
      /\ UNCHANGED <<output, data, version, at, detached>>
  BY DEF Rename
<1>2. HoldOf(m) /\ temp[m] # None /\ Content(m) \in Contents
  BY <1>1, ContentIs DEF HoldInv, CallInv, CallOf, Holding, Asking
<1>3. /\ pc'[m] = "placed" /\ temp'[m] = None
      /\ \A o \in Managers : o # m => pc'[o] = pc[o] /\ temp'[o] = temp[o]
  BY DEF Rename, Goto, CallInv, TypeOK
<1>4. \A c \in Contents : objects'[c] \in {objects[c], temp[m]} BY <1>1 DEF CallInv, TypeOK
<1>5. ASSUME NEW o \in Managers PROVE HoldOf(o)'
  <2>1. CASE o = m BY <1>3, <2>1 DEF HoldOf, Holding
  <2>2. CASE o # m
    <3>1. pc[o] \in Holding => temp[o] # None /\ temp[o] # temp[m]
      BY <1>1, <1>2, <2>2 DEF HoldOf, Holding, CallInv, CallOf
    <3>2. QED BY <1>1, <1>3, <1>4, <2>2, <3>1, HoldKept
  <2>3. QED BY <2>1, <2>2
<1>6. ASSUME NEW d \in detached PROVE LeftOf(d)'
  <2>1. d.file # temp[m] BY <1>1, <1>2 DEF HoldOf, Holding
  <2>2. \A q \in Managers : temp'[q] = temp[q] \/ temp'[q] = None BY <1>3
  <2>3. QED BY <1>1, <1>4, <2>1, <2>2, LeftKept
<1>7. QED BY <1>1, <1>5, <1>6 DEF HoldInv

LEMMA HoldDetached ==
  ASSUME CallInv, HoldInv, NEW d \in detached, DetachedRename(d) \/ DetachedStore(d)
  PROVE  HoldInv'
<1>1. /\ UNCHANGED <<output, data, pc, temp, version, at>> /\ detached' = detached \ {d}
      /\ \A c \in Contents : objects'[c] = objects[c] \/ (objects'[c] = d.file /\ d.file # None)
  BY DEF DetachedRename, DetachedStore, disk, call, CallInv, TypeOK
<1>2. ASSUME NEW o \in Managers PROVE HoldOf(o)'
  <2>1. pc[o] \in Holding => d.file # temp[o] BY DEF HoldInv, HoldOf
  <2>2. QED BY <1>1, <2>1, HoldKept
<1>3. ASSUME NEW e \in detached' PROVE LeftOf(e)'
  <2>1. e \in detached /\ e # d BY <1>1, <1>3
  <2>2. d.file # None => e.file # d.file BY <2>1 DEF HoldInv, LeftOf
  <2>3. QED BY <1>1, <2>1, <2>2, LeftKept
<1>4. QED BY <1>2, <1>3 DEF HoldInv

\* A dropped call leaves its file, which is verified, to its rename.
LEMMA HoldDrop ==
  ASSUME CallInv, HoldInv, NEW m \in Managers, Drop(m)
  PROVE  HoldInv'
<1>1. /\ objects' = objects /\ output' = output /\ data' = data
      /\ pc'[m] = "idle" /\ temp'[m] = None
      /\ \A o \in Managers : o # m =>
           pc'[o] = pc[o] /\ temp'[o] = temp[o] /\ version'[o] = version[o] /\ at'[o] = at[o]
  BY DEF Drop, Error, Forget, Goto, disk, CallInv, TypeOK
<1>2. ASSUME NEW e \in detached', e \notin detached
      PROVE  \/ e.file = None
             \/ /\ pc[m] = "rename" /\ e.file = temp[m] /\ e.as = Content(m)
                /\ \A g \in detached' : g \in detached \/ g = e
  <2>1. CASE pc[m] = "rename"
    <3>1. detached' = detached \cup {[file |-> temp[m], as |-> Content(m)]} BY <2>1 DEF Drop
    <3>2. QED BY <1>2, <2>1, <3>1
  <2>2. CASE pc[m] = "store"
    <3>1. detached' = detached \cup {[file |-> None, as |-> version[m]]} BY <2>2 DEF Drop
    <3>2. QED BY <1>2, <3>1
  <2>3. CASE pc[m] \notin {"rename", "store"}
    <3>1. detached' = detached BY <2>3 DEF Drop
    <3>2. QED BY <1>2, <3>1
  <2>4. QED BY <2>1, <2>2, <2>3
<1>3. pc[m] = "rename" =>
        /\ temp[m] # None /\ data[temp[m]] = Content(m)
        /\ \A c \in Contents : objects[c] # temp[m]
        /\ \A n \in Names : output[n] # temp[m]
        /\ \A o \in Managers : o # m => temp[o] # temp[m]
        /\ \A d \in detached : d.file # temp[m]
  BY DEF HoldInv, HoldOf, Holding, CallInv, CallOf
<1>4. ASSUME NEW o \in Managers PROVE HoldOf(o)'
  <2>1. CASE o = m BY <1>1, <2>1 DEF HoldOf, Holding
  <2>2. CASE o # m
    <3>1. pc[o] \in Holding => temp[o] # None BY DEF CallInv, CallOf
    <3>2. pc[o] \in Holding => \A e \in detached' : e \in detached \/ e.file # temp[o]
      BY <1>2, <1>3, <2>2, <3>1
    <3>3. QED BY <1>1, <2>2, <3>1, <3>2, HoldKept
  <2>3. QED BY <2>1, <2>2
<1>5. ASSUME NEW d \in detached PROVE LeftOf(d)'
  <2>1. d.file # None => \A e \in detached' : e \in detached \/ e.file # d.file
    BY <1>2, <1>3
  <2>2. \A q \in Managers : temp'[q] = temp[q] \/ temp'[q] = None BY <1>1
  <2>3. QED BY <1>1, <2>1, <2>2, LeftKept
<1>6. ASSUME NEW e \in detached', e \notin detached PROVE LeftOf(e)'
  <2>1. CASE e.file = None BY <2>1 DEF LeftOf
  <2>2. CASE e.file # None
    <3>1. /\ pc[m] = "rename" /\ e.file = temp[m] /\ e.as = Content(m)
          /\ \A g \in detached' : g \in detached \/ g = e
      BY <1>2, <1>6, <2>2
    <3>2. \A q \in Managers : temp'[q] # e.file BY <1>1, <1>3, <2>2, <3>1
    <3>3. QED BY <1>1, <1>3, <3>1, <3>2 DEF LeftOf
  <2>3. QED BY <2>1, <2>2
<1>7. QED BY <1>4, <1>5, <1>6 DEF HoldInv

LEMMA HoldUnchanged ==
  ASSUME CallInv, HoldInv,
         UNCHANGED <<objects, output, data, pc, temp, version, at, detached>>
  PROVE  HoldInv'
<1>1. ASSUME NEW o \in Managers PROVE HoldOf(o)' BY HoldKept
<1>2. ASSUME NEW d \in detached PROVE LeftOf(d)' BY LeftKept
<1>3. QED BY <1>1, <1>2 DEF HoldInv

LEMMA HoldNext ==
  ASSUME CallInv, HoldInv, [Next]_vars
  PROVE  HoldInv'
<1>1. CASE UNCHANGED vars BY <1>1, HoldUnchanged DEF vars, disk, call
<1>2. CASE Publish BY <1>2, HoldUnchanged DEF Publish, disk, call
<1>3. ASSUME NEW m \in Managers, Step(m) PROVE HoldInv'
  BY <1>3, HoldSteps, HoldDownload, HoldInstall, HoldRename DEF Step
<1>4. ASSUME NEW m \in Managers, AskFails(m) \/ Install(m) \/ Drop(m) PROVE HoldInv'
  BY <1>4, HoldSteps, HoldDrop
<1>5. ASSUME NEW m \in Managers, NEW p \in Policies, Ensure(m, p) PROVE HoldInv'
  BY <1>5, HoldSteps
<1>6. ASSUME NEW d \in detached, DetachedRename(d) \/ DetachedStore(d) PROVE HoldInv'
  BY <1>6, HoldDetached
<1>7. QED BY <1>1, <1>2, <1>3, <1>4, <1>5, <1>6 DEF Next

\* A download's file has no name until it is verified, and nobody else's hands on it.
THEOREM DownloadsAreApart == Spec => []HoldInv
<1>1. Init => HoldInv BY DEF Init, HoldInv, HoldOf, Holding
<1>2. CallInv /\ HoldInv /\ [Next]_vars => HoldInv' BY HoldNext
<1>3. QED BY <1>1, <1>2, CallsAreSound, PTL DEF Spec

\* A whole artifact is left so by every step but a copy onto its file.
LEMMA DamageIsByCopy ==
  ASSUME CallInv, HoldInv, Next, NEW c \in Contents, Whole(c), ~Whole(c)'
  PROVE  \E m \in Managers :
           /\ pc[m] \in {"link", "copy"} /\ pc'[m] \in {"copy", "verify"}
           /\ temp'[m] = objects[c]
<1>1. objects \in [Contents -> FileIds \cup {None}] /\ objects[c] # None /\ objects[c] \in FileIds
  BY DEF CallInv, TypeOK, Whole
<1>2. ~UNCHANGED disk BY DEF disk, Whole
<1>3. ASSUME NEW f, objects' = objects, \A g \in FileIds : g # f => data'[g] = data[g]
      PROVE  objects[c] = f
  BY <1>1, <1>3 DEF Whole
<1>4. /\ NewFile \in FileIds /\ \A a \in Contents : objects[a] # NewFile BY NewFileIsFresh
<1> HIDE DEF NewFile
<1>5. ASSUME NEW m \in Managers, Copy(m) \/ CopyBytes(m)
      PROVE  /\ pc[m] \in {"link", "copy"} /\ pc'[m] \in {"copy", "verify"}
             /\ temp'[m] = objects[c]
  <2>1. pc[m] \in {"link", "copy"} /\ pc'[m] \in {"copy", "verify"} /\ objects' = objects
    BY <1>5 DEF Copy, CopyBytes, Goto, CallInv, TypeOK
  <2>2. \A g \in FileIds : g # temp'[m] => data'[g] = data[g]
    BY <1>5 DEF Copy, CopyBytes, call, CallInv, TypeOK
  <2>3. QED BY <1>3, <2>1, <2>2
<1>6. ASSUME NEW m \in Managers, Recheck(m) \/ Download(m) \/ DownloadFails(m) \/ Discard(m)
      PROVE  FALSE
  <2>1. objects' = objects BY <1>6 DEF Recheck, Download, DownloadFails, Discard
  <2>2. CASE Recheck(m)
    <3>1. \A g \in FileIds : g # NewFile => data'[g] = data[g]
      BY <2>2 DEF Recheck, CallInv, TypeOK
    <3>2. QED BY <1>3, <1>4, <2>1, <3>1
  <2>3. CASE Download(m) \/ DownloadFails(m) \/ Discard(m)
    <3>1. objects[c] # temp[m]
      BY <2>3 DEF Download, DownloadFails, Discard, HoldInv, HoldOf, Holding
    <3>2. \A g \in FileIds : g # temp[m] => data'[g] = data[g]
      BY <2>3 DEF Download, DownloadFails, Discard, Discarded, CallInv, TypeOK
    <3>3. QED BY <1>3, <2>1, <3>1, <3>2
  <2>4. QED BY <1>6, <2>2, <2>3
<1>7. ASSUME NEW m \in Managers, Remove(m) PROVE FALSE
  <2>1. objects[c] \in Values(objects) BY <1>1 DEF Values
  <2>2. objects' = objects /\ data'[objects[c]] = data[objects[c]]
    BY <1>1, <1>7, <2>1 DEF Remove, Discarded, CallInv, TypeOK
  <2>3. QED BY <2>2 DEF Whole
<1>8. ASSUME NEW a \in Contents, NEW f, f # None, data[f] = a,
             objects' = [objects EXCEPT ![a] = f], data' = data
      PROVE  FALSE
  BY <1>1, <1>8 DEF Whole
<1>9. ASSUME NEW m \in Managers, Rename(m) PROVE FALSE
  <2>1. pc[m] = "rename" BY <1>9 DEF Rename
  <2>2. Content(m) \in Contents /\ temp[m] # None /\ data[temp[m]] = Content(m)
    BY <2>1, ContentIs DEF Asking, Holding, CallInv, CallOf, HoldInv, HoldOf
  <2>3. QED BY <1>8, <1>9, <2>2 DEF Rename
<1>10. ASSUME NEW d \in detached, DetachedRename(d) \/ DetachedStore(d) PROVE FALSE
  <2>1. CASE DetachedStore(d) BY <1>2, <2>1 DEF DetachedStore
  <2>2. CASE DetachedRename(d)
    <3>1. d.as \in Contents /\ d.file # None /\ data[d.file] = d.as
      BY <2>2 DEF DetachedRename, CallInv, DetachedOK, HoldInv, LeftOf
    <3>2. QED BY <1>8, <2>2, <3>1 DEF DetachedRename
  <2>3. QED BY <1>10, <2>1, <2>2
<1>11. ASSUME NEW m \in Managers,
              LoadManifest(m) \/ Fetch(m) \/ StoreManifest(m) \/ FetchFails(m) \/ NextFile(m)
       PROVE  FALSE
  BY <1>2, <1>11 DEF LoadManifest, Fetch, StoreManifest, FetchFails, NextFile
<1>12. ASSUME NEW m \in Managers,
              EnsureEnds(m) \/ Probe(m) \/ Lock(m) \/ PublishObject(m) \/ Placed(m) \/ AskFails(m)
       PROVE  FALSE
  BY <1>2, <1>12 DEF EnsureEnds, Probe, Lock, PublishObject, Placed, AskFails
<1>13. ASSUME NEW m \in Managers,
              Install(m) \/ InstallFails(m) \/ InstallEnds(m) \/ Inspect(m) \/ Verify(m) \/ Drop(m)
       PROVE  FALSE
  BY <1>2, <1>13 DEF Install, InstallFails, InstallEnds, Inspect, Verify, Drop
<1>14. ASSUME NEW m \in Managers, Link(m) PROVE FALSE BY <1>14 DEF Link, Whole
<1>15. ASSUME NEW m \in Managers, NEW p \in Policies, Ensure(m, p) PROVE FALSE
  BY <1>2, <1>15 DEF Ensure
<1>16. ~Publish BY <1>2 DEF Publish
<1>17. \E m \in Managers : Copy(m) \/ CopyBytes(m)
  BY <1>6, <1>7, <1>9, <1>10, <1>11, <1>12, <1>13, <1>14, <1>15, <1>16 DEF Next, Step
<1>18. QED BY <1>5, <1>17

\* However many install at once, and whether or not names can be removed, only an
\* installation's copy onto the very file of a whole artifact damages it.
THEOREM DamageIsByCopies == Spec => OnlyCopiesDamage
<1> DEFINE Only ==
      \A c \in Contents : Whole(c) /\ ~Whole(c)' =>
        \E m \in Managers :
          /\ pc[m] \in {"link", "copy"} /\ pc'[m] \in {"copy", "verify"}
          /\ temp'[m] = objects[c]
<1>1. CallInv /\ HoldInv /\ [Next]_vars => [Only]_vars BY DamageIsByCopy
<1>2. QED BY <1>1, CallsAreSound, DownloadsAreApart, PTL DEF Spec, OnlyCopiesDamage

=============================================================================
