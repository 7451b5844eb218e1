---------------------------- MODULE CatalogManager ----------------------------
(***************************************************************************)
(* `seiza-download`'s catalog cache, shared by processes without a server: *)
(* one cached manifest, artifacts under their content's hash, and output   *)
(* directories the artifacts are hard-linked into.                         *)
(*                                                                         *)
(* `ensure` takes a manifest by its policy, then each artifact of it: a    *)
(* file of the right size under the hash is taken for whole unread; else   *)
(* the artifact's lock is taken, the size looked at again, a temporary     *)
(* file downloaded and verified, and renamed.  `materialize` then makes    *)
(* each output file a link to its object, or a verified copy.              *)
(*                                                                         *)
(* A dropped `ensure` gives its lock up at once, while the rename it was   *)
(* waiting for may still be done, on a blocking thread.                    *)
(*                                                                         *)
(* seiza-download/src/{catalog,bundle}.rs.                                 *)
(***************************************************************************)
EXTENDS Naturals, Sequences, FiniteSets

CONSTANTS
  Managers,      \* processes with a catalog manager
  Files,         \* the names of a manifest, in its order
  Contents,      \* what an artifact may be: its hash, too
  Bundle,        \* the contents the files have in each version of the manifest
  SizeOf,        \* the size of each content
  Damaged,       \* artifacts that may be in the cache damaged at first
  FileIds,       \* files on disk, whatever their names
  Installers,    \* how many may install into the output directory at once
  RemovesFail,   \* where a name of the output directory may not let itself be
                 \* removed: on the cache's file system (TRUE), on another (FALSE)
  MaxEnsures,    \* bound: calls of ensure in all
  MaxDrops,      \* bound: calls dropped, or processes killed, in all
  Broken,        \* what a file holds that was cut short
  None

Versions == DOMAIN Bundle
Names == 1..Len(Files)

ASSUME CatalogAssumption ==
  /\ 1 \in Versions /\ Versions \subseteq Nat
  /\ Len(Files) \in Nat
  /\ Bundle \in [Versions -> [Names -> Contents]]
  /\ Damaged \subseteq Contents
  /\ SizeOf \in [Contents -> Nat \ {0}]
  /\ Broken \notin Contents
  /\ None \notin Contents \cup Managers \cup FileIds
  /\ RemovesFail \subseteq BOOLEAN
  /\ Installers \in Nat /\ MaxEnsures \in Nat /\ MaxDrops \in Nat

\* There are more files than can have a name or be held at once.
ASSUME FilesAssumption ==
  /\ IsFiniteSet(Managers) /\ IsFiniteSet(Contents) /\ IsFiniteSet(FileIds)
  /\ Cardinality(FileIds) >
       Cardinality(Contents) + Len(Files) + 2 * Cardinality(Managers) + MaxDrops

VARIABLES
  server,    \* the version the server offers
  cached,    \* the version of the cached manifest, or None
  linkable,  \* the output directory is on the cache's file system
  objects,   \* the file under each content's hash, or None
  output,    \* the file under each name of the output directory, or None
  data,      \* what each file holds
  lock,      \* who holds each artifact's lock, or None
  pc,        \* where each manager is
  policy,    \* of its ensure
  version,   \* the version of its manifest, or None
  at,        \* the name of the manifest it is at
  temp,      \* its temporary file, or the copy's target, or None
  source,    \* the file its copy reads, or None
  answer,    \* how the last artifact it asked for was answered
  outcome,   \* how its last call ended
  detached,  \* renames of dropped calls that may still be done
  ensures, drops

disk == <<objects, output, data>>
manifest == <<server, cached>>
call == <<policy, version, at, temp, source>>
counts == <<ensures, drops>>
vars == <<manifest, linkable, disk, lock, pc, call, answer, outcome, detached, counts>>

Content(m) == Bundle[version[m]][at[m]]

\* The policies of CachePolicy, in its order.
Policies == {"offline", "cached", "refresh", "force"}

Asking == {"probe", "lock", "recheck", "download", "publish", "rename", "discard", "placed"}
Installing == {"inspect", "remove", "link", "copy", "verify"}

TypeOK ==
  /\ server \in Versions /\ cached \in Versions \cup {None}
  /\ linkable \in BOOLEAN
  /\ objects \in [Contents -> FileIds \cup {None}]
  /\ output \in [Names -> FileIds \cup {None}]
  /\ data \in [FileIds -> Contents \cup {Broken}]
  /\ lock \in [Contents -> Managers \cup {None}]
  /\ pc \in [Managers -> {"idle", "manifest", "fetch", "store", "next"} \cup Asking \cup Installing]
  /\ policy \in [Managers -> Policies]
  /\ version \in [Managers -> Versions \cup {None}]
  /\ \A m \in Managers :
       pc[m] \in {"store", "next"} \cup Asking \cup Installing => version[m] \in Versions
  /\ at \in [Managers -> 1..(Len(Files) + 1)]
  /\ temp \in [Managers -> FileIds \cup {None}] /\ source \in [Managers -> FileIds \cup {None}]
  /\ answer \in [Managers -> {"none", "ok", "error"}]
  /\ outcome \in [Managers -> {"none", "bundle", "installed", "error"}]
  /\ detached \subseteq [file : FileIds \cup {None}, as : Contents \cup Versions]
  /\ ensures \in 0..MaxEnsures /\ drops \in 0..MaxDrops

Values(f) == {f[x] : x \in DOMAIN f}

\* Files that have a name, or that somebody has open.
InUse == Values(objects) \cup Values(output) \cup Values(temp) \cup Values(source) \cup {d.file : d \in detached}

\* A file that has lost a name is gone if it has no other, in the cache or among
\* the names of the output directory.
Discarded(f, names) ==
  data' = [data EXCEPT ![f] = IF f \in Values(objects) \cup Values(names) THEN @ ELSE Broken]

NewFile == CHOOSE f \in FileIds : f \notin InUse

Init ==
  /\ server = 1
  /\ cached = None
  /\ linkable \in BOOLEAN
  \* The cache is empty, or a failing disk has left a file in it that is cut
  \* short, or of its size and not of its content.
  /\ \/ objects = [c \in Contents |-> None] /\ data = [f \in FileIds |-> Broken]
     \/ \E d \in Damaged, x \in Contents \cup {Broken} :
          /\ x # Broken => SizeOf[x] = SizeOf[d]
          /\ objects = [c \in Contents |-> IF c = d THEN CHOOSE f \in FileIds : TRUE ELSE None]
          /\ data = [f \in FileIds |-> IF f = objects[d] THEN x ELSE Broken]
  /\ output = [n \in Names |-> None]
  /\ lock = [c \in Contents |-> None]
  /\ pc = [m \in Managers |-> "idle"]
  /\ policy = [m \in Managers |-> "refresh"]
  /\ version = [m \in Managers |-> None]
  /\ at = [m \in Managers |-> 1]
  /\ temp = [m \in Managers |-> None] /\ source = [m \in Managers |-> None]
  /\ answer = [m \in Managers |-> "none"]
  /\ outcome = [m \in Managers |-> "none"]
  /\ detached = {}
  /\ ensures = 0 /\ drops = 0

Goto(m, where) == pc' = [pc EXCEPT ![m] = where]

-----------------------------------------------------------------------------
(* The server. *)

\* A later manifest is published; the artifacts of earlier ones stay.
Publish ==
  /\ server + 1 \in Versions
  /\ server' = server + 1
  /\ UNCHANGED <<cached, linkable, disk, lock, pc, call, answer, outcome, detached, counts>>

-----------------------------------------------------------------------------
(* The manifest. *)

Ensure(m, p) ==
  /\ pc[m] = "idle" /\ ensures < MaxEnsures
  /\ ensures' = ensures + 1
  /\ policy' = [policy EXCEPT ![m] = p]
  /\ version' = [version EXCEPT ![m] = None]
  /\ outcome' = [outcome EXCEPT ![m] = "none"]
  /\ Goto(m, "manifest")
  /\ UNCHANGED <<manifest, linkable, disk, lock, at, temp, source, answer, detached, drops>>

\* What a call knew ends with it.
Forget(m) ==
  /\ policy' = [policy EXCEPT ![m] = "refresh"]
  /\ version' = [version EXCEPT ![m] = None]
  /\ at' = [at EXCEPT ![m] = 1]

Error(m) ==
  /\ outcome' = [outcome EXCEPT ![m] = "error"]
  /\ Forget(m)
  /\ Goto(m, "idle")

ReadCached(m) ==
  /\ version' = [version EXCEPT ![m] = cached]
  /\ Goto(m, "next")
  /\ UNCHANGED <<policy, at, outcome>>

\* Mutant of LoadManifest: a cached manifest is not looked for before it is read.
LoadWhateverIsCached(m) ==
  /\ pc[m] = "manifest"
  /\ \/ policy[m] # "force" /\ ReadCached(m)
     \/ /\ policy[m] # "offline"
        /\ Goto(m, "fetch") /\ UNCHANGED <<policy, version, at, outcome>>
  /\ UNCHANGED <<manifest, linkable, disk, lock, temp, source, answer, detached, counts>>

\* Whether a cached manifest is older than a refresh allows is the clock's to say,
\* and one that is there may not be readable.
LoadManifest(m) ==
  /\ pc[m] = "manifest"
  /\ \/ policy[m] # "force" /\ cached # None /\ ReadCached(m)
     \/ policy[m] \in {"offline", "refresh"} /\ Error(m)
     \/ /\ policy[m] # "offline"
        /\ Goto(m, "fetch") /\ UNCHANGED <<policy, version, at, outcome>>
  /\ UNCHANGED <<manifest, linkable, disk, lock, temp, source, answer, detached, counts>>

Fetch(m) ==
  /\ pc[m] = "fetch"
  /\ version' = [version EXCEPT ![m] = server]
  /\ Goto(m, "store")
  /\ UNCHANGED <<manifest, linkable, disk, lock, policy, at, temp, source, answer, outcome, detached, counts>>

\* Written aside and renamed over whatever is cached by now.
StoreManifest(m) ==
  /\ pc[m] = "store"
  /\ cached' = version[m]
  /\ Goto(m, "next")
  /\ UNCHANGED <<server, linkable, disk, lock, call, answer, outcome, detached, counts>>

\* A refresh that fails, at the server or on disk, leaves what is cached.
FetchFails(m) ==
  /\ pc[m] \in {"fetch", "store"}
  /\ \/ policy[m] = "refresh" /\ cached # None /\ ReadCached(m)
     \/ Error(m)
  /\ UNCHANGED <<manifest, linkable, disk, lock, temp, source, answer, detached, counts>>

-----------------------------------------------------------------------------
(* The artifacts. *)

NextFile(m) ==
  /\ pc[m] = "next" /\ at[m] \in Names
  /\ answer' = [answer EXCEPT ![m] = "none"]
  /\ Goto(m, "probe")
  /\ UNCHANGED <<manifest, linkable, disk, lock, call, outcome, detached, counts>>

EnsureEnds(m) ==
  /\ pc[m] = "next" /\ at[m] \notin Names
  /\ outcome' = [outcome EXCEPT ![m] = "bundle"]
  /\ policy' = [policy EXCEPT ![m] = "refresh"] /\ at' = [at EXCEPT ![m] = 1]
  /\ Goto(m, "idle")
  /\ UNCHANGED <<manifest, linkable, disk, lock, version, temp, source, answer, detached, counts>>

SizeMatches(f, c) == f # None /\ data[f] # Broken /\ SizeOf[data[f]] = SizeOf[c]

Present(c) == SizeMatches(objects[c], c)

Hit(m) == Present(Content(m))

\* The artifact is there: its path is returned, and a lock held released.
Found(m) ==
  /\ answer' = [answer EXCEPT ![m] = "ok"]
  /\ at' = [at EXCEPT ![m] = @ + 1]
  /\ lock' = [c \in Contents |-> IF lock[c] = m THEN None ELSE lock[c]]
  /\ temp' = [temp EXCEPT ![m] = None]
  /\ Goto(m, "next")

Probe(m) ==
  /\ pc[m] = "probe"
  /\ IF Hit(m) THEN Found(m) ELSE Goto(m, "lock") /\ UNCHANGED <<answer, at, lock, temp>>
  /\ UNCHANGED <<manifest, linkable, disk, policy, version, source, outcome, detached, counts>>

Lock(m) ==
  /\ pc[m] = "lock" /\ lock[Content(m)] = None
  /\ lock' = [lock EXCEPT ![Content(m)] = m]
  /\ Goto(m, "recheck")
  /\ UNCHANGED <<manifest, linkable, disk, call, answer, outcome, detached, counts>>

\* Mutant of Recheck: the size is not looked at again under the lock.
DownloadUnderLock(m) ==
  /\ pc[m] = "recheck"
  /\ temp' = [temp EXCEPT ![m] = NewFile]
  /\ data' = [data EXCEPT ![NewFile] = Broken]
  /\ Goto(m, "download")
  /\ UNCHANGED <<manifest, linkable, objects, output, lock, policy, version, at, source, answer,
                 outcome, detached, counts>>

\* Another may have downloaded it while this one waited.
Recheck(m) ==
  /\ pc[m] = "recheck"
  /\ IF Hit(m)
       THEN Found(m) /\ UNCHANGED data
       ELSE /\ temp' = [temp EXCEPT ![m] = NewFile]
            /\ data' = [data EXCEPT ![NewFile] = Broken]
            /\ Goto(m, "download")
            /\ UNCHANGED <<answer, at, lock>>
  /\ UNCHANGED <<manifest, linkable, objects, output, policy, version, source, outcome, detached, counts>>

\* The file's size cannot be read, or its lock or a directory not be had.
AskFails(m) ==
  /\ pc[m] \in {"probe", "lock", "recheck"}
  /\ answer' = [answer EXCEPT ![m] = "error"]
  /\ lock' = [c \in Contents |-> IF lock[c] = m THEN None ELSE lock[c]]
  /\ Error(m)
  /\ UNCHANGED <<manifest, linkable, disk, temp, source, detached, counts>>

\* The body is written and its size and hash are the manifest's.
Download(m) ==
  /\ pc[m] = "download"
  /\ data' = [data EXCEPT ![temp[m]] = Content(m)]
  /\ Goto(m, "publish")
  /\ UNCHANGED <<manifest, linkable, objects, output, lock, call, answer, outcome, detached, counts>>

\* Mutant of DownloadFails: the lock is not released.
DownloadFailsLocked(m) ==
  /\ pc[m] \in {"download", "publish", "rename", "discard"}
  /\ answer' = [answer EXCEPT ![m] = "error"]
  /\ temp' = [temp EXCEPT ![m] = None]
  /\ Discarded(temp[m], output)
  /\ Error(m)
  /\ UNCHANGED <<manifest, linkable, objects, output, lock, source, detached, counts>>

\* Anything fails, at the server or on disk: the temporary file is removed, or
\* left for nobody, the lock released, and the whole ensure fails.
DownloadFails(m) ==
  /\ pc[m] \in {"download", "publish", "rename", "discard"}
  /\ answer' = [answer EXCEPT ![m] = "error"]
  /\ lock' = [lock EXCEPT ![Content(m)] = None]
  /\ temp' = [temp EXCEPT ![m] = None]
  /\ Discarded(temp[m], output)
  /\ Error(m)
  /\ UNCHANGED <<manifest, linkable, objects, output, source, detached, counts>>

PublishObject(m) ==
  /\ pc[m] = "publish"
  /\ Goto(m, IF Hit(m) THEN "discard" ELSE "rename")
  /\ UNCHANGED <<manifest, linkable, disk, lock, call, answer, outcome, detached, counts>>

Rename(m) ==
  /\ pc[m] = "rename"
  /\ objects' = [objects EXCEPT ![Content(m)] = temp[m]]
  /\ temp' = [temp EXCEPT ![m] = None]
  /\ Goto(m, "placed")
  /\ UNCHANGED <<manifest, linkable, output, data, lock, policy, version, at, source, answer, outcome, detached, counts>>

Discard(m) ==
  /\ pc[m] = "discard"
  /\ Discarded(temp[m], output)
  /\ temp' = [temp EXCEPT ![m] = None]
  /\ Goto(m, "placed")
  /\ UNCHANGED <<manifest, linkable, objects, output, lock, policy, version, at, source, answer, outcome, detached, counts>>

Placed(m) ==
  /\ pc[m] = "placed"
  /\ Found(m)
  /\ UNCHANGED <<manifest, linkable, disk, policy, version, source, outcome, detached, counts>>

-----------------------------------------------------------------------------
(* Installing into the output directory. *)

Install(m) ==
  /\ pc[m] = "idle" /\ outcome[m] = "bundle"
  /\ Cardinality({o \in Managers : pc[o] \in Installing}) < Installers
  /\ outcome' = [outcome EXCEPT ![m] = "none"]
  /\ Goto(m, "inspect")
  /\ UNCHANGED <<manifest, linkable, disk, lock, call, answer, detached, counts>>

InstallFails(m) ==
  /\ pc[m] \in Installing
  /\ temp' = [temp EXCEPT ![m] = None] /\ source' = [source EXCEPT ![m] = None]
  /\ Error(m)
  /\ UNCHANGED <<manifest, linkable, disk, lock, answer, detached, counts>>

InstallEnds(m) ==
  /\ pc[m] = "inspect" /\ at[m] \notin Names
  /\ outcome' = [outcome EXCEPT ![m] = "installed"]
  /\ Forget(m)
  /\ Goto(m, "idle")
  /\ UNCHANGED <<manifest, linkable, disk, lock, temp, source, answer, detached, counts>>

Installed(m) ==
  /\ at' = [at EXCEPT ![m] = @ + 1]
  /\ temp' = [temp EXCEPT ![m] = None] /\ source' = [source EXCEPT ![m] = None]
  /\ Goto(m, "inspect")

\* Mutant of Inspect: a file of the right size is trusted.
InspectSize(m) ==
  /\ pc[m] = "inspect" /\ at[m] \in Names
  /\ IF SizeMatches(output[at[m]], Content(m))
       THEN Installed(m)
       ELSE Goto(m, "remove") /\ UNCHANGED <<at, temp, source>>
  /\ UNCHANGED <<manifest, linkable, disk, lock, policy, version, answer, outcome, detached, counts>>

\* Only a link to the object is trusted, whatever the size.
Inspect(m) ==
  /\ pc[m] = "inspect" /\ at[m] \in Names
  /\ IF /\ SizeMatches(output[at[m]], Content(m))
        /\ output[at[m]] = objects[Content(m)]
       THEN Installed(m)
       ELSE Goto(m, "remove") /\ UNCHANGED <<at, temp, source>>
  /\ UNCHANGED <<manifest, linkable, disk, lock, policy, version, answer, outcome, detached, counts>>

\* Mutant of Remove: no name is removed, removable or not.
RemoveNothing(m) ==
  /\ pc[m] = "remove"
  /\ Goto(m, "link")
  /\ UNCHANGED <<manifest, linkable, disk, lock, call, answer, outcome, detached, counts>>

\* A name that cannot be removed stays, and the installation goes on.
Remove(m) ==
  /\ pc[m] = "remove"
  /\ \/ /\ output' = [output EXCEPT ![at[m]] = None]
        /\ IF output[at[m]] = None THEN UNCHANGED data ELSE Discarded(output[at[m]], output')
     \/ linkable \in RemovesFail /\ UNCHANGED <<output, data>>
  /\ Goto(m, "link")
  /\ UNCHANGED <<manifest, linkable, objects, lock, call, answer, outcome, detached, counts>>

\* A name that is taken, or another file system, fails the link.
Linked(m) == linkable /\ output[at[m]] = None

Link(m) ==
  /\ pc[m] = "link" /\ Linked(m)
  /\ output' = [output EXCEPT ![at[m]] = objects[Content(m)]]
  /\ Installed(m)
  /\ UNCHANGED <<manifest, linkable, objects, data, lock, policy, version, answer, outcome,
                 detached, counts>>

\* The copy opens its target, the file under the name if there is one, and
\* empties it.
Copy(m) ==
  /\ pc[m] = "link" /\ ~Linked(m)
  /\ LET target == IF output[at[m]] = None THEN NewFile ELSE output[at[m]] IN
       /\ output' = [output EXCEPT ![at[m]] = target]
       /\ data' = [data EXCEPT ![target] = Broken]
       /\ temp' = [temp EXCEPT ![m] = target]
       /\ source' = [source EXCEPT ![m] = objects[Content(m)]]
  /\ Goto(m, "copy")
  /\ UNCHANGED <<manifest, linkable, objects, lock, policy, version, at, answer, outcome,
                 detached, counts>>

CopyBytes(m) ==
  /\ pc[m] = "copy"
  /\ data' = [data EXCEPT ![temp[m]] = data[source[m]]]
  /\ Goto(m, "verify")
  /\ UNCHANGED <<manifest, linkable, objects, output, lock, call, answer, outcome, detached, counts>>

\* Only a copy is hashed; one that is not the artifact fails the installation.
Verify(m) ==
  /\ pc[m] = "verify"
  /\ output[at[m]] # None /\ data[output[at[m]]] = Content(m)
  /\ Installed(m)
  /\ UNCHANGED <<manifest, linkable, disk, lock, policy, version, answer, outcome, detached, counts>>

-----------------------------------------------------------------------------
\* The future of an ensure is dropped, or the process killed: locks go, the
\* temporary file stays behind, and a rename under way, of an artifact or of a
\* manifest, may still be done.
Drop(m) ==
  /\ pc[m] \notin {"idle"} \cup Installing /\ drops < MaxDrops
  /\ drops' = drops + 1
  /\ detached' = detached \cup
       CASE pc[m] = "rename" -> {[file |-> temp[m], as |-> Content(m)]}
         [] pc[m] = "store" -> {[file |-> None, as |-> version[m]]}
         [] OTHER -> {}
  /\ lock' = [c \in Contents |-> IF lock[c] = m THEN None ELSE lock[c]]
  /\ temp' = [temp EXCEPT ![m] = None]
  /\ answer' = [answer EXCEPT ![m] = IF pc[m] \in Asking THEN "error" ELSE @]
  /\ Error(m)
  /\ UNCHANGED <<manifest, linkable, disk, source, ensures>>

DetachedRename(d) ==
  /\ d \in detached /\ d.file # None
  /\ objects' = [objects EXCEPT ![d.as] = d.file]
  /\ detached' = detached \ {d}
  /\ UNCHANGED <<manifest, linkable, output, data, lock, pc, call, answer, outcome, counts>>

DetachedStore(d) ==
  /\ d \in detached /\ d.file = None
  /\ cached' = d.as
  /\ detached' = detached \ {d}
  /\ UNCHANGED <<server, linkable, disk, lock, pc, call, answer, outcome, counts>>

Step(m) ==
  \/ LoadManifest(m) \/ Fetch(m) \/ StoreManifest(m) \/ FetchFails(m)
  \/ NextFile(m) \/ EnsureEnds(m) \/ Probe(m) \/ Lock(m) \/ Recheck(m)
  \/ Download(m) \/ DownloadFails(m) \/ PublishObject(m) \/ Rename(m) \/ Discard(m) \/ Placed(m)
  \/ InstallFails(m) \/ InstallEnds(m) \/ Inspect(m) \/ Remove(m) \/ Link(m)
  \/ Copy(m) \/ CopyBytes(m) \/ Verify(m)

Next ==
  \/ Publish
  \/ \E m \in Managers :
       Step(m) \/ AskFails(m) \/ Install(m) \/ Drop(m) \/ \E p \in Policies : Ensure(m, p)
  \/ \E d \in detached : DetachedRename(d) \/ DetachedStore(d)

Spec == Init /\ [][Next]_vars

(* A call goes on whenever it can: a lock that is free is given, and a request is
   answered or fails.  Nothing makes a call begin. *)
FairSpec == Spec /\ \A m \in Managers : WF_vars(Step(m))

-----------------------------------------------------------------------------
Whole(c) == objects[c] # None /\ data[objects[c]] = c

(* A cache object that holds its content goes on holding it, whatever is
   downloaded, dropped or installed: sizes alone are looked at on a hit because
   "cache objects are immutable and were SHA-256 verified when downloaded"
   (catalog.rs:164-168, bundle.rs:424-425). *)
WholeStaysWhole == [][\A c \in Contents : Whole(c) => Whole(c)']_vars

(* However many install at once, and whether or not names can be removed, the one
   step that damages a whole cache object is an installation's copy onto that very
   file; no download, rename, failure or drop does (catalog.rs:210-213, 481-547). *)
OnlyCopiesDamage ==
  [][\A c \in Contents : Whole(c) /\ ~Whole(c)' =>
       \E m \in Managers :
         /\ pc[m] \in {"link", "copy"} /\ pc'[m] \in {"copy", "verify"}
         /\ temp'[m] = objects[c]]_vars

(* Nobody downloads an artifact that is there, or that another is downloading
   under the lock (catalog.rs:499-502; docs/design/catalog-bundles.md:165-168). *)
NoNeedlessDownload ==
  [][\A m \in Managers : pc[m] # "download" /\ pc'[m] = "download" =>
       /\ ~Whole(Content(m))
       /\ \A o \in Managers \ {m} :
            pc[o] \in {"download", "publish"} => Content(o) # Content(m)]_vars

(* An installation that succeeds leaves in the output directory the artifacts of
   its one version, whatever other version, copy or damaged file was there; an
   artifact damaged in the cache without losing its size is not read again, and
   installed as it is by a link (catalog.rs:164-168, 190-217, 717-723). *)
InstallsOneVersion ==
  [][\A m \in Managers : outcome[m] # "installed" /\ outcome'[m] = "installed" =>
       \A n \in Names : LET c == Bundle[version[m]][n] IN
         /\ output[n] # None
         /\ data[output[n]] = c \/ (c \in Damaged /\ output[n] = objects[c])]_vars

(* The cache is a write-once store: a path is returned only for an artifact that
   is there, one that is there stays, and only one that was verified is added
   (catalog.rs:481-547, 14-15).  A cut-short file counts as nothing; one that was
   there at first with the right size counts, whatever it holds. *)
Objects == INSTANCE WriteOnceStore WITH
  Writers <- Managers,
  Places <- Contents,
  Copies <- Contents,
  StepOf <- LAMBDA c : c,
  held <- [c \in Contents |-> IF Present(c) THEN data[objects[c]] ELSE None],
  asked <- [m \in Managers |-> IF pc[m] \in Asking THEN Content(m) ELSE None]

KeepsObjects == Objects!Spec

(* Every call ends: no failure, drop or lock leaves a manager waiting. *)
CallsEnd == \A m \in Managers : pc[m] # "idle" ~> pc[m] = "idle"
=============================================================================
