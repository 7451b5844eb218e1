------------------------------ MODULE StepStore ------------------------------
(***************************************************************************)
(* The step store of `seiza-pipeline` at the file system's grain: every    *)
(* step of `Store::put` and `Store::put_file` that another process can see *)
(* or that a crash can fall between is an action.  A file is written whole *)
(* under a hidden name, then hard-linked to its real one; where hard links *)
(* are not supported it is renamed there after an existence check.         *)
(*                                                                         *)
(* seiza-pipeline/src/store.rs.                                            *)
(***************************************************************************)
EXTENDS Naturals

CONSTANTS
  Writers,  \* processes and threads that put files, on any machine
  Places,   \* a path in the store: a step key and a file name
  None,     \* no file
  Links,    \* TRUE: hard_link fails only for a name already taken; FALSE:
            \* it always fails and the put goes on to the rename
  MaxPuts   \* bound: the puts one writer begins

VARIABLES
  placed,   \* the file at each place, or None
  temp,     \* the hidden file of each writer's put, or None
  litter,   \* hidden files nobody will remove any more: their process died,
            \* or their removal failed
  pc,       \* where each writer is in put or put_file
  target,   \* the place of each writer's last put
  puts,     \* how many puts each writer has begun
  answer    \* how each writer's last put ended

vars == <<placed, temp, litter, pc, target, puts, answer>>
-----------------------------------------------------------------------------
(* A file is told from another by who wrote it and in which put: two copies *)
(* of one step need not be the same bytes.  `of` is the step its cards name *)
(* and `whole` whether its writer has finished it.                          *)
Copies == [of : Places, by : Writers, put : 1..MaxPuts]
Files  == [copy : Copies, whole : BOOLEAN]

ASSUME StoreAssumption ==
  /\ None \notin Places \cup Files
  /\ Links \in BOOLEAN
  /\ MaxPuts \in Nat

Steps == {"idle", "find", "check", "write", "link", "exists", "rename",
          "clean_ok", "clean_error"}

TypeOK ==
  /\ placed \in [Places -> Files \cup {None}]
  /\ temp   \in [Writers -> Files \cup {None}]
  /\ litter \subseteq Files
  /\ pc     \in [Writers -> Steps]
  /\ target \in [Writers -> Places \cup {None}]
  /\ puts   \in [Writers -> 0..MaxPuts]
  /\ answer \in [Writers -> {"none", "ok", "error"}]

Init ==
  /\ placed = [f \in Places |-> None]
  /\ temp   = [w \in Writers |-> None]
  /\ litter = {}
  /\ pc     = [w \in Writers |-> "idle"]
  /\ target = [w \in Writers |-> None]
  /\ puts   = [w \in Writers |-> 0]
  /\ answer = [w \in Writers |-> "none"]
-----------------------------------------------------------------------------
Goto(w, step) == pc' = [pc EXCEPT ![w] = step]

Return(w, how) ==
  /\ Goto(w, "idle")
  /\ answer' = [answer EXCEPT ![w] = how]

Occupied(w) == placed[target[w]] # None

\* put starts at its find, put_file at its existence check.
Begin(w, f, entry) ==
  /\ pc[w] = "idle"
  /\ puts[w] < MaxPuts
  /\ Goto(w, entry)
  /\ target' = [target EXCEPT ![w] = f]
  /\ puts' = [puts EXCEPT ![w] = @ + 1]
  /\ answer' = [answer EXCEPT ![w] = "none"]
  /\ UNCHANGED <<placed, temp, litter>>

\* find: nothing there; or put returns the path of what is there when its
\* header names this step, and an error when it names another or is not read.
Find(w) ==
  /\ pc[w] = "find"
  /\ \/ ~Occupied(w) /\ Goto(w, "check") /\ UNCHANGED answer
     \/ Occupied(w) /\ placed[target[w]].copy.of = target[w] /\ Return(w, "ok")
     \/ Occupied(w) /\ Return(w, "error")
  /\ UNCHANGED <<placed, temp, litter, target, puts>>

\* put_file keeps a copy already there.
Present(w) ==
  /\ pc[w] = "check"
  /\ Occupied(w)
  /\ Return(w, "ok")
  /\ UNCHANGED <<placed, temp, litter, target, puts>>

\* The step's directory cannot be made.
DirectoryFails(w) ==
  /\ pc[w] = "check"
  /\ ~Occupied(w)
  /\ Return(w, "error")
  /\ UNCHANGED <<placed, temp, litter, target, puts>>

\* Mutant of Create: the file is written after it has its real name.
CreateThenLink(w) ==
  /\ pc[w] = "check"
  /\ ~Occupied(w)
  /\ Goto(w, "link")
  /\ temp' = [temp EXCEPT ![w] =
       [copy |-> [of |-> target[w], by |-> w, put |-> puts[w]], whole |-> FALSE]]
  /\ UNCHANGED <<placed, litter, target, puts, answer>>

\* The hidden file is created, empty: its name holds the process and the time.
Create(w) ==
  /\ pc[w] = "check"
  /\ ~Occupied(w)
  /\ Goto(w, "write")
  /\ temp' = [temp EXCEPT ![w] =
       [copy |-> [of |-> target[w], by |-> w, put |-> puts[w]], whole |-> FALSE]]
  /\ UNCHANGED <<placed, litter, target, puts, answer>>

Write(w) ==
  /\ pc[w] = "write"
  /\ Goto(w, "link")
  /\ temp' = [temp EXCEPT ![w].whole = TRUE]
  /\ UNCHANGED <<placed, litter, target, puts, answer>>

\* Whoever held the hidden file leaves it behind.
Leave(w) ==
  /\ litter' = litter \cup ({temp[w]} \ {None})
  /\ temp' = [temp EXCEPT ![w] = None]

\* remove_file, its result ignored: the file goes, or it stays for good.
TryRemove(w) ==
  \/ temp' = [temp EXCEPT ![w] = None] /\ UNCHANGED litter
  \/ Leave(w)

\* Mutant of WriteFails: the error is dropped.
WriteFailureIgnored(w) ==
  /\ pc[w] = "write"
  /\ Return(w, "ok")
  /\ TryRemove(w)
  /\ UNCHANGED <<placed, target, puts>>

\* A failed write tries to remove what it wrote and returns the error.
WriteFails(w) ==
  /\ pc[w] = "write"
  /\ Return(w, "error")
  /\ TryRemove(w)
  /\ UNCHANGED <<placed, target, puts>>

\* Mutants of Link: AlreadyExists replaces the copy; it is tried again.
LinkReplaces(w) ==
  /\ pc[w] = "link"
  /\ IF Links
     THEN placed' = [placed EXCEPT ![target[w]] = temp[w]] /\ Goto(w, "clean_ok")
     ELSE Goto(w, "exists") /\ UNCHANGED placed
  /\ UNCHANGED <<temp, litter, target, puts, answer>>

LinkRetries(w) ==
  /\ pc[w] = "link"
  /\ ~Occupied(w)
  /\ IF Links
     THEN placed' = [placed EXCEPT ![target[w]] = temp[w]] /\ Goto(w, "clean_ok")
     ELSE Goto(w, "exists") /\ UNCHANGED placed
  /\ UNCHANGED <<temp, litter, target, puts, answer>>

\* hard_link: both names are the same file, or AlreadyExists, or an error of
\* another kind where links do not work.
Link(w) ==
  /\ pc[w] = "link"
  /\ \/ /\ Links
        /\ ~Occupied(w)
        /\ placed' = [placed EXCEPT ![target[w]] = temp[w]]
        /\ Goto(w, "clean_ok")
     \/ Links /\ Occupied(w) /\ Goto(w, "clean_ok") /\ UNCHANGED placed
     \/ ~Links /\ Goto(w, "exists") /\ UNCHANGED placed
  /\ UNCHANGED <<temp, litter, target, puts, answer>>

Exists(w) ==
  /\ pc[w] = "exists"
  /\ Goto(w, IF Occupied(w) THEN "clean_ok" ELSE "rename")
  /\ UNCHANGED <<placed, temp, litter, target, puts, answer>>

\* rename replaces whatever has appeared since the check.
Rename(w) ==
  /\ pc[w] = "rename"
  /\ placed' = [placed EXCEPT ![target[w]] = temp[w]]
  /\ temp' = [temp EXCEPT ![w] = None]
  /\ Goto(w, "clean_ok")
  /\ UNCHANGED <<litter, target, puts, answer>>

\* Mutant of RenameFails: what is there is removed before the rename.
RemoveThenRenameFails(w) ==
  /\ pc[w] = "rename"
  /\ placed' = [placed EXCEPT ![target[w]] = None]
  /\ Goto(w, "clean_error")
  /\ UNCHANGED <<temp, litter, target, puts, answer>>

RenameFails(w) ==
  /\ pc[w] = "rename"
  /\ Goto(w, "clean_error")
  /\ UNCHANGED <<placed, temp, litter, target, puts, answer>>

\* The hidden name is removed, if it can be, whatever came of the link, and
\* the outcome is returned.
Clean(w) ==
  /\ pc[w] \in {"clean_ok", "clean_error"}
  /\ TryRemove(w)
  /\ Return(w, IF pc[w] = "clean_ok" THEN "ok" ELSE "error")
  /\ UNCHANGED <<placed, target, puts>>

\* Mutant of Crash: a put that had no hidden file leaves something too.
CrashAlwaysLitters(w) ==
  /\ pc[w] # "idle"
  /\ Return(w, "error")
  /\ litter' = litter \cup {temp[w]}
  /\ temp' = [temp EXCEPT ![w] = None]
  /\ UNCHANGED <<placed, target, puts>>

\* The process dies: its hidden file stays, under a name nobody uses again.
Crash(w) ==
  /\ pc[w] # "idle"
  /\ Return(w, "error")
  /\ Leave(w)
  /\ UNCHANGED <<placed, target, puts>>
-----------------------------------------------------------------------------
Put(w) ==
  \/ Find(w) \/ Present(w) \/ DirectoryFails(w) \/ Create(w) \/ Write(w)
  \/ WriteFails(w) \/ Link(w) \/ Exists(w) \/ Rename(w) \/ RenameFails(w) \/ Clean(w)

Next ==
  \E w \in Writers :
    \/ \E f \in Places, entry \in {"find", "check"} : Begin(w, f, entry)
    \/ Put(w)
    \/ Crash(w)

Spec == Init /\ [][Next]_vars

(* A put that has begun is straight-line code: it goes on unless it dies. *)
FairSpec == Spec /\ \A w \in Writers : WF_vars(Put(w))
-----------------------------------------------------------------------------
(* No file is seen under a real name before its writer finished it, whoever *)
(* dies in between, and none is ever under another step's key: find reads   *)
(* only the header, so it could not tell (store.rs:40-57).                  *)
PlacedIsWhole ==
  \A f \in Places : placed[f] # None => placed[f].whole /\ placed[f].copy.of = f

(* A put that returned a path returned one that holds a file, through every *)
(* branch: kept, linked, lost to another writer or renamed (store.rs:86-116).*)
OkMeansHeld ==
  \A w \in Writers : answer[w] = "ok" => placed[target[w]] # None

(* "A file is written once and never replaced: a key already present is     *)
(* kept ... and the first copy stays" (store.rs:9-11).                      *)
WriteOnce == [][\A f \in Places : placed[f] # None => placed'[f] = placed[f]]_vars

(* Whatever the file system, a place once filled is never empty again: a    *)
(* rename over a copy leaves no moment without one.                         *)
StaysHeld == [][\A f \in Places : placed[f] # None => placed'[f] # None]_vars

(* A put that begins ends: no writer waits on another (store.rs:79-117).    *)
PutEnds == \A w \in Writers : pc[w] # "idle" ~> pc[w] = "idle"
-----------------------------------------------------------------------------
(* The store the callers see: a place holds the copy under its real name,   *)
(* and a writer asks until it is answered.                                  *)
StepOfFile(file) == file.copy.of

Promise == INSTANCE WriteOnceStore WITH
  Copies <- Files,
  StepOf <- StepOfFile,
  held   <- placed,
  asked  <- [w \in Writers |-> IF pc[w] = "idle" THEN None ELSE target[w]]

KeepsPromise == Promise!Spec
=============================================================================
