--------------------------- MODULE StepStoreProofs ---------------------------
(***************************************************************************)
(* What holds of the step store for any number of writers, places and      *)
(* puts: the types, that a real name only ever names a whole file of its   *)
(* own step, that a returned path holds a file, and, where hard links      *)
(* work, that the store implements the write-once promise its callers      *)
(* rely on.                                                                *)
(***************************************************************************)
EXTENDS StepStore, TLAPS

(* What a writer's place in put_file says of its hidden file.              *)
HiddenFile(w) ==
  /\ pc[w] \in {"write", "link", "exists", "rename"} =>
       /\ temp[w] # None
       /\ temp[w].copy.of = target[w]
  /\ pc[w] \in {"link", "exists", "rename"} => temp[w].whole
  /\ pc[w] \in {"idle", "find", "check"} => temp[w] = None
  /\ Links => pc[w] \notin {"exists", "rename"}

(* What it says of its place: asked for until answered, and held once a    *)
(* link, a lost link or a rename says so.                                  *)
AskedPlace(w) ==
  /\ pc[w] # "idle" => target[w] \in Places /\ puts[w] \in 1..MaxPuts
  /\ answer[w] = "ok" => target[w] \in Places
  /\ pc[w] = "clean_ok" => placed[target[w]] # None

(* The inductive invariant. *)
StoreInv ==
  /\ TypeOK
  /\ PlacedIsWhole
  /\ OkMeansHeld
  /\ \A w \in Writers : HiddenFile(w) /\ AskedPlace(w)

(* Every file a put creates is a file. *)
LEMMA NewFile ==
  ASSUME NEW f \in Places, NEW w \in Writers, NEW n \in 1..MaxPuts
  PROVE  [copy |-> [of |-> f, by |-> w, put |-> n], whole |-> FALSE] \in Files
BY DEF Files, Copies

(* Types are kept by every step, given where each put stands. *)
LEMMA TypeStep == StoreInv /\ [Next]_vars => TypeOK'
<1> SUFFICES ASSUME StoreInv, [Next]_vars PROVE TypeOK'
  OBVIOUS
<1> USE StoreAssumption DEF StoreInv, TypeOK, Steps, Goto, Return, Leave, TryRemove
<1>1. ASSUME NEW w \in Writers, NEW f \in Places, NEW e \in {"find", "check"},
             Begin(w, f, e)
      PROVE  TypeOK'
  BY <1>1 DEF Begin
<1>2. ASSUME NEW w \in Writers, Find(w) PROVE TypeOK'
  BY <1>2 DEF Find
<1>3. ASSUME NEW w \in Writers, Present(w) \/ DirectoryFails(w) PROVE TypeOK'
  BY <1>3 DEF Present, DirectoryFails
<1>4. ASSUME NEW w \in Writers, Create(w) PROVE TypeOK'
  <2>1. target[w] \in Places /\ puts[w] \in 1..MaxPuts
    BY <1>4 DEF Create, AskedPlace
  <2> QED BY <1>4, <2>1, NewFile DEF Create
<1>5. ASSUME NEW w \in Writers, Write(w) PROVE TypeOK'
  <2>1. temp[w] \in Files
    BY <1>5 DEF Write, HiddenFile
  <2>2. [temp[w] EXCEPT !.whole = TRUE] \in Files
    BY <2>1 DEF Files
  <2> QED BY <1>5, <2>2 DEF Write
<1>6. ASSUME NEW w \in Writers, WriteFails(w) PROVE TypeOK'
  BY <1>6 DEF WriteFails
<1>7. ASSUME NEW w \in Writers, Link(w) PROVE TypeOK'
  <2>1. temp[w] \in Files
    BY <1>7 DEF Link, HiddenFile
  <2> QED BY <1>7, <2>1 DEF Link
<1>8. ASSUME NEW w \in Writers, Exists(w) PROVE TypeOK'
  BY <1>8 DEF Exists
<1>9. ASSUME NEW w \in Writers, Rename(w) PROVE TypeOK'
  BY <1>9 DEF Rename
<1>10. ASSUME NEW w \in Writers, RenameFails(w) PROVE TypeOK'
  BY <1>10 DEF RenameFails
<1>11. ASSUME NEW w \in Writers, Clean(w) PROVE TypeOK'
  BY <1>11 DEF Clean
<1>12. ASSUME NEW w \in Writers, Crash(w) PROVE TypeOK'
  BY <1>12 DEF Crash
<1>13. CASE UNCHANGED vars
  BY <1>13 DEF vars
<1> QED
  BY <1>1, <1>2, <1>3, <1>4, <1>5, <1>6, <1>7, <1>8, <1>9, <1>10, <1>11, <1>12,
     <1>13 DEF Next, Put

(* The file a link or a rename places is whole and of its place's step. *)
LEMMA PlacedStep == StoreInv /\ [Next]_vars => PlacedIsWhole'
<1> SUFFICES ASSUME StoreInv, [Next]_vars PROVE PlacedIsWhole'
  OBVIOUS
<1> USE DEF StoreInv, TypeOK, PlacedIsWhole
<1>1. ASSUME NEW w \in Writers, Link(w) \/ Rename(w) PROVE PlacedIsWhole'
  BY <1>1 DEF Link, Rename, HiddenFile, AskedPlace
<1>2. CASE placed' = placed
  BY <1>2
<1> QED
  BY <1>1, <1>2 DEF Next, Put, Begin, Find, Present, DirectoryFails, Create, Write,
     WriteFails, Exists, RenameFails, Clean, Crash, vars

(* No step empties a place. *)
LEMMA HeldStep ==
  StoreInv /\ [Next]_vars => \A f \in Places : placed[f] # None => placed'[f] # None
<1> SUFFICES ASSUME StoreInv, [Next]_vars
             PROVE  \A f \in Places : placed[f] # None => placed'[f] # None
  OBVIOUS
<1> USE DEF StoreInv, TypeOK
<1>1. ASSUME NEW w \in Writers, Link(w) \/ Rename(w)
      PROVE  \A f \in Places : placed[f] # None => placed'[f] # None
  BY <1>1 DEF Link, Rename, HiddenFile, AskedPlace
<1>2. CASE placed' = placed
  BY <1>2
<1> QED
  BY <1>1, <1>2 DEF Next, Put, Begin, Find, Present, DirectoryFails, Create, Write,
     WriteFails, Exists, RenameFails, Clean, Crash, vars

(* Where a put stands keeps saying what its hidden file and its place are:  *)
(* a step changes its own writer's part only, and no place is emptied.      *)
LEMMA StandingStep ==
  StoreInv /\ [Next]_vars =>
    OkMeansHeld' /\ \A w \in Writers : (HiddenFile(w) /\ AskedPlace(w))'
<1> SUFFICES ASSUME StoreInv, [Next]_vars, NEW x \in Writers
             PROVE  /\ (answer[x] = "ok" => placed[target[x]] # None)'
                    /\ HiddenFile(x)'
                    /\ AskedPlace(x)'
  BY DEF OkMeansHeld
<1> DEFINE Standing == /\ (answer[x] = "ok" => placed[target[x]] # None)'
                       /\ HiddenFile(x)'
                       /\ AskedPlace(x)'
<1>h. \A f \in Places : placed[f] # None => placed'[f] # None
  BY HeldStep
<1>o. /\ answer[x] = "ok" => placed[target[x]] # None
      /\ HiddenFile(x) /\ AskedPlace(x)
      /\ pc[x] \in Steps
  BY DEF StoreInv, OkMeansHeld, TypeOK
<1>m. None \notin Files
  BY StoreAssumption
<1> USE <1>h, <1>o, <1>m DEF StoreInv, TypeOK, Steps, HiddenFile, AskedPlace, Goto,
    Return, Occupied, Leave, TryRemove
<1>1. ASSUME NEW w \in Writers, NEW f \in Places, NEW e \in {"find", "check"},
             Begin(w, f, e)
      PROVE  Standing
  <2>1. puts[w] + 1 \in 1..MaxPuts
    BY <1>1, StoreAssumption DEF Begin
  <2>2. temp[w] = None
    BY <1>1 DEF Begin
  <2> QED BY <1>1, <2>1, <2>2 DEF Begin
<1>2. ASSUME NEW w \in Writers, Find(w) PROVE Standing
  BY <1>2 DEF Find
<1>3. ASSUME NEW w \in Writers, Present(w) \/ DirectoryFails(w) PROVE Standing
  BY <1>3 DEF Present, DirectoryFails
<1>4. ASSUME NEW w \in Writers, Create(w) PROVE Standing
  <2>1. target[w] \in Places /\ puts[w] \in 1..MaxPuts
    BY <1>4 DEF Create
  <2>2. [copy |-> [of |-> target[w], by |-> w, put |-> puts[w]], whole |-> FALSE] # None
    BY <2>1, NewFile
  <2> QED BY <1>4, <2>1, <2>2 DEF Create
<1>5. ASSUME NEW w \in Writers, Write(w) PROVE Standing
  <2>1. temp[w] \in Files
    BY <1>5 DEF Write
  <2>2. /\ [temp[w] EXCEPT !.whole = TRUE] \in Files
        /\ [temp[w] EXCEPT !.whole = TRUE].copy = temp[w].copy
        /\ [temp[w] EXCEPT !.whole = TRUE].whole
    BY <2>1 DEF Files
  <2>3. temp'[w] = [temp[w] EXCEPT !.whole = TRUE]
    BY <1>5 DEF Write
  <2>4. temp'[w] # None /\ temp'[w].copy = temp[w].copy /\ temp'[w].whole
    BY <2>2, <2>3
  <2>5. CASE x = w
    BY <1>5, <2>4, <2>5 DEF Write
  <2>6. CASE x # w
    BY <1>5, <2>6 DEF Write
  <2> QED BY <2>5, <2>6
<1>6. ASSUME NEW w \in Writers, WriteFails(w) PROVE Standing
  BY <1>6 DEF WriteFails
<1>7. ASSUME NEW w \in Writers, Link(w) PROVE Standing
  BY <1>7 DEF Link
<1>8. ASSUME NEW w \in Writers, Exists(w) PROVE Standing
  BY <1>8 DEF Exists
<1>9. ASSUME NEW w \in Writers, Rename(w) PROVE Standing
  BY <1>9 DEF Rename
<1>10. ASSUME NEW w \in Writers, RenameFails(w) PROVE Standing
  BY <1>10 DEF RenameFails
<1>11. ASSUME NEW w \in Writers, Clean(w) PROVE Standing
  BY <1>11 DEF Clean
<1>12. ASSUME NEW w \in Writers, Crash(w) PROVE Standing
  BY <1>12 DEF Crash
<1>13. CASE UNCHANGED vars
  BY <1>13 DEF vars
<1> QED
  BY <1>1, <1>2, <1>3, <1>4, <1>5, <1>6, <1>7, <1>8, <1>9, <1>10, <1>11, <1>12,
     <1>13 DEF Next, Put

(* The invariant holds of an empty store and is kept by every step. *)
LEMMA StoreInvInit == Init => StoreInv
BY StoreAssumption DEF Init, StoreInv, TypeOK, Steps, PlacedIsWhole, OkMeansHeld,
   HiddenFile, AskedPlace

LEMMA StoreInvStep == StoreInv /\ [Next]_vars => StoreInv'
BY TypeStep, PlacedStep, StandingStep DEF StoreInv

(* What each put holds, and what the store holds, fit together between any  *)
(* two calls of any writers (store.rs:79-117).                              *)
THEOREM StoreInvariant == Spec => []StoreInv
BY StoreInvInit, StoreInvStep, PTL DEF Spec

(* Every variable keeps its type. *)
THEOREM TypeCorrect == Spec => []TypeOK
<1>1. StoreInv => TypeOK
  BY DEF StoreInv
<1> QED BY <1>1, StoreInvariant, PTL

(* A real name never names a half-written file or another step's, through   *)
(* any crash and any race, with hard links or without (store.rs:59-116).    *)
THEOREM RealNamesAreWhole == Spec => []PlacedIsWhole
<1>1. StoreInv => PlacedIsWhole
  BY DEF StoreInv
<1> QED BY <1>1, StoreInvariant, PTL

(* A path a put returned holds a file for good: no later put or rename,     *)
(* failed or not, empties it (store.rs:86-116).                             *)
THEOREM ReturnedPathHolds == Spec => []OkMeansHeld
<1>1. StoreInv => OkMeansHeld
  BY DEF StoreInv
<1> QED BY <1>1, StoreInvariant, PTL

(* No rename over a copy and no other step ever empties a place. *)
THEOREM PlacesStayHeld == Spec => StaysHeld
<1>1. StoreInv /\ [Next]_vars =>
        [\A f \in Places : placed[f] # None => placed'[f] # None]_vars
  BY HeldStep
<1> QED BY <1>1, StoreInvariant, PTL DEF Spec, StaysHeld
-----------------------------------------------------------------------------
(* Where hard links work, a file under a real name is never replaced. *)
LEMMA OnceStep ==
  Links /\ StoreInv /\ [Next]_vars =>
    \A f \in Places : placed[f] # None => placed'[f] = placed[f]
<1> SUFFICES ASSUME Links, StoreInv, [Next]_vars
             PROVE  \A f \in Places : placed[f] # None => placed'[f] = placed[f]
  OBVIOUS
<1> USE DEF StoreInv, TypeOK
<1>1. ASSUME NEW w \in Writers, Link(w)
      PROVE  \A f \in Places : placed[f] # None => placed'[f] = placed[f]
  BY <1>1 DEF Link, Occupied
<1>2. ASSUME NEW w \in Writers, Rename(w) PROVE FALSE
  BY <1>2 DEF Rename, HiddenFile
<1>3. CASE placed' = placed
  BY <1>3
<1> QED
  BY <1>1, <1>2, <1>3 DEF Next, Put, Begin, Find, Present, DirectoryFails, Create, Write,
     WriteFails, Exists, RenameFails, Clean, Crash, vars

(* "A file is written once and never replaced" (store.rs:9-11): so it is,   *)
(* where hard links work.                                                   *)
THEOREM NeverReplaced == Links /\ Spec => WriteOnce
<1>1. Links /\ StoreInv /\ [Next]_vars =>
        [\A f \in Places : placed[f] # None => placed'[f] = placed[f]]_vars
  BY OnceStep
<1>2. CASE Links
  BY <1>1, <1>2, StoreInvariant, PTL DEF Spec, WriteOnce
<1>3. CASE ~Links
  BY <1>3
<1> QED BY <1>2, <1>3

(* Every step of put keeps the promise of WriteOnceStore or stutters. *)
LEMMA PromiseStep == Links /\ StoreInv /\ [Next]_vars => [Promise!Next]_Promise!vars
<1> SUFFICES ASSUME Links, StoreInv, [Next]_vars
             PROVE  [Promise!Next]_Promise!vars
  OBVIOUS
<1> DEFINE asked == [w \in Writers |-> IF pc[w] = "idle" THEN None ELSE target[w]]
<1>n. None \notin Places
  BY StoreAssumption
<1> USE <1>n DEF StoreInv, TypeOK, Goto, Return, Occupied
<1>0. ASSUME placed' = placed, pc' = pc \/ asked' = asked, target' = target,
             answer' = answer
      PROVE  UNCHANGED Promise!vars
  BY <1>0 DEF Promise!vars
<1>ok. ASSUME NEW w \in Writers, pc[w] # "idle", Return(w, "ok"),
              placed[target[w]] # None, placed' = placed, target' = target
       PROVE  Promise!AnswerOk(w)
  <2>1. asked[w] = target[w] /\ target[w] \in Places
    BY <1>ok DEF AskedPlace
  <2>2. asked' = [asked EXCEPT ![w] = None]
    BY <1>ok
  <2> QED BY <1>ok, <2>1, <2>2 DEF Promise!AnswerOk
<1>err. ASSUME NEW w \in Writers, pc[w] # "idle", Return(w, "error"),
               placed' = placed, target' = target
        PROVE  Promise!GiveUp(w)
  <2>1. asked[w] = target[w] /\ target[w] \in Places
    BY <1>err DEF AskedPlace
  <2>2. asked' = [asked EXCEPT ![w] = None]
    BY <1>err
  <2> QED BY <1>err, <2>1, <2>2 DEF Promise!GiveUp
<1>go. ASSUME NEW w \in Writers, NEW s \in Steps \ {"idle"}, pc[w] # "idle",
              Goto(w, s), target' = target
       PROVE  asked' = asked
  BY <1>go DEF Steps
<1>1. ASSUME NEW w \in Writers, NEW f \in Places, NEW e \in {"find", "check"},
             Begin(w, f, e)
      PROVE  Promise!Ask(w, f)
  <2>1. asked[w] = None
    BY <1>1 DEF Begin
  <2>2. asked' = [asked EXCEPT ![w] = f]
    BY <1>1 DEF Begin
  <2> QED BY <1>1, <2>1, <2>2 DEF Begin, Promise!Ask
<1>2. ASSUME NEW w \in Writers, Find(w)
      PROVE  Promise!AnswerOk(w) \/ Promise!GiveUp(w) \/ UNCHANGED Promise!vars
  <2>1. CASE ~Occupied(w)
    BY <1>2, <2>1, <1>0, <1>go DEF Find, Steps
  <2>2. CASE Occupied(w)
    BY <1>2, <2>2, <1>ok, <1>err DEF Find
  <2> QED BY <2>1, <2>2
<1>3. ASSUME NEW w \in Writers, Present(w) PROVE Promise!AnswerOk(w)
  BY <1>3, <1>ok DEF Present
<1>4. ASSUME NEW w \in Writers, Create(w) \/ Write(w) \/ Exists(w) \/ RenameFails(w)
      PROVE  UNCHANGED Promise!vars
  <2>1. PICK s \in Steps \ {"idle"} : Goto(w, s)
    BY <1>4 DEF Create, Write, Exists, RenameFails, Steps
  <2>2. /\ pc[w] # "idle" /\ target' = target
        /\ placed' = placed /\ answer' = answer
    BY <1>4 DEF Create, Write, Exists, RenameFails
  <2> QED BY <2>1, <2>2, <1>go, <1>0
<1>5. ASSUME NEW w \in Writers, DirectoryFails(w) \/ WriteFails(w) \/ Crash(w)
      PROVE  Promise!GiveUp(w)
  BY <1>5, <1>err DEF DirectoryFails, WriteFails, Crash
<1>6. ASSUME NEW w \in Writers, Link(w)
      PROVE  Promise!Next \/ UNCHANGED Promise!vars
  <2>1. asked' = asked
    BY <1>6, <1>go DEF Link, Steps
  <2>2. CASE Occupied(w)
    BY <1>6, <2>1, <2>2, <1>0 DEF Link
  <2>3. CASE ~Occupied(w)
    <3>1. /\ target[w] \in Places /\ temp[w] \in Files
          /\ StepOfFile(temp[w]) = target[w]
      BY <1>6 DEF Link, HiddenFile, AskedPlace, StepOfFile
    <3>2. Promise!Keep(target[w], temp[w])
      BY <1>6, <2>1, <2>3, <3>1 DEF Link, Promise!Keep
    <3> QED BY <3>1, <3>2 DEF Promise!Next
  <2> QED BY <2>2, <2>3
<1>7. ASSUME NEW w \in Writers, Rename(w) PROVE FALSE
  BY <1>7 DEF Rename, HiddenFile
<1>8. ASSUME NEW w \in Writers, Clean(w)
      PROVE  Promise!AnswerOk(w) \/ Promise!GiveUp(w)
  BY <1>8, <1>ok, <1>err DEF Clean, AskedPlace
<1>9. CASE UNCHANGED vars
  BY <1>9, <1>0 DEF vars
<1> QED
  BY <1>1, <1>2, <1>3, <1>4, <1>5, <1>6, <1>7, <1>8, <1>9
  DEF Next, Put, Promise!Next

(* Where hard links work, put and put_file implement the write-once store:  *)
(* each place takes one copy of its own step for good, and a put is         *)
(* answered ok only once its place holds one (store.rs:9-13, 59-117).       *)
THEOREM ImplementsPromise == Links /\ Spec => KeepsPromise
<1>1. Init => Promise!Init
  BY DEF Init, Promise!Init
<1>2. CASE Links
  BY <1>1, <1>2, PromiseStep, StoreInvariant, PTL DEF Spec, KeepsPromise, Promise!Spec
<1>3. CASE ~Links
  BY <1>3
<1> QED BY <1>2, <1>3
=============================================================================
