--------------------------- MODULE ChannelRunProofs ---------------------------
(***************************************************************************)
(* What holds of runs against one step store for any number of machines,   *)
(* lights, plans, runs and rewrites: the types; with hard links, that no   *)
(* stored file is replaced, that the context a partial stack records stays *)
(* with it and that no partial stack changes under a run combining it; and *)
(* until a light file is rewritten, with or without links, that what is    *)
(* stored is its step's output and the tile a run returns is its plan's.   *)
(***************************************************************************)
EXTENDS ChannelRun, SequenceTheorems, WellFoundedInduction, TLAPS

\* From the check of the partial stack to its place, a stack is whole.
Whole == {"finish", "keep", "place", "digest", "put", "place_partial"}

Steps == {"idle", "plan", "find", "identity", "resume", "reopen", "open", "push",
          "tile", "combine"} \cup Whole

Endings == {"none", "ok", "empty", "error", "changed", "died"}

DiskTyped ==
  /\ disk \in [Lights -> 0..MaxRewrites]
  /\ rewrites \in 0..MaxRewrites
  /\ \A l \in Lights : disk[l] <= rewrites

StoreTyped ==
  /\ \A k \in DOMAIN partial : /\ k \in Frames
                               /\ partial[k].frames \in Frames
                               /\ partial[k].context \in Contexts \cup {None}
  /\ \A k \in DOMAIN context : k \in Frames /\ context[k] \in Contexts
  /\ \A t \in DOMAIN tile : t \subseteq Frames /\ tile[t] \subseteq Parts

PlansTyped ==
  /\ pc \in [Machines -> Steps]
  /\ plan \in [Machines -> Plans \cup {None}]
  /\ index \in [Machines -> Nat \ {0}]
  /\ \A m \in Machines : plan[m] \in Plans => index[m] \in 1..Len(plan[m].sessions)

StackTyped ==
  /\ key \in [Machines -> Frames] /\ stack \in [Machines -> Frames]
  /\ base \in [Machines -> Nat] /\ next \in [Machines -> Nat \ {0}]
  /\ aside \in [Machines -> Contexts \cup {None}]
  /\ recorded \in [Machines -> Contexts \cup {None}]

TileTyped ==
  /\ made \in [Machines -> SUBSET Identities]
  /\ left \in [Machines -> SUBSET Identities]
  /\ sum \in [Machines -> SUBSET Parts]
  /\ outcome \in [Machines -> [how : Endings, tile : SUBSET Parts]]

(* What TypeOK says, with the variables it leaves out.                     *)
Typed == DiskTyped /\ StoreTyped /\ PlansTyped /\ StackTyped /\ TileTyped

(* What a machine's place in the code says of the store and of its plan.   *)
Standing(m) ==
  /\ pc[m] # "idle" => plan[m] \in Plans
  /\ pc[m] = "idle" => index[m] = 1 /\ made[m] = {}
  /\ pc[m] = "identity" => key[m] \in DOMAIN partial
  /\ pc[m] = "reopen" => /\ base[m] \in 1..(Len(key[m]) - 1)
                         /\ SubSeq(key[m], 1, base[m]) \in DOMAIN context
  /\ pc[m] \in {"keep", "place"} => aside[m] # None
  /\ pc[m] = "digest" => key[m] \in DOMAIN context
  /\ \A identity \in made[m] \cup left[m] : identity.key \in DOMAIN partial

RunInv == Typed /\ \A m \in Machines : Standing(m)

(* With hard links what a run has read of the store stays so.              *)
Kept(m) ==
  /\ pc[m] = "finish" => recorded[m] = None
  /\ pc[m] \in {"put", "place_partial"} /\ recorded[m] # None =>
       key[m] \in DOMAIN context /\ context[key[m]] = recorded[m]
  /\ \A identity \in left[m] : identity.context = partial[identity.key].context

KeptInv ==
  RecordedContextIsKept /\ NothingChangesUnderfoot /\ \A m \in Machines : Kept(m)

\* What the contents of a session that is never rewritten are.
KeyOf(s) == [i \in DOMAIN s |-> <<s[i], 0>>]
Accepts(s) == \E i \in DOMAIN s : s[i] \in Accepted

\* The keys of the first n sessions of a plan that accept a light.
KeysUpTo(p, n) == {KeyOf(p.sessions[j]) : j \in {i \in 1..n : Accepts(p.sessions[i])}}

SelfParts(keys) == {[key |-> k, frames |-> k] : k \in keys}

\* How many of its sessions a machine is through with.
Through(m) ==
  IF pc[m] \in {"tile", "combine"} THEN Len(plan[m].sessions) ELSE index[m] - 1

(* What a run holds is what its place in the plan calls for.               *)
Faithful(m) ==
  /\ pc[m] \notin {"idle", "plan", "tile", "combine"} => key[m] = KeyOf(Session(m))
  /\ pc[m] = "push" => /\ next[m] <= Len(key[m]) + 1
                       /\ stack[m] = SubSeq(key[m], 1, next[m] - 1)
  /\ pc[m] \in Whole => stack[m] = key[m] /\ Accepts(Session(m))
  /\ pc[m] \in Whole /\ aside[m] # None => aside[m].frames = key[m]
  /\ pc[m] # "idle" => TileKey(m) = KeysUpTo(plan[m], Through(m))
  /\ pc[m] = "combine" =>
       SelfParts(TileKey(m)) = sum[m] \cup SelfParts({identity.key : identity \in left[m]})
  /\ outcome[m].how = "ok" =>
       /\ plan[m] \in Plans
       /\ outcome[m].tile = SelfParts(KeysUpTo(plan[m], Len(plan[m].sessions)))

(* The part that holds until a light file is rewritten.                    *)
FaithfulInv ==
  /\ StoredIsStepOutput
  /\ \A k \in DOMAIN partial : \E i \in DOMAIN k : k[i][1] \in Accepted
  /\ \A m \in Machines : Faithful(m)

(* The inductive invariant. *)
ChannelInv ==
  RunInv /\ (Links => KeptInv) /\ (rewrites = 0 => FaithfulInv)
-----------------------------------------------------------------------------
(* A plan has sessions, and each of them lights. *)
LEMMA PlanFacts ==
  ASSUME NEW p \in Plans
  PROVE  /\ p.sessions \in Seq(Seq(Lights)) /\ Len(p.sessions) \in Nat \ {0}
         /\ \A j \in 1..Len(p.sessions) :
              p.sessions[j] \in Seq(Lights) /\ Len(p.sessions[j]) \in Nat \ {0}
<1>1. p.sessions \in Seq(Seq(Lights)) /\ p.sessions # <<>>
  BY ChannelAssumption
<1>2. Len(p.sessions) \in Nat \ {0}
  BY <1>1
<1>3. ASSUME NEW j \in 1..Len(p.sessions)
      PROVE  p.sessions[j] \in Seq(Lights) /\ Len(p.sessions[j]) \in Nat \ {0}
  <2>1. p.sessions[j] \in Seq(Lights) /\ p.sessions[j] # <<>>
    BY <1>1, ElementOfSeq, ChannelAssumption
  <2> QED BY <2>1, EmptySeq
<1> QED BY <1>1, <1>2, <1>3

(* So has a machine that runs one. *)
LEMMA SessionFacts ==
  ASSUME RunInv, NEW m \in Machines, pc[m] # "idle"
  PROVE  /\ plan[m] \in Plans /\ Len(plan[m].sessions) \in Nat \ {0}
         /\ index[m] \in 1..Len(plan[m].sessions)
         /\ Session(m) \in Seq(Lights) /\ Len(Session(m)) \in Nat \ {0}
<1>1. plan[m] \in Plans /\ index[m] \in Nat \ {0}
  BY DEF RunInv, Standing, Typed, PlansTyped
<1>2. index[m] \in 1..Len(plan[m].sessions)
  BY <1>1 DEF RunInv, Typed, PlansTyped
<1> QED BY <1>1, <1>2, PlanFacts DEF Session

(* Placing a file in a map of the store adds its key, ...                  *)
LEMMA PlacedKeys ==
  ASSUME NEW files, NEW k, NEW file, NEW placed, placed = Place(files, k, file)
  PROVE  \A x : x \in DOMAIN placed <=> x = k \/ x \in DOMAIN files
BY DEF Place, Stored

(* ... leaves there what was given or what was held, ...                   *)
LEMMA PlacedFiles ==
  ASSUME NEW files, NEW k, NEW file, NEW placed, placed = Place(files, k, file)
  PROVE  \A x \in DOMAIN placed :
           \/ x = k /\ placed[x] = file
           \/ x \in DOMAIN files /\ placed[x] = files[x]
BY DEF Place, Stored

(* ... and, with hard links, all that was held.                            *)
LEMMA PlacedKeeps ==
  ASSUME Links, NEW files, NEW k, NEW file, NEW placed, placed = Place(files, k, file)
  PROVE  \A x \in DOMAIN files : x \in DOMAIN placed /\ placed[x] = files[x]
BY DEF Place, Stored

(* The longest of the prefixes that can be extended is one of them. *)
LEMMA LongestIsExtendable ==
  ASSUME NEW k \in Frames, Extendable(k) # {}
  PROVE  Longest(Extendable(k)) \in Extendable(k)
<1> DEFINE Before == OpToRel(<, Nat)
           lengths == Extendable(k)
           Missing == {Len(k) - n : n \in lengths}
<1>1. \A n \in lengths : n \in 1..(Len(k) - 1)
  BY DEF Extendable
<1>2. Len(k) \in Nat
  BY DEF Frames
<1>3. Missing \subseteq Nat /\ Missing # {}
  <2> HIDE DEF lengths
  <2>1. lengths # {}
    BY DEF lengths
  <2> QED BY <1>1, <1>2, <2>1
<1>4. PICK least \in Missing : \A other \in Missing : <<other, least>> \notin Before
  <2> HIDE DEF Missing
  <2> QED BY <1>3, NatLessThanWellFounded, WFMin
<1>5. PICK n \in lengths : least = Len(k) - n
  OBVIOUS
<1>6. ASSUME NEW o \in lengths PROVE o <= n
  <2>1. Len(k) - o \in Missing
    OBVIOUS
  <2>2. ~(Len(k) - o < least)
    BY <1>3, <1>4, <2>1 DEF OpToRel
  <2> HIDE DEF lengths, Missing
  <2> QED BY <1>1, <1>2, <1>5, <2>2
<1>7. \E longest \in lengths : \A o \in lengths : o <= longest
  BY <1>6
<1> HIDE DEF lengths
<1>8. Longest(lengths) \in lengths
  BY <1>7 DEF Longest
<1> QED BY <1>8 DEF lengths
-----------------------------------------------------------------------------
LEMMA TypedTypeOK == Typed => TypeOK
BY DEF Typed, TypeOK, DiskTyped, StoreTyped, PlansTyped, StackTyped, TileTyped

LEMMA TypedInit == Init => Typed
<1> SUFFICES ASSUME Init PROVE Typed
  OBVIOUS
<1>1. DiskTyped
  BY ChannelAssumption DEF DiskTyped, Init
<1>2. StoreTyped
  <2>1. DOMAIN partial = {} /\ DOMAIN context = {} /\ DOMAIN tile = {}
    BY DEF Init
  <2> QED BY <2>1 DEF StoreTyped
<1>3. PlansTyped
  BY PlanFacts DEF PlansTyped, Init, Steps
<1>4. StackTyped
  <2>1. <<>> \in Frames
    BY DEF Frames
  <2> QED BY <2>1 DEF StackTyped, Init
<1>5. TileTyped
  <2>1. [how |-> "none", tile |-> {}] \in [how : Endings, tile : SUBSET Parts]
    BY DEF Endings
  <2> QED BY <2>1 DEF TileTyped, Init
<1> QED BY <1>1, <1>2, <1>3, <1>4, <1>5 DEF Typed

(* Which steps change what: light files are rewritten by others only ...   *)
LEMMA DiskChanges ==
  ASSUME [Next]_vars
  PROVE  UNCHANGED <<disk, rewrites>> \/ \E l \in Lights : Rewrite(l)
<1>1. ASSUME NEW m \in Machines,
             \/ PlanSession(m) \/ FindPartial(m) \/ ReadIdentity(m) \/ Resume(m)
             \/ Reopen(m) \/ Open(m) \/ Push(m) \/ Nothing(m) \/ SaveAside(m)
             \/ Finish(m)
      PROVE  UNCHANGED <<disk, rewrites>>
  BY <1>1 DEF PlanSession, FindPartial, ReadIdentity, Resume, Reopen, Open, Push, Nothing,
     SaveAside, Finish, counts
<1>2. ASSUME NEW m \in Machines,
             \/ CheckContext(m) \/ PlaceContext(m) \/ RecordContext(m)
             \/ CheckPartial(m) \/ PlacePartial(m) \/ StackFails(m) \/ FindTile(m)
             \/ Combine(m) \/ PlaceTile(m)
      PROVE  UNCHANGED <<disk, rewrites>>
  BY <1>2 DEF CheckContext, PlaceContext, RecordContext, CheckPartial, PlacePartial,
     StackFails, FindTile, Combine, PlaceTile, counts
<1>3. ASSUME NEW m \in Machines, Crash(m) \/ \E p \in Plans : Start(m, p)
      PROVE  UNCHANGED <<disk, rewrites>>
  BY <1>3 DEF Crash, Start, counts
<1>4. CASE UNCHANGED vars
  BY <1>4 DEF vars, counts
<1> QED BY <1>1, <1>2, <1>3, <1>4 DEF Next, Run

(* ... and the store's by three placements.                                *)
LEMMA StoreChanges ==
  ASSUME [Next]_vars
  PROVE  \/ UNCHANGED store
         \/ \E m \in Machines : PlaceContext(m) \/ PlacePartial(m) \/ PlaceTile(m)
<1>1. ASSUME NEW m \in Machines,
             \/ PlanSession(m) \/ FindPartial(m) \/ ReadIdentity(m) \/ Resume(m)
             \/ Reopen(m) \/ Open(m) \/ Push(m) \/ Nothing(m) \/ SaveAside(m)
             \/ Finish(m)
      PROVE  UNCHANGED store
  BY <1>1 DEF store, PlanSession, FindPartial, ReadIdentity, Resume, Reopen, Open, Push,
     Nothing, SaveAside, Finish
<1>2. ASSUME NEW m \in Machines,
             \/ CheckContext(m) \/ RecordContext(m) \/ CheckPartial(m) \/ StackFails(m)
             \/ FindTile(m) \/ Combine(m) \/ Crash(m) \/ \E p \in Plans : Start(m, p)
      PROVE  UNCHANGED store
  BY <1>2 DEF store, CheckContext, RecordContext, CheckPartial, StackFails, FindTile,
     Combine, Crash, Start
<1>3. ASSUME NEW l \in Lights, Rewrite(l)
      PROVE  UNCHANGED store
  BY <1>3 DEF store, Rewrite
<1>4. CASE UNCHANGED vars
  BY <1>4 DEF vars, store
<1> QED BY <1>1, <1>2, <1>3, <1>4 DEF Next, Run

(* A run ends, if these steps do not leave all but its combining alone.    *)
Ended(m) == \E how \in Endings : \E result : End(m, how, result)

LEMMA EndingSteps ==
  ASSUME NEW m, StackFails(m) \/ FindTile(m) \/ Combine(m) \/ PlaceTile(m) \/ Crash(m)
  PROVE  Ended(m) \/ UNCHANGED <<index, key, session, made, outcome>>
<1>1. CASE StackFails(m)
  BY <1>1 DEF StackFails, Ended, Endings
<1>2. CASE FindTile(m)
  BY <1>2 DEF FindTile, Ended, Endings
<1>3. CASE Combine(m)
  BY <1>3 DEF Combine, Ended, Endings
<1>4. CASE PlaceTile(m) \/ Crash(m)
  BY <1>4 DEF PlaceTile, Crash, Ended, Endings
<1> QED BY <1>1, <1>2, <1>3, <1>4

(* The session's variables change in these steps.                          *)
LEMMA StackChanges ==
  ASSUME [Next]_vars
  PROVE  \/ UNCHANGED <<key, session>>
         \/ \E m \in Machines :
              \/ PlanSession(m) \/ Resume(m) \/ Reopen(m) \/ Open(m) \/ Push(m)
              \/ SaveAside(m) \/ RecordContext(m) \/ Ended(m)
BY EndingSteps
   DEF vars, session, Next, Run, Start, FindPartial, ReadIdentity, Nothing, Finish,
   CheckContext, PlaceContext, CheckPartial, PlacePartial, Rewrite
-----------------------------------------------------------------------------
(* The types are kept, given where each machine stands. *)

LEMMA DiskTypedStep == Typed /\ [Next]_vars => DiskTyped'
<1> SUFFICES ASSUME Typed, [Next]_vars PROVE DiskTyped'
  OBVIOUS
<1>1. CASE UNCHANGED <<disk, rewrites>>
  BY <1>1 DEF Typed, DiskTyped
<1>2. ASSUME NEW l \in Lights, Rewrite(l) PROVE DiskTyped'
  BY <1>2, ChannelAssumption DEF Typed, DiskTyped, Rewrite
<1> QED BY <1>1, <1>2, DiskChanges

LEMMA StoreTypedStep == RunInv /\ [Next]_vars => StoreTyped'
<1> SUFFICES ASSUME RunInv, [Next]_vars PROVE StoreTyped'
  OBVIOUS
<1> USE DEF RunInv, Typed, StoreTyped
<1>1. CASE UNCHANGED store
  BY <1>1 DEF store
<1>2. ASSUME NEW m \in Machines, PlaceContext(m) PROVE StoreTyped'
  <2>1. key[m] \in Frames /\ aside[m] \in Contexts
    BY <1>2 DEF PlaceContext, StackTyped, Standing
  <2>2. \A k \in DOMAIN context' :
          \/ k = key[m] /\ context'[k] = aside[m]
          \/ k \in DOMAIN context /\ context'[k] = context[k]
    BY <1>2, PlacedFiles DEF PlaceContext
  <2>3. UNCHANGED <<partial, tile>>
    BY <1>2 DEF PlaceContext
  <2> QED BY <2>1, <2>2, <2>3
<1>3. ASSUME NEW m \in Machines, PlacePartial(m) PROVE StoreTyped'
  <2> DEFINE file == [frames |-> stack[m], context |-> recorded[m]]
  <2>1. key[m] \in Frames /\ file.frames \in Frames
        /\ file.context \in Contexts \cup {None}
    BY DEF StackTyped
  <2> HIDE DEF file
  <2>2. partial' = Place(partial, key[m], file)
    BY <1>3 DEF PlacePartial, file
  <2>3. \A k \in DOMAIN partial' :
          \/ k = key[m] /\ partial'[k] = file
          \/ k \in DOMAIN partial /\ partial'[k] = partial[k]
    BY <2>2, PlacedFiles
  <2>4. UNCHANGED <<context, tile>>
    BY <1>3 DEF PlacePartial
  <2> QED BY <2>1, <2>3, <2>4
<1>4. ASSUME NEW m \in Machines, PlaceTile(m) PROVE StoreTyped'
  <2>1. TileKey(m) \subseteq Frames /\ sum[m] \subseteq Parts
    BY DEF TileKey, Identities, TileTyped
  <2>2. \A t \in DOMAIN tile' :
          \/ t = TileKey(m) /\ tile'[t] = sum[m]
          \/ t \in DOMAIN tile /\ tile'[t] = tile[t]
    BY <1>4, PlacedFiles DEF PlaceTile
  <2>3. UNCHANGED <<partial, context>>
    BY <1>4 DEF PlaceTile
  <2> QED BY <2>1, <2>2, <2>3
<1> QED BY <1>1, <1>2, <1>3, <1>4, StoreChanges

LEMMA PlansTypedStep == RunInv /\ [Next]_vars => PlansTyped'
<1> SUFFICES ASSUME RunInv, [Next]_vars PROVE PlansTyped'
  OBVIOUS
<1> USE DEF RunInv, Typed, PlansTyped, Goto
<1>1. ASSUME NEW m \in Machines, NEW p \in Plans, Start(m, p) PROVE PlansTyped'
  BY <1>1, PlanFacts DEF Start, Standing, Steps
<1>2. ASSUME NEW m \in Machines, NextSession(m), UNCHANGED plan,
             pc[m] # "idle"
      PROVE  PlansTyped'
  <2>1. index[m] \in 1..Len(plan[m].sessions) /\ Len(plan[m].sessions) \in Nat
    BY <1>2, SessionFacts
  <2>2. CASE index[m] < Len(plan[m].sessions)
    <3> DEFINE i == index[m] + 1
    <3>1. i \in Nat \ {0} /\ i \in 1..Len(plan[m].sessions)
      BY <2>1, <2>2
    <3>2. index' = [index EXCEPT ![m] = i] /\ pc' = [pc EXCEPT ![m] = "plan"]
      BY <1>2, <2>2 DEF NextSession
    <3> HIDE DEF i
    <3> QED BY <1>2, <3>1, <3>2 DEF Steps
  <2>3. CASE ~(index[m] < Len(plan[m].sessions))
    BY <1>2, <2>1, <2>3 DEF NextSession, Steps
  <2> QED BY <2>2, <2>3
<1>3. ASSUME NEW m \in Machines, ReadIdentity(m) \/ Nothing(m) PROVE PlansTyped'
  BY <1>2, <1>3 DEF ReadIdentity, Nothing
<1>4. ASSUME NEW m \in Machines, Ended(m), UNCHANGED plan PROVE PlansTyped'
  <2>1. plan[m] \in Plans => Len(plan[m].sessions) \in Nat \ {0}
    BY PlanFacts
  <2> QED BY <1>4, <2>1 DEF Ended, End, Steps
<1>5. ASSUME NEW m \in Machines, NEW step \in Steps, Goto(m, step), UNCHANGED <<plan, index>>
      PROVE  PlansTyped'
  BY <1>5
<1>6. ASSUME NEW m \in Machines,
             \/ PlanSession(m) \/ FindPartial(m) \/ Resume(m) \/ Reopen(m) \/ Open(m)
             \/ SaveAside(m) \/ Finish(m) \/ CheckContext(m) \/ PlaceContext(m)
             \/ RecordContext(m) \/ CheckPartial(m) \/ PlacePartial(m)
      PROVE  PlansTyped'
  <2>1. UNCHANGED <<plan, index>>
    BY <1>6 DEF PlanSession, FindPartial, Resume, Reopen, Open, SaveAside, Finish,
       CheckContext, PlaceContext, RecordContext, CheckPartial, PlacePartial
  <2>2. \E step \in Steps : Goto(m, step)
    BY <1>6 DEF PlanSession, FindPartial, Resume, Reopen, Open, SaveAside, Finish,
       CheckContext, PlaceContext, RecordContext, CheckPartial, PlacePartial, Steps, Whole
  <2> QED BY <1>5, <2>1, <2>2
<1>7. ASSUME NEW m \in Machines,
             StackFails(m) \/ FindTile(m) \/ Combine(m) \/ PlaceTile(m) \/ Crash(m)
      PROVE  PlansTyped'
  <2>1. UNCHANGED plan
    BY <1>7 DEF StackFails, FindTile, Combine, PlaceTile, Crash
  <2>2. Ended(m) \/ UNCHANGED index
    BY <1>7, EndingSteps
  <2>3. Ended(m) \/ UNCHANGED pc \/ \E step \in Steps : Goto(m, step)
    BY <1>7 DEF StackFails, FindTile, Combine, PlaceTile, Crash, Ended, Endings, Steps
  <2> QED BY <1>4, <1>5, <2>1, <2>2, <2>3
<1>8. CASE UNCHANGED <<pc, plan, index>>
  BY <1>8
<1>9. ASSUME NEW m \in Machines, Push(m) PROVE PlansTyped'
  BY <1>8, <1>9 DEF Push
<1>10. ASSUME NEW l \in Lights, Rewrite(l) PROVE PlansTyped'
  BY <1>8, <1>10 DEF Rewrite
<1> QED
  BY <1>1, <1>3, <1>6, <1>7, <1>8, <1>9, <1>10 DEF Next, Run, vars

LEMMA StackTypedStep == RunInv /\ [Next]_vars => StackTyped'
<1> SUFFICES ASSUME RunInv, [Next]_vars PROVE StackTyped'
  OBVIOUS
<1> USE DEF RunInv, Typed, StackTyped, session
<1>1. CASE UNCHANGED <<key, session>>
  BY <1>1
<1>2. ASSUME NEW m \in Machines, PlanSession(m) PROVE StackTyped'
  <2> DEFINE k == [i \in DOMAIN Session(m) |-> Content(Session(m)[i])]
  <2>1. Session(m) \in Seq(Lights)
    BY <1>2, SessionFacts DEF PlanSession
  <2>2. \A i \in 1..Len(Session(m)) :
          Content(Session(m)[i]) \in Lights \X (0..MaxRewrites)
    BY <2>1 DEF DiskTyped, Content
  <2>3. k \in Frames
    <3>1. DOMAIN Session(m) = 1..Len(Session(m)) /\ Len(Session(m)) \in Nat
      BY <2>1
    <3> QED BY <2>2, <3>1 DEF Frames
  <2> HIDE DEF k
  <2>4. key' = [key EXCEPT ![m] = k]
    BY <1>2 DEF PlanSession, k
  <2> QED BY <1>2, <2>3, <2>4 DEF PlanSession
<1>3. ASSUME NEW m \in Machines, Resume(m) PROVE StackTyped'
  <2>1. UNCHANGED base \/ (\E n \in Nat : base' = [base EXCEPT ![m] = n])
    <3>1. Extendable(key[m]) # {} => Longest(Extendable(key[m])) \in Nat
      <4>1. Extendable(key[m]) \subseteq Nat
        BY DEF Extendable
      <4> QED BY <4>1, LongestIsExtendable
    <3> QED BY <1>3, <3>1 DEF Resume
  <2> QED BY <1>3, <2>1 DEF Resume
<1>4. ASSUME NEW m \in Machines, Reopen(m) PROVE StackTyped'
  <2>1. context[SubSeq(key[m], 1, base[m])].frames \in Frames
    BY <1>4 DEF Reopen, Standing, Contexts, StoreTyped
  <2> QED BY <1>4, <2>1 DEF Reopen
<1>5. ASSUME NEW m \in Machines, Open(m) PROVE StackTyped'
  <2>1. <<>> \in Frames
    BY DEF Frames
  <2> QED BY <1>5, <2>1 DEF Open
<1>6. ASSUME NEW m \in Machines, Push(m) PROVE StackTyped'
  <2>1. Session(m)[next[m]] \in Lights
    <3>1. Session(m) \in Seq(Lights) /\ next[m] \in 1..Len(Session(m))
      BY <1>6, SessionFacts DEF Push
    <3> QED BY <3>1, ElementOfSeq
  <2>2. Append(stack[m], Content(Session(m)[next[m]])) \in Frames
    BY <2>1 DEF Frames, DiskTyped, Content
  <2> QED BY <1>6, <2>2 DEF Push
<1>7. ASSUME NEW m \in Machines, SaveAside(m) PROVE StackTyped'
  <2>1. [frames |-> stack[m], by |-> m] \in Contexts
    BY DEF Contexts
  <2> QED BY <1>7, <2>1 DEF SaveAside
<1>8. ASSUME NEW m \in Machines, RecordContext(m) PROVE StackTyped'
  BY <1>8 DEF RecordContext, Standing, StoreTyped
<1>9. ASSUME NEW m \in Machines, Ended(m) PROVE StackTyped'
  <2>1. <<>> \in Frames
    BY DEF Frames
  <2> QED BY <1>9, <2>1 DEF Ended, End
<1> QED
  BY <1>1, <1>2, <1>3, <1>4, <1>5, <1>6, <1>7, <1>8, <1>9, StackChanges

LEMMA TileTypedStep == RunInv /\ [Next]_vars => TileTyped'
<1> SUFFICES ASSUME RunInv, [Next]_vars PROVE TileTyped'
  OBVIOUS
<1> USE DEF RunInv, Typed, TileTyped
<1>1. CASE UNCHANGED <<made, combine, outcome>>
  BY <1>1 DEF combine
<1>2. ASSUME NEW m \in Machines, NEW how \in Endings, NEW result \in SUBSET Parts,
             End(m, how, result)
      PROVE  TileTyped'
  <2>1. [how |-> how, tile |-> result] \in [how : Endings, tile : SUBSET Parts]
    OBVIOUS
  <2> QED BY <1>2, <2>1 DEF End
<1>3. ASSUME NEW m \in Machines, NEW p \in Plans, Start(m, p) PROVE TileTyped'
  <2>1. [how |-> "none", tile |-> {}] \in [how : Endings, tile : SUBSET Parts]
    BY DEF Endings
  <2> QED BY <1>3, <2>1 DEF Start, combine
<1>4. ASSUME NEW m \in Machines, ReadIdentity(m) PROVE TileTyped'
  <2>1. [key |-> key[m], context |-> partial[key[m]].context] \in Identities
    BY <1>4 DEF ReadIdentity, Standing, Identities, StackTyped, StoreTyped
  <2> QED BY <1>4, <2>1 DEF ReadIdentity, combine
<1>5. ASSUME NEW m \in Machines, StackFails(m) PROVE TileTyped'
  <2>1. End(m, "error", {}) \/ UNCHANGED <<made, combine, outcome>>
    BY <1>5 DEF StackFails
  <2> QED BY <1>1, <1>2, <2>1 DEF Endings
<1>6. ASSUME NEW m \in Machines, FindTile(m) PROVE TileTyped'
  <2>1. CASE End(m, "empty", {})
    BY <1>2, <2>1 DEF Endings
  <2>2. CASE TileKey(m) \in DOMAIN tile /\ End(m, "ok", tile[TileKey(m)])
    <3>1. tile[TileKey(m)] \subseteq Parts
      BY <2>2 DEF StoreTyped
    <3> QED BY <1>2, <2>2, <3>1 DEF Endings
  <2>3. CASE /\ left' = [left EXCEPT ![m] =
                  {[key |-> k, context |-> partial[k].context] : k \in TileKey(m)}]
             /\ sum' = [sum EXCEPT ![m] = {}]
             /\ UNCHANGED <<made, outcome>>
    <3>1. \A k \in TileKey(m) : k \in Frames /\ k \in DOMAIN partial
      BY DEF TileKey, Standing, Identities
    <3>2. \A k \in TileKey(m) : [key |-> k, context |-> partial[k].context] \in Identities
      BY <3>1 DEF Identities, StoreTyped
    <3> QED BY <2>3, <3>2
  <2> QED BY <1>6, <2>1, <2>2, <2>3 DEF FindTile
<1>7. ASSUME NEW m \in Machines, Combine(m) PROVE TileTyped'
  <2>1. PICK identity \in left[m] :
          \/ /\ left' = [left EXCEPT ![m] = @ \ {identity}]
             /\ sum' = [sum EXCEPT ![m] = @ \cup
                  {[key |-> identity.key, frames |-> partial[identity.key].frames]}]
             /\ UNCHANGED <<made, outcome>>
          \/ End(m, "changed", {})
    BY <1>7 DEF Combine
  <2>2. [key |-> identity.key, frames |-> partial[identity.key].frames] \in Parts
    BY DEF Standing, Identities, Parts, StoreTyped
  <2>3. CASE End(m, "changed", {})
    BY <1>2, <2>3 DEF Endings
  <2>4. CASE /\ left' = [left EXCEPT ![m] = @ \ {identity}]
             /\ sum' = [sum EXCEPT ![m] = @ \cup
                  {[key |-> identity.key, frames |-> partial[identity.key].frames]}]
             /\ UNCHANGED <<made, outcome>>
    BY <2>2, <2>4
  <2> QED BY <2>1, <2>3, <2>4
<1>8. ASSUME NEW m \in Machines, PlaceTile(m) \/ Crash(m) PROVE TileTyped'
  BY <1>2, <1>8 DEF PlaceTile, Crash, Endings
<1>9. ASSUME NEW m \in Machines,
             \/ PlanSession(m) \/ FindPartial(m) \/ Resume(m) \/ Reopen(m) \/ Open(m)
             \/ Push(m) \/ Nothing(m) \/ SaveAside(m) \/ Finish(m) \/ CheckContext(m)
             \/ PlaceContext(m) \/ RecordContext(m) \/ CheckPartial(m) \/ PlacePartial(m)
      PROVE  TileTyped'
  BY <1>1, <1>9 DEF PlanSession, FindPartial, Resume, Reopen, Open, Push, Nothing, SaveAside,
     Finish, CheckContext, PlaceContext, RecordContext, CheckPartial, PlacePartial
<1>10. ASSUME NEW l \in Lights, Rewrite(l) PROVE TileTyped'
  BY <1>1, <1>10 DEF Rewrite
<1>11. CASE UNCHANGED vars
  BY <1>1, <1>11 DEF vars
<1> QED
  BY <1>3, <1>4, <1>5, <1>6, <1>7, <1>8, <1>9, <1>10, <1>11 DEF Next, Run

LEMMA TypedStep == RunInv /\ [Next]_vars => Typed'
BY DiskTypedStep, StoreTypedStep, PlansTypedStep, StackTypedStep, TileTypedStep
   DEF RunInv, Typed
-----------------------------------------------------------------------------
(* The store's maps only gain keys. *)
LEMMA KeysStay ==
  ASSUME [Next]_vars
  PROVE  DOMAIN partial \subseteq DOMAIN partial' /\ DOMAIN context \subseteq DOMAIN context'
<1>1. CASE UNCHANGED store
  BY <1>1 DEF store
<1>2. ASSUME NEW m \in Machines, PlaceContext(m)
      PROVE  UNCHANGED partial /\ DOMAIN context \subseteq DOMAIN context'
  BY <1>2, PlacedKeys DEF PlaceContext
<1>3. ASSUME NEW m \in Machines, PlacePartial(m)
      PROVE  UNCHANGED context /\ DOMAIN partial \subseteq DOMAIN partial'
  BY <1>3, PlacedKeys DEF PlacePartial
<1>4. ASSUME NEW m \in Machines, PlaceTile(m) PROVE UNCHANGED <<partial, context>>
  BY <1>4 DEF PlaceTile
<1> QED BY <1>1, <1>2, <1>3, <1>4, StoreChanges

\* What is a machine's own.
own(o) == <<pc[o], plan[o], index[o], key[o], base[o], next[o], stack[o], aside[o],
            recorded[o], made[o], left[o], sum[o], outcome[o]>>

(* A machine's step touches nothing of another's. *)
LEMMA OthersUntouched ==
  ASSUME Typed, NEW m \in Machines, NEW o \in Machines, o # m,
         Run(m) \/ Crash(m) \/ \E p \in Plans : Start(m, p)
  PROVE  UNCHANGED own(o)
<1>0. o \in DOMAIN pc /\ o \in DOMAIN plan /\ o \in DOMAIN index /\ o \in DOMAIN key
      /\ o \in DOMAIN base /\ o \in DOMAIN next /\ o \in DOMAIN stack /\ o \in DOMAIN aside
      /\ o \in DOMAIN recorded /\ o \in DOMAIN made /\ o \in DOMAIN left
      /\ o \in DOMAIN sum /\ o \in DOMAIN outcome
  BY DEF Typed, PlansTyped, StackTyped, TileTyped
<1> USE <1>0 DEF own, Goto, session, combine
<1>1. ASSUME NEW how, NEW result, End(m, how, result), UNCHANGED plan
      PROVE  UNCHANGED own(o)
  BY <1>1 DEF End
<1>2. CASE \/ PlanSession(m) \/ FindPartial(m) \/ Resume(m) \/ Reopen(m) \/ Open(m) \/ Push(m)
  BY <1>2 DEF PlanSession, FindPartial, Resume, Reopen, Open, Push
<1>3. CASE \/ SaveAside(m) \/ Finish(m) \/ CheckContext(m) \/ PlaceContext(m)
           \/ RecordContext(m) \/ CheckPartial(m) \/ PlacePartial(m)
  BY <1>3 DEF SaveAside, Finish, CheckContext, PlaceContext, RecordContext, CheckPartial,
     PlacePartial
<1>4. CASE ReadIdentity(m) \/ Nothing(m)
  BY <1>4 DEF ReadIdentity, Nothing, NextSession
<1>5. CASE StackFails(m)
  BY <1>1, <1>5 DEF StackFails
<1>6. CASE FindTile(m)
  BY <1>1, <1>6 DEF FindTile
<1>7. CASE Combine(m)
  <2>1. End(m, "changed", {}) \/ \E identity \in left[m] :
          /\ left' = [left EXCEPT ![m] = @ \ {identity}]
          /\ sum' = [sum EXCEPT ![m] = @ \cup
               {[key |-> identity.key, frames |-> partial[identity.key].frames]}]
          /\ UNCHANGED <<pc, index, key, session, made, outcome>>
    BY <1>7 DEF Combine
  <2> QED BY <1>1, <1>7, <2>1 DEF Combine
<1>8. CASE PlaceTile(m) \/ Crash(m)
  BY <1>1, <1>8 DEF PlaceTile, Crash
<1>9. CASE \E p \in Plans : Start(m, p)
  BY <1>9 DEF Start
<1> QED BY <1>2, <1>3, <1>4, <1>5, <1>6, <1>7, <1>8, <1>9 DEF Run

(* A machine's own step leaves it standing. *)
LEMMA OwnStanding ==
  ASSUME RunInv, [Next]_vars, NEW m \in Machines,
         Run(m) \/ Crash(m) \/ \E p \in Plans : Start(m, p)
  PROVE  Standing(m)'
<1>0. /\ m \in DOMAIN pc /\ m \in DOMAIN plan /\ m \in DOMAIN index /\ m \in DOMAIN key
      /\ m \in DOMAIN base /\ m \in DOMAIN aside /\ m \in DOMAIN made /\ m \in DOMAIN left
      /\ Standing(m)
      /\ DOMAIN partial \subseteq DOMAIN partial' /\ DOMAIN context \subseteq DOMAIN context'
      /\ aside[m] \in Contexts \cup {None}
  BY KeysStay DEF RunInv, Typed, PlansTyped, StackTyped, TileTyped
<1> USE <1>0 DEF Standing, Goto, session, combine, store
<1>1. ASSUME NEW how, NEW result, End(m, how, result) PROVE Standing(m)'
  BY <1>1 DEF End
<1>2. CASE PlanSession(m) \/ FindPartial(m)
  BY <1>2 DEF PlanSession, FindPartial
<1>3. ASSUME NextSession(m), UNCHANGED <<plan, left>>, pc[m] # "idle",
             \A identity \in made'[m] : identity.key \in DOMAIN partial'
      PROVE  Standing(m)'
  BY <1>3 DEF NextSession
<1>4. CASE ReadIdentity(m)
  BY <1>3, <1>4 DEF ReadIdentity
<1>5. CASE Nothing(m)
  BY <1>3, <1>5 DEF Nothing
<1>6. CASE Resume(m)
  <2>1. key[m] \in Frames
    BY DEF RunInv, Typed, StackTyped
  <2>2. CASE /\ base' = [base EXCEPT ![m] = Longest(Extendable(key[m]))]
             /\ Extendable(key[m]) # {}
             /\ Goto(m, "reopen")
    <3>1. /\ base'[m] \in 1..(Len(key[m]) - 1)
          /\ SubSeq(key[m], 1, base'[m]) \in DOMAIN context
      BY <2>1, <2>2, LongestIsExtendable DEF Extendable
    <3> QED BY <1>6, <2>2, <3>1 DEF Resume
  <2>3. CASE Goto(m, "open") \/ (Goto(m, "identity") /\ key[m] \in DOMAIN partial)
    BY <1>6, <2>3 DEF Resume
  <2> QED BY <1>6, <2>2, <2>3 DEF Resume
<1>7. CASE Reopen(m) \/ Open(m) \/ Push(m)
  BY <1>7 DEF Reopen, Open, Push
<1>8. CASE SaveAside(m) \/ Finish(m)
  BY <1>8 DEF SaveAside, Finish
<1>9. CASE CheckContext(m) \/ RecordContext(m) \/ CheckPartial(m)
  BY <1>9 DEF CheckContext, RecordContext, CheckPartial
<1>10. CASE PlaceContext(m)
  <2>1. key[m] \in DOMAIN context'
    BY <1>10, PlacedKeys DEF PlaceContext
  <2> QED BY <1>10, <2>1 DEF PlaceContext
<1>11. CASE PlacePartial(m)
  <2>1. key[m] \in DOMAIN partial'
    BY <1>11, PlacedKeys DEF PlacePartial
  <2> QED BY <1>11, <2>1 DEF PlacePartial
<1>12. CASE StackFails(m)
  BY <1>1, <1>12 DEF StackFails
<1>13. CASE FindTile(m)
  <2>1. CASE /\ left' = [left EXCEPT ![m] =
                  {[key |-> k, context |-> partial[k].context] : k \in TileKey(m)}]
             /\ Goto(m, "combine")
             /\ UNCHANGED <<index, key, session, made, outcome>>
    <3>1. \A k \in TileKey(m) : k \in DOMAIN partial
      BY DEF TileKey
    <3>2. \A identity \in left'[m] : identity.key \in DOMAIN partial
      BY <2>1, <3>1
    <3> QED BY <1>13, <2>1, <3>2 DEF FindTile
  <2> QED BY <1>1, <1>13, <2>1 DEF FindTile
<1>14. CASE Combine(m)
  <2>1. PICK identity \in left[m] :
          \/ /\ left' = [left EXCEPT ![m] = @ \ {identity}]
             /\ UNCHANGED <<pc, index, key, session, made, outcome>>
          \/ End(m, "changed", {})
    BY <1>14 DEF Combine
  <2>2. CASE /\ left' = [left EXCEPT ![m] = @ \ {identity}]
             /\ UNCHANGED <<pc, index, key, session, made, outcome>>
    BY <1>14, <2>2 DEF Combine
  <2> QED BY <1>1, <2>1, <2>2
<1>15. CASE PlaceTile(m) \/ Crash(m)
  BY <1>1, <1>15 DEF PlaceTile, Crash
<1>16. CASE \E p \in Plans : Start(m, p)
  BY <1>16 DEF Start
<1> QED
  BY <1>2, <1>4, <1>5, <1>6, <1>7, <1>8, <1>9, <1>10, <1>11, <1>12, <1>13, <1>14, <1>15,
     <1>16 DEF Run

LEMMA StandingStep == RunInv /\ [Next]_vars => \A m \in Machines : Standing(m)'
<1> SUFFICES ASSUME RunInv, [Next]_vars, NEW o \in Machines PROVE Standing(o)'
  OBVIOUS
<1>1. CASE UNCHANGED own(o)
  <2>1. DOMAIN partial \subseteq DOMAIN partial' /\ DOMAIN context \subseteq DOMAIN context'
    BY KeysStay
  <2>2. Standing(o)
    BY DEF RunInv
  <2> QED BY <1>1, <2>1, <2>2 DEF own, Standing
<1>2. ASSUME NEW m \in Machines, Run(m) \/ Crash(m) \/ \E p \in Plans : Start(m, p)
      PROVE  Standing(o)'
  BY <1>1, <1>2, OwnStanding, OthersUntouched DEF RunInv
<1>3. CASE UNCHANGED vars
  BY <1>1, <1>3 DEF vars, own, session, combine
<1>4. ASSUME NEW l \in Lights, Rewrite(l) PROVE Standing(o)'
  BY <1>1, <1>4 DEF Rewrite, own, session, combine
<1> QED BY <1>2, <1>3, <1>4 DEF Next

LEMMA RunInvInit == Init => RunInv
<1>1. Init => \A m \in Machines : Standing(m)
  BY DEF Init, Standing
<1> QED BY <1>1, TypedInit DEF RunInv

LEMMA RunInvStep == RunInv /\ [Next]_vars => RunInv'
BY TypedStep, StandingStep DEF RunInv

LEMMA RunInvariant == Spec => []RunInv
BY RunInvInit, RunInvStep, PTL DEF Spec

(* Every variable keeps its type. *)
THEOREM TypeCorrect == Spec => []TypeOK
<1>1. RunInv => TypeOK
  BY TypedTypeOK DEF RunInv
<1> QED BY RunInvariant, <1>1, PTL
-----------------------------------------------------------------------------
(* With hard links a placement replaces nothing. *)
LEMMA GrowsStep ==
  ASSUME Links, [Next]_vars
  PROVE  /\ \A k \in DOMAIN partial : k \in DOMAIN partial' /\ partial'[k] = partial[k]
         /\ \A k \in DOMAIN context : k \in DOMAIN context' /\ context'[k] = context[k]
         /\ \A t \in DOMAIN tile : t \in DOMAIN tile' /\ tile'[t] = tile[t]
<1>1. CASE UNCHANGED store
  BY <1>1 DEF store
<1>2. ASSUME NEW m \in Machines, PlaceContext(m)
      PROVE  /\ UNCHANGED <<partial, tile>>
             /\ \A k \in DOMAIN context : k \in DOMAIN context' /\ context'[k] = context[k]
  BY <1>2, PlacedKeeps DEF PlaceContext
<1>3. ASSUME NEW m \in Machines, PlacePartial(m)
      PROVE  /\ UNCHANGED <<context, tile>>
             /\ \A k \in DOMAIN partial : k \in DOMAIN partial' /\ partial'[k] = partial[k]
  BY <1>3, PlacedKeeps DEF PlacePartial
<1>4. ASSUME NEW m \in Machines, PlaceTile(m)
      PROVE  /\ UNCHANGED <<partial, context>>
             /\ \A t \in DOMAIN tile : t \in DOMAIN tile' /\ tile'[t] = tile[t]
  BY <1>4, PlacedKeeps DEF PlaceTile
<1> QED BY <1>1, <1>2, <1>3, <1>4, StoreChanges

(* What a machine has read of the store is still so after its own step. *)
LEMMA OwnKept ==
  ASSUME Links, RunInv, KeptInv, [Next]_vars, NEW m \in Machines,
         Run(m) \/ Crash(m) \/ \E p \in Plans : Start(m, p)
  PROVE  Kept(m)' /\ outcome'[m].how # "changed"
<1>0. /\ m \in DOMAIN pc /\ m \in DOMAIN recorded /\ m \in DOMAIN left /\ m \in DOMAIN outcome
      /\ m \in DOMAIN key
      /\ Standing(m) /\ Kept(m) /\ outcome[m].how # "changed"
      /\ \A k \in DOMAIN partial : partial'[k] = partial[k]
      /\ \A k \in DOMAIN context : k \in DOMAIN context' /\ context'[k] = context[k]
  BY GrowsStep DEF RunInv, Typed, PlansTyped, StackTyped, TileTyped, KeptInv,
     NothingChangesUnderfoot
<1> USE <1>0 DEF Standing, Kept, Goto, session, combine, store
<1>1. ASSUME NEW how, NEW result, how # "changed", End(m, how, result)
      PROVE  Kept(m)' /\ outcome'[m].how # "changed"
  BY <1>1 DEF End
<1>2. CASE PlanSession(m) \/ FindPartial(m) \/ Reopen(m) \/ Open(m) \/ Push(m)
  BY <1>2 DEF PlanSession, FindPartial, Reopen, Open, Push
<1>3. CASE ReadIdentity(m) \/ Nothing(m)
  BY <1>3 DEF ReadIdentity, Nothing, NextSession
<1>4. CASE Resume(m)
  BY <1>4 DEF Resume
<1>5. CASE SaveAside(m) \/ Finish(m) \/ CheckContext(m) \/ PlaceContext(m)
  BY <1>5 DEF SaveAside, Finish, CheckContext, PlaceContext
<1>6. CASE RecordContext(m) \/ CheckPartial(m) \/ PlacePartial(m)
  BY <1>6 DEF RecordContext, CheckPartial, PlacePartial
<1>7. CASE StackFails(m)
  BY <1>1, <1>7 DEF StackFails
<1>8. CASE FindTile(m)
  <2>1. CASE /\ left' = [left EXCEPT ![m] =
                  {[key |-> k, context |-> partial[k].context] : k \in TileKey(m)}]
             /\ Goto(m, "combine")
             /\ UNCHANGED <<index, key, session, made, outcome>>
    <3>1. \A identity \in left'[m] :
            identity.key \in DOMAIN partial /\ identity.context = partial[identity.key].context
      BY <2>1 DEF TileKey
    <3> QED BY <1>8, <2>1, <3>1 DEF FindTile
  <2> QED BY <1>1, <1>8, <2>1 DEF FindTile
<1>9. CASE Combine(m)
  <2>1. PICK identity \in left[m] :
          /\ partial[identity.key].context = identity.context
          /\ left' = [left EXCEPT ![m] = @ \ {identity}]
          /\ UNCHANGED <<pc, index, key, session, made, outcome>>
    BY <1>9 DEF Combine
  <2> QED BY <1>9, <2>1 DEF Combine
<1>10. CASE PlaceTile(m) \/ Crash(m)
  BY <1>1, <1>10 DEF PlaceTile, Crash
<1>11. CASE \E p \in Plans : Start(m, p)
  BY <1>11 DEF Start
<1> QED
  BY <1>2, <1>3, <1>4, <1>5, <1>6, <1>7, <1>8, <1>9, <1>10, <1>11 DEF Run

LEMMA KeptStep ==
  ASSUME Links, RunInv, KeptInv, [Next]_vars
  PROVE  KeptInv'
<1>1. /\ \A k \in DOMAIN partial : k \in DOMAIN partial' /\ partial'[k] = partial[k]
      /\ \A k \in DOMAIN context : k \in DOMAIN context' /\ context'[k] = context[k]
  BY GrowsStep
<1>2. ASSUME NEW o \in Machines PROVE Kept(o)' /\ outcome'[o].how # "changed"
  <2>1. CASE UNCHANGED own(o)
    BY <1>1, <2>1 DEF RunInv, Standing, KeptInv, Kept, NothingChangesUnderfoot, own
  <2>2. ASSUME NEW m \in Machines, Run(m) \/ Crash(m) \/ \E p \in Plans : Start(m, p)
        PROVE  Kept(o)' /\ outcome'[o].how # "changed"
    BY <2>1, <2>2, OwnKept, OthersUntouched DEF RunInv
  <2>3. CASE UNCHANGED vars
    BY <2>1, <2>3 DEF vars, own, session, combine
  <2>4. ASSUME NEW l \in Lights, Rewrite(l)
        PROVE  Kept(o)' /\ outcome'[o].how # "changed"
    BY <2>1, <2>4 DEF Rewrite, own, session, combine
  <2> QED BY <2>2, <2>3, <2>4 DEF Next
<1>3. RecordedContextIsKept'
  <2> SUFFICES ASSUME NEW k \in DOMAIN partial', partial'[k].context # None
               PROVE  k \in DOMAIN context' /\ context'[k] = partial'[k].context
    BY DEF RecordedContextIsKept
  <2>1. CASE k \in DOMAIN partial
    BY <1>1, <2>1 DEF KeptInv, RecordedContextIsKept
  <2>2. CASE k \notin DOMAIN partial
    <3>1. PICK m \in Machines : PlacePartial(m)
      BY <2>2, StoreChanges DEF store, PlaceContext, PlaceTile
    <3> DEFINE file == [frames |-> stack[m], context |-> recorded[m]]
    <3>2. k = key[m] /\ partial'[k] = file
      BY <2>2, <3>1, PlacedFiles DEF PlacePartial
    <3>3. recorded[m] # None
      BY <3>2
    <3>4. k \in DOMAIN context /\ context[k] = recorded[m]
      BY <3>1, <3>2, <3>3 DEF PlacePartial, KeptInv, Kept
    <3> QED BY <1>1, <3>2, <3>4
  <2> QED BY <2>1, <2>2
<1> QED BY <1>2, <1>3 DEF KeptInv, NothingChangesUnderfoot

LEMMA KeptInvariant == Links /\ Spec => []KeptInv
<1>1. Init => KeptInv
  <2> SUFFICES ASSUME Init PROVE KeptInv
    OBVIOUS
  <2>1. DOMAIN partial = {}
    BY DEF Init
  <2> QED BY <2>1 DEF Init, KeptInv, RecordedContextIsKept, NothingChangesUnderfoot, Kept
<1>2. CASE Links
  <2>1. RunInv /\ KeptInv /\ [Next]_vars => KeptInv'
    BY <1>2, KeptStep
  <2> QED BY <1>1, <2>1, RunInvariant, PTL DEF Spec
<1>3. CASE ~Links
  BY <1>3
<1> QED BY <1>2, <1>3

(* With hard links the context a partial stack records stays with it,      *)
(* whoever stored either and however often (session.rs:284-340, 346-361).   *)
THEOREM ContextsStay == Links /\ Spec => []RecordedContextIsKept
<1>1. KeptInv => RecordedContextIsKept
  BY DEF KeptInv
<1> QED BY KeptInvariant, <1>1, PTL

(* With hard links combine_files never finds a partial stack changed since  *)
(* its header was read (partial.rs:249-255).                                *)
THEOREM CombiningIsUndisturbed == Links /\ Spec => []NothingChangesUnderfoot
<1>1. KeptInv => NothingChangesUnderfoot
  BY DEF KeptInv
<1> QED BY KeptInvariant, <1>1, PTL
-----------------------------------------------------------------------------
(* Until a light file is rewritten. *)

LEMMA ContentsAreFirst ==
  ASSUME Typed, rewrites = 0, NEW l \in Lights
  PROVE  Content(l) = <<l, 0>>
<1>1. disk[l] \in 0..MaxRewrites /\ disk[l] <= rewrites
  BY DEF Typed, DiskTyped
<1>2. disk[l] = 0
  BY <1>1, ChannelAssumption
<1> QED BY <1>2 DEF Content

\* The keys of one session more.
LEMMA KeysUpToNext ==
  ASSUME NEW p, NEW n \in Nat \ {0}
  PROVE  KeysUpTo(p, n) =
           KeysUpTo(p, n - 1) \cup
             (IF Accepts(p.sessions[n]) THEN {KeyOf(p.sessions[n])} ELSE {})
<1>1. {i \in 1..n : Accepts(p.sessions[i])} =
        {i \in 1..(n - 1) : Accepts(p.sessions[i])} \cup
          (IF Accepts(p.sessions[n]) THEN {n} ELSE {})
  OBVIOUS
<1> QED BY <1>1 DEF KeysUpTo

\* A session's key says of it what is looked at.
LEMMA KeyFacts ==
  ASSUME NEW s \in Seq(Lights)
  PROVE  /\ DOMAIN KeyOf(s) = 1..Len(s)
         /\ \A i \in 1..Len(s) : KeyOf(s)[i] = <<s[i], 0>> /\ s[i] \in Lights
         /\ (\E i \in DOMAIN KeyOf(s) : KeyOf(s)[i][1] \in Accepted) <=> Accepts(s)
<1>1. DOMAIN s = 1..Len(s)
  OBVIOUS
<1>2. DOMAIN KeyOf(s) = 1..Len(s)
  BY <1>1 DEF KeyOf
<1>3. ASSUME NEW i \in 1..Len(s)
      PROVE  KeyOf(s)[i] = <<s[i], 0>> /\ s[i] \in Lights
  BY <1>1 DEF KeyOf
<1>4. \A i \in 1..Len(s) : KeyOf(s)[i][1] = s[i]
  BY <1>3
<1> QED BY <1>1, <1>2, <1>3, <1>4 DEF Accepts

\* A prefix and the content after it.
LEMMA PrefixGrows ==
  ASSUME NEW k \in Frames, NEW n \in 1..Len(k)
  PROVE  Append(SubSeq(k, 1, n - 1), k[n]) = SubSeq(k, 1, n)
BY DEF Frames

(* Each file of the store is its step's output after a placement as before. *)
LEMMA StoredFaithfulStep ==
  ASSUME RunInv, FaithfulInv, rewrites = 0, [Next]_vars
  PROVE  /\ StoredIsStepOutput'
         /\ (\A k \in DOMAIN partial : \E i \in DOMAIN k : k[i][1] \in Accepted)'
<1>1. CASE UNCHANGED store
  BY <1>1 DEF store, FaithfulInv, StoredIsStepOutput
<1>2. ASSUME NEW m \in Machines, PlaceContext(m)
      PROVE  \A k \in DOMAIN context' : context'[k].frames = k
  <2>1. aside[m].frames = key[m]
    BY <1>2 DEF RunInv, Standing, FaithfulInv, Faithful, PlaceContext, Whole
  <2>2. \A k \in DOMAIN context' :
          \/ k = key[m] /\ context'[k] = aside[m]
          \/ k \in DOMAIN context /\ context'[k] = context[k]
    BY <1>2, PlacedFiles DEF PlaceContext
  <2> QED BY <2>1, <2>2 DEF FaithfulInv, StoredIsStepOutput
<1>3. ASSUME NEW m \in Machines, PlacePartial(m)
      PROVE  \A k \in DOMAIN partial' : /\ partial'[k].frames = k
                                       /\ \E i \in DOMAIN k : k[i][1] \in Accepted
  <2> DEFINE file == [frames |-> stack[m], context |-> recorded[m]]
  <2>1. stack[m] = key[m] /\ Accepts(Session(m)) /\ key[m] = KeyOf(Session(m))
    BY <1>3 DEF FaithfulInv, Faithful, PlacePartial, Whole
  <2>2. file.frames = key[m]
    BY <2>1
  <2>3. \E i \in DOMAIN key[m] : key[m][i][1] \in Accepted
    <3>1. Session(m) \in Seq(Lights)
      BY <1>3, SessionFacts DEF PlacePartial
    <3> QED BY <2>1, <3>1, KeyFacts
  <2> HIDE DEF file
  <2>4. \A k \in DOMAIN partial' :
          \/ k = key[m] /\ partial'[k] = file
          \/ k \in DOMAIN partial /\ partial'[k] = partial[k]
    BY <1>3, PlacedFiles DEF PlacePartial, file
  <2> QED BY <2>2, <2>3, <2>4 DEF FaithfulInv, StoredIsStepOutput
<1>4. ASSUME NEW m \in Machines, PlaceTile(m)
      PROVE  \A t \in DOMAIN tile' : tile'[t] = SelfParts(t)
  <2>1. sum[m] = SelfParts(TileKey(m))
    BY <1>4 DEF FaithfulInv, Faithful, PlaceTile, SelfParts
  <2>2. \A t \in DOMAIN tile' :
          \/ t = TileKey(m) /\ tile'[t] = sum[m]
          \/ t \in DOMAIN tile /\ tile'[t] = tile[t]
    BY <1>4, PlacedFiles DEF PlaceTile
  <2>3. \A t \in DOMAIN tile : tile[t] = SelfParts(t)
    BY DEF FaithfulInv, StoredIsStepOutput, SelfParts
  <2> QED BY <2>1, <2>2, <2>3
<1>5. CASE \E m \in Machines : PlaceContext(m)
  BY <1>2, <1>5 DEF PlaceContext, FaithfulInv, StoredIsStepOutput
<1>6. CASE \E m \in Machines : PlacePartial(m)
  BY <1>3, <1>6 DEF PlacePartial, FaithfulInv, StoredIsStepOutput
<1>7. CASE \E m \in Machines : PlaceTile(m)
  BY <1>4, <1>7 DEF PlaceTile, FaithfulInv, StoredIsStepOutput, SelfParts
<1> QED BY <1>1, <1>5, <1>6, <1>7, StoreChanges

(* A session done with, stored or of no accepted light, is accounted for.  *)
LEMMA SessionDone ==
  ASSUME RunInv, NEW m \in Machines, Faithful(m), pc[m] \notin {"idle", "tile", "combine"},
         NextSession(m), UNCHANGED <<plan, outcome>>,
         TileKey(m)' = TileKey(m) \cup
           (IF Accepts(Session(m)) THEN {KeyOf(Session(m))} ELSE {})
  PROVE  Faithful(m)'
<1>1. /\ plan[m] \in Plans /\ Len(plan[m].sessions) \in Nat
      /\ index[m] \in 1..Len(plan[m].sessions)
      /\ m \in DOMAIN pc /\ m \in DOMAIN index
  BY SessionFacts DEF RunInv, Typed, PlansTyped
<1>2. TileKey(m) = KeysUpTo(plan[m], index[m] - 1)
  BY DEF Faithful, Through
<1>3. TileKey(m)' = KeysUpTo(plan[m], index[m])
  BY <1>1, <1>2, KeysUpToNext DEF Session
<1>4. pc'[m] \in {"plan", "tile"} /\ Through(m)' = index[m]
  BY <1>1 DEF NextSession, Goto, Through
<1> QED BY <1>3, <1>4 DEF Faithful, Whole

(* A run that ends leaves nothing, and what it returns is its plan's. *)
LEMMA EndFaithful ==
  ASSUME RunInv, NEW m \in Machines, NEW how, NEW result, End(m, how, result),
         UNCHANGED plan,
         how = "ok" => /\ plan[m] \in Plans
                       /\ result = SelfParts(KeysUpTo(plan[m], Len(plan[m].sessions)))
  PROVE  Faithful(m)'
<1>1. m \in DOMAIN pc /\ m \in DOMAIN outcome
  BY DEF RunInv, Typed, PlansTyped, TileTyped
<1>2. pc'[m] = "idle" /\ outcome'[m].how = how /\ outcome'[m].tile = result
  BY <1>1 DEF End, Goto
<1> QED BY <1>2 DEF Faithful, Whole

(* A step of the stacking that leaves the plan's progress alone. *)
LEMMA StackFaithful ==
  ASSUME RunInv, NEW m \in Machines, Faithful(m),
         pc[m] \notin {"idle", "plan", "tile", "combine"},
         UNCHANGED <<plan, index, key, made, left, sum, outcome>>,
         pc'[m] \in Steps \ {"idle", "plan", "tile", "combine"},
         pc'[m] = "push" => /\ next'[m] <= Len(key[m]) + 1
                            /\ stack'[m] = SubSeq(key[m], 1, next'[m] - 1),
         pc'[m] \in Whole => stack'[m] = key[m] /\ Accepts(Session(m)),
         pc'[m] \in Whole /\ aside'[m] # None => aside'[m].frames = key[m]
  PROVE  Faithful(m)'
<1>1. TileKey(m)' = TileKey(m) /\ Session(m)' = Session(m)
  BY DEF TileKey, Session
<1>2. Through(m)' = Through(m)
  BY DEF Through
<1>3. TileKey(m) = KeysUpTo(plan[m], Through(m)) /\ key[m] = KeyOf(Session(m))
      /\ (outcome[m].how = "ok" =>
            /\ plan[m] \in Plans
            /\ outcome[m].tile = SelfParts(KeysUpTo(plan[m], Len(plan[m].sessions))))
  BY DEF Faithful
<1> QED BY <1>1, <1>2, <1>3 DEF Faithful

(* What a run holds is what its place calls for after its own step. *)
LEMMA OwnFaithful ==
  ASSUME RunInv, FaithfulInv, rewrites = 0, [Next]_vars, NEW m \in Machines,
         Run(m) \/ Crash(m) \/ \E p \in Plans : Start(m, p)
  PROVE  Faithful(m)'
<1>0. /\ m \in DOMAIN pc /\ m \in DOMAIN plan /\ m \in DOMAIN index /\ m \in DOMAIN key
      /\ m \in DOMAIN base /\ m \in DOMAIN next /\ m \in DOMAIN stack /\ m \in DOMAIN aside
      /\ m \in DOMAIN made /\ m \in DOMAIN left /\ m \in DOMAIN sum /\ m \in DOMAIN outcome
      /\ key[m] \in Frames /\ Len(key[m]) \in Nat /\ next[m] \in Nat \ {0}
      /\ pc[m] \in Steps
      /\ Faithful(m) /\ Standing(m)
  BY DEF RunInv, Typed, PlansTyped, StackTyped, TileTyped, FaithfulInv, Frames
<1>1. ASSUME pc[m] \notin {"idle", "plan", "tile", "combine"}
      PROVE  /\ Session(m) \in Seq(Lights) /\ key[m] = KeyOf(Session(m))
             /\ Len(key[m]) = Len(Session(m))
  <2>1. Session(m) \in Seq(Lights) /\ key[m] = KeyOf(Session(m))
    BY <1>0, <1>1, SessionFacts DEF Faithful
  <2>2. DOMAIN key[m] = 1..Len(Session(m))
    BY <2>1, KeyFacts
  <2>3. DOMAIN key[m] = 1..Len(key[m]) /\ Len(Session(m)) \in Nat
    BY <1>0, <2>1 DEF Frames
  <2> QED BY <1>0, <2>1, <2>2, <2>3
<1>2. CASE \E p \in Plans : Start(m, p)
  <2>1. PICK p \in Plans : Start(m, p)
    BY <1>2
  <2>2. pc'[m] = "plan" /\ plan'[m] = p /\ outcome'[m].how = "none" /\ index'[m] = 1
        /\ made'[m] = {}
    BY <1>0, <2>1 DEF Start, Goto, Standing
  <2>3. TileKey(m)' = {} /\ Through(m)' = 0
    BY <2>2 DEF TileKey, Through
  <2>4. KeysUpTo(p, 0) = {}
    BY DEF KeysUpTo
  <2> QED BY <2>2, <2>3, <2>4 DEF Faithful, Whole
<1>3. CASE PlanSession(m)
  <2>1. Session(m) \in Seq(Lights)
    BY <1>3, SessionFacts DEF PlanSession
  <2>2. \A i \in DOMAIN Session(m) : Content(Session(m)[i]) = <<Session(m)[i], 0>>
    BY <2>1, ContentsAreFirst DEF RunInv
  <2>3. key'[m] = KeyOf(Session(m))
    BY <1>0, <1>3, <2>2 DEF PlanSession, KeyOf
  <2>4. pc'[m] = "find" /\ UNCHANGED <<plan, index, made, outcome>> /\ pc[m] = "plan"
    BY <1>0, <1>3 DEF PlanSession, Goto
  <2>5. TileKey(m)' = TileKey(m) /\ Session(m)' = Session(m) /\ Through(m)' = Through(m)
    BY <2>4 DEF TileKey, Session, Through
  <2> QED BY <1>0, <2>3, <2>4, <2>5 DEF Faithful, Whole
<1>4. CASE FindPartial(m)
  BY <1>0, <1>4, StackFaithful DEF FindPartial, Goto, session, combine, Steps, Whole
<1>5. CASE ReadIdentity(m)
  <2>1. Accepts(Session(m)) /\ key[m] = KeyOf(Session(m))
    <3>1. key[m] \in DOMAIN partial
      BY <1>0, <1>5 DEF ReadIdentity, Standing
    <3>2. \E i \in DOMAIN key[m] : key[m][i][1] \in Accepted
      BY <3>1 DEF FaithfulInv
    <3> QED BY <1>1, <1>5, <3>2, KeyFacts DEF ReadIdentity
  <2>2. TileKey(m)' = TileKey(m) \cup {KeyOf(Session(m))}
    <3> DEFINE identity == [key |-> key[m], context |-> partial[key[m]].context]
    <3>1. made'[m] = made[m] \cup {identity} /\ identity.key = key[m]
      BY <1>0, <1>5 DEF ReadIdentity
    <3> HIDE DEF identity
    <3> QED BY <2>1, <3>1 DEF TileKey
  <2> QED BY <1>0, <1>5, <2>1, <2>2, SessionDone DEF ReadIdentity, combine
<1>6. CASE Resume(m)
  BY <1>0, <1>6, StackFaithful DEF Resume, Goto, combine, Steps, Whole
<1>7. CASE Reopen(m)
  <2>1. base[m] \in 1..(Len(key[m]) - 1) /\ SubSeq(key[m], 1, base[m]) \in DOMAIN context
    BY <1>0, <1>7 DEF Reopen, Standing
  <2>2. stack'[m] = SubSeq(key[m], 1, base[m])
    BY <1>0, <1>7, <2>1 DEF Reopen, FaithfulInv, StoredIsStepOutput
  <2>3. next'[m] = base[m] + 1
    BY <1>0, <1>7 DEF Reopen
  <2>4. next'[m] <= Len(key[m]) + 1 /\ next'[m] - 1 = base[m]
    BY <1>0, <2>1, <2>3
  <2> QED BY <1>0, <1>7, <2>2, <2>4, StackFaithful DEF Reopen, Goto, combine, Steps, Whole
<1>8. CASE Open(m)
  <2>1. stack'[m] = SubSeq(key[m], 1, 0) /\ next'[m] = 1
    BY <1>0, <1>8, SubSeqEmpty DEF Open
  <2> QED BY <1>0, <1>8, <2>1, StackFaithful DEF Open, Goto, combine, Steps, Whole
<1>9. CASE Push(m)
  <2>1. next[m] \in 1..Len(key[m])
    BY <1>0, <1>1, <1>9 DEF Push
  <2>2. Content(Session(m)[next[m]]) = key[m][next[m]]
    <3>1. Session(m) \in Seq(Lights) /\ key[m] = KeyOf(Session(m))
          /\ next[m] \in 1..Len(Session(m))
      BY <1>1, <1>9, <2>1 DEF Push
    <3> QED BY <3>1, KeyFacts, ContentsAreFirst DEF RunInv
  <2>3. stack'[m] = Append(SubSeq(key[m], 1, next[m] - 1), key[m][next[m]])
    BY <1>0, <1>9, <2>2 DEF Push, Faithful
  <2>4. stack'[m] = SubSeq(key[m], 1, next[m])
    BY <1>0, <2>1, <2>3, PrefixGrows
  <2>5. next'[m] = next[m] + 1 /\ next'[m] <= Len(key[m]) + 1 /\ next'[m] - 1 = next[m]
    BY <1>0, <1>9, <2>1 DEF Push
  <2> QED BY <1>0, <1>9, <2>4, <2>5, StackFaithful DEF Push, combine, Steps, Whole
<1>10. ASSUME pc[m] = "push", next[m] > Len(Session(m))
       PROVE  stack[m] = key[m] /\ (Accepts(Session(m)) <=> ~AcceptsNone(m))
  <2>1. next[m] - 1 = Len(key[m])
    BY <1>0, <1>1, <1>10 DEF Faithful
  <2>2. stack[m] = key[m]
    BY <1>0, <1>10, <2>1, SubSeqFull DEF Faithful, Frames
  <2> QED BY <1>1, <1>10, <2>2, KeyFacts DEF AcceptsNone
<1>11. CASE Nothing(m)
  <2>1. ~Accepts(Session(m)) /\ TileKey(m)' = TileKey(m)
    BY <1>10, <1>11 DEF Nothing, TileKey
  <2> QED BY <1>0, <1>11, <2>1, SessionDone DEF Nothing, combine
<1>12. CASE SaveAside(m)
  <2>1. stack[m] = key[m] /\ Accepts(Session(m))
    BY <1>10, <1>12 DEF SaveAside
  <2>2. aside'[m] # None => aside'[m].frames = key[m]
    BY <1>0, <1>12, <2>1 DEF SaveAside
  <2> QED BY <1>0, <1>12, <2>1, <2>2, StackFaithful
         DEF SaveAside, Goto, combine, Steps, Whole
<1>13. ASSUME pc[m] \in Whole, UNCHANGED <<plan, index, key, stack, aside, made, left, sum, outcome>>,
              pc'[m] \in Whole \cup {"identity"}
       PROVE  Faithful(m)'
  BY <1>0, <1>13, StackFaithful DEF Faithful, Steps, Whole
<1>14. CASE Finish(m) \/ CheckContext(m) \/ PlaceContext(m)
  BY <1>0, <1>13, <1>14 DEF Finish, CheckContext, PlaceContext, Goto, session, combine, Whole
<1>15. CASE RecordContext(m) \/ CheckPartial(m) \/ PlacePartial(m)
  BY <1>0, <1>13, <1>15 DEF RecordContext, CheckPartial, PlacePartial, Goto, session, combine, Whole
<1>16. CASE StackFails(m)
  <2>1. CASE Goto(m, "open") /\ UNCHANGED <<index, key, session, made, combine, outcome>>
    BY <1>0, <1>16, <2>1, StackFaithful DEF StackFails, Goto, session, combine, Steps, Whole
  <2>2. CASE End(m, "error", {})
    BY <1>16, <2>2, EndFaithful DEF StackFails
  <2> QED BY <1>16, <2>1, <2>2 DEF StackFails
<1>17. CASE FindTile(m)
  <2>1. pc[m] = "tile" /\ UNCHANGED plan /\ plan[m] \in Plans
        /\ TileKey(m) = KeysUpTo(plan[m], Len(plan[m].sessions))
    BY <1>0, <1>17 DEF FindTile, Faithful, Through, Standing
  <2>2. CASE End(m, "empty", {})
    BY <2>1, <2>2, EndFaithful
  <2>3. CASE TileKey(m) \in DOMAIN tile /\ End(m, "ok", tile[TileKey(m)])
    <3>1. tile[TileKey(m)] = SelfParts(TileKey(m))
      BY <2>3 DEF FaithfulInv, StoredIsStepOutput, SelfParts
    <3> QED BY <2>1, <2>3, <3>1, EndFaithful
  <2>4. CASE /\ left' = [left EXCEPT ![m] =
                  {[key |-> k, context |-> partial[k].context] : k \in TileKey(m)}]
             /\ sum' = [sum EXCEPT ![m] = {}]
             /\ Goto(m, "combine")
             /\ UNCHANGED <<index, key, session, made, outcome>>
    <3>1. {identity.key : identity \in left'[m]} = TileKey(m) /\ sum'[m] = {}
      <4> DEFINE ids == {[key |-> k, context |-> partial[k].context] : k \in TileKey(m)}
      <4>1. left'[m] = ids /\ sum'[m] = {}
        BY <1>0, <2>4
      <4>2. ASSUME NEW k \in TileKey(m) PROVE \E identity \in ids : identity.key = k
        <5> DEFINE identity == [key |-> k, context |-> partial[k].context]
        <5>1. identity \in ids /\ identity.key = k
          OBVIOUS
        <5> HIDE DEF ids, identity
        <5> QED BY <5>1
      <4>3. ASSUME NEW identity \in ids PROVE identity.key \in TileKey(m)
        OBVIOUS
      <4> HIDE DEF ids
      <4> QED BY <4>1, <4>2, <4>3
    <3>2. TileKey(m)' = TileKey(m) /\ pc'[m] = "combine"
          /\ Through(m)' = Len(plan[m].sessions)
      BY <1>0, <2>1, <2>4 DEF TileKey, Through, Goto
    <3> QED BY <1>0, <2>1, <2>4, <3>1, <3>2 DEF Faithful, Whole, SelfParts
  <2> QED BY <1>17, <2>2, <2>3, <2>4 DEF FindTile
<1>18. CASE Combine(m)
  <2>1. PICK identity \in left[m] :
          \/ /\ left' = [left EXCEPT ![m] = @ \ {identity}]
             /\ sum' = [sum EXCEPT ![m] = @ \cup
                  {[key |-> identity.key, frames |-> partial[identity.key].frames]}]
             /\ UNCHANGED <<pc, index, key, session, made, outcome>>
          \/ End(m, "changed", {})
    BY <1>18 DEF Combine
  <2>2. CASE End(m, "changed", {})
    BY <1>18, <2>2, EndFaithful DEF Combine
  <2>3. CASE /\ left' = [left EXCEPT ![m] = @ \ {identity}]
             /\ sum' = [sum EXCEPT ![m] = @ \cup
                  {[key |-> identity.key, frames |-> partial[identity.key].frames]}]
             /\ UNCHANGED <<pc, index, key, session, made, outcome>>
    <3>1. partial[identity.key].frames = identity.key
      BY <1>0 DEF Standing, FaithfulInv, StoredIsStepOutput
    <3> DEFINE part == [key |-> identity.key, frames |-> identity.key]
               Keys(ids) == {i.key : i \in ids}
    <3>2. left'[m] = left[m] \ {identity} /\ sum'[m] = sum[m] \cup {part}
      BY <1>0, <2>3, <3>1
    <3>3. part \in SelfParts(Keys(left[m]))
      BY DEF SelfParts
    <3>4. SelfParts(Keys(left[m])) = SelfParts(Keys(left[m] \ {identity})) \cup {part}
      BY DEF SelfParts
    <3>5. sum'[m] \cup SelfParts(Keys(left'[m])) = sum[m] \cup SelfParts(Keys(left[m]))
      BY <3>2, <3>4
    <3>6. TileKey(m)' = TileKey(m) /\ Through(m)' = Through(m) /\ UNCHANGED plan
      BY <1>18, <2>3 DEF Combine, TileKey, Through
    <3>7. pc[m] = "combine" /\ pc'[m] = "combine"
      BY <1>18, <2>3 DEF Combine
    <3> QED BY <1>0, <2>3, <3>5, <3>6, <3>7 DEF Faithful, Whole
  <2> QED BY <2>1, <2>2, <2>3
<1>19. CASE PlaceTile(m)
  <2>1. UNCHANGED plan /\ plan[m] \in Plans /\ left[m] = {} /\ pc[m] = "combine"
        /\ TileKey(m) = KeysUpTo(plan[m], Len(plan[m].sessions))
    BY <1>0, <1>19 DEF PlaceTile, Faithful, Through, Standing
  <2>2. sum[m] = SelfParts(TileKey(m))
    BY <1>0, <2>1 DEF Faithful, SelfParts
  <2> QED BY <1>19, <2>1, <2>2, EndFaithful DEF PlaceTile
<1>20. CASE Crash(m)
  BY <1>20, EndFaithful DEF Crash
<1> QED
  BY <1>2, <1>3, <1>4, <1>5, <1>6, <1>7, <1>8, <1>9, <1>11, <1>12, <1>14, <1>15, <1>16,
     <1>17, <1>18, <1>19, <1>20 DEF Run

LEMMA FaithfulStep ==
  RunInv /\ (rewrites = 0 => FaithfulInv) /\ [Next]_vars => (rewrites = 0 => FaithfulInv)'
<1> SUFFICES ASSUME RunInv, rewrites = 0 => FaithfulInv, [Next]_vars, rewrites' = 0
             PROVE  FaithfulInv'
  OBVIOUS
<1>1. rewrites = 0
  <2>1. rewrites \in Nat
    BY ChannelAssumption DEF RunInv, Typed, DiskTyped
  <2> QED BY <2>1, DiskChanges DEF Rewrite
<1>2. ASSUME NEW o \in Machines PROVE Faithful(o)'
  <2>1. CASE UNCHANGED own(o)
    <3>1. TileKey(o)' = TileKey(o) /\ Session(o)' = Session(o) /\ Through(o)' = Through(o)
      BY <2>1 DEF own, TileKey, Session, Through
    <3> QED BY <1>1, <2>1, <3>1 DEF own, FaithfulInv, Faithful
  <2>2. ASSUME NEW m \in Machines, Run(m) \/ Crash(m) \/ \E p \in Plans : Start(m, p)
        PROVE  Faithful(o)'
    BY <1>1, <2>1, <2>2, OwnFaithful, OthersUntouched DEF RunInv
  <2>3. CASE UNCHANGED vars
    BY <2>1, <2>3 DEF vars, own, session, combine
  <2>4. ASSUME NEW l \in Lights, Rewrite(l) PROVE Faithful(o)'
    BY <2>1, <2>4 DEF Rewrite, own, session, combine
  <2> QED BY <2>2, <2>3, <2>4 DEF Next
<1> QED BY <1>1, <1>2, StoredFaithfulStep DEF FaithfulInv

LEMMA FaithfulInvariant == Spec => [](rewrites = 0 => FaithfulInv)
<1>1. Init => FaithfulInv
  <2> SUFFICES ASSUME Init PROVE FaithfulInv
    OBVIOUS
  <2>1. DOMAIN partial = {} /\ DOMAIN context = {} /\ DOMAIN tile = {}
    BY DEF Init
  <2>2. \A m \in Machines : pc[m] = "idle" /\ outcome[m].how = "none"
    BY DEF Init
  <2> QED BY <2>1, <2>2 DEF FaithfulInv, StoredIsStepOutput, Faithful, Whole
<1> QED BY <1>1, FaithfulStep, RunInvariant, PTL DEF Spec

(* The inductive invariant, whole. *)
THEOREM ChannelInvariant == Spec => []ChannelInv
<1>1. CASE Links
  BY <1>1, RunInvariant, KeptInvariant, FaithfulInvariant, PTL DEF ChannelInv
<1>2. CASE ~Links
  <2>1. RunInv /\ (rewrites = 0 => FaithfulInv) => ChannelInv
    BY <1>2 DEF ChannelInv
  <2> QED BY <2>1, RunInvariant, FaithfulInvariant, PTL
<1> QED BY <1>1, <1>2

(* Until a light file is rewritten, what the store holds under a key is     *)
(* that key's step output, whatever machines race, extend one another's     *)
(* sessions or die, with hard links or without (session.rs:119-121,         *)
(* 236-250; identity.rs:74-75).  After a rewrite it need not be.            *)
THEOREM StoredIsFaithful == Spec => [](rewrites = 0 => StoredIsStepOutput)
<1>1. FaithfulInv => StoredIsStepOutput
  BY DEF FaithfulInv
<1> QED BY FaithfulInvariant, <1>1, PTL

(* Until a light file is rewritten, the tile a run returns is the one its   *)
(* plan calls for, however its sessions came about (channel.rs:75-85,       *)
(* 129-142).                                                                *)
THEOREM RunsAreFaithful == Spec => [](rewrites = 0 => TileIsThePlans)
<1>1. ASSUME RunInv, FaithfulInv, rewrites = 0 PROVE TileIsThePlans
  <2> SUFFICES ASSUME NEW m \in Machines, outcome[m].how = "ok"
               PROVE  LET sessions == {plan[m].sessions[j] : j \in DOMAIN plan[m].sessions}
                          accepting == {s \in sessions : \E i \in DOMAIN s : s[i] \in Accepted}
                          keys == {[i \in DOMAIN s |-> Content(s[i])] : s \in accepting}
                      IN outcome[m].tile = {[key |-> k, frames |-> k] : k \in keys}
    BY DEF TileIsThePlans
  <2> DEFINE sessions == {plan[m].sessions[j] : j \in DOMAIN plan[m].sessions}
             accepting == {s \in sessions : \E i \in DOMAIN s : s[i] \in Accepted}
             keys == {[i \in DOMAIN s |-> Content(s[i])] : s \in accepting}
             planned == KeysUpTo(plan[m], Len(plan[m].sessions))
  <2>1. plan[m] \in Plans /\ outcome[m].tile = SelfParts(planned)
    BY <1>1 DEF FaithfulInv, Faithful
  <2>2. DOMAIN plan[m].sessions = 1..Len(plan[m].sessions)
    BY <2>1, PlanFacts
  <2>3. ASSUME NEW s \in sessions
        PROVE  [i \in DOMAIN s |-> Content(s[i])] = KeyOf(s)
    <3>1. s \in Seq(Lights)
      BY <2>1, <2>2, PlanFacts
    <3>2. \A i \in DOMAIN s : Content(s[i]) = <<s[i], 0>>
      BY <1>1, <3>1, ContentsAreFirst DEF RunInv
    <3> QED BY <3>2 DEF KeyOf
  <2>4. accepting = {s \in sessions : Accepts(s)}
    BY DEF Accepts
  <2>5. keys = {KeyOf(s) : s \in accepting}
    BY <2>3
  <2>6. planned = {KeyOf(s) : s \in accepting}
    <3> HIDE DEF accepting
    <3>1. accepting = {plan[m].sessions[j] :
                         j \in {i \in 1..Len(plan[m].sessions) : Accepts(plan[m].sessions[i])}}
      BY <2>2, <2>4
    <3> QED BY <3>1 DEF KeysUpTo
  <2> HIDE DEF keys, planned
  <2>7. outcome[m].tile = {[key |-> k, frames |-> k] : k \in keys}
    BY <2>1, <2>5, <2>6 DEF SelfParts
  <2> QED BY <2>7 DEF keys
<1>2. RunInv /\ (rewrites = 0 => FaithfulInv) => (rewrites = 0 => TileIsThePlans)
  BY <1>1
<1> QED BY RunInvariant, FaithfulInvariant, <1>2, PTL
=============================================================================
