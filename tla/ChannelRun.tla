------------------------------ MODULE ChannelRun ------------------------------
(***************************************************************************)
(* `run_channel` and `SessionStep::run_into` of `seiza-pipeline`, run by   *)
(* several machines against one step store: each session's step is reused, *)
(* extended from the stored context of its first lights, or stacked        *)
(* afresh, and the partial stacks are combined into a tile.                *)
(*                                                                         *)
(* A file's digest is its content: a light is who it is and how often it   *)
(* was rewritten, a session's key the sequence of its lights' contents and *)
(* a tile's key the set of its sessions' keys.  A stack is the sequence of *)
(* contents pushed into it, in order: what its pixels depend on.           *)
(*                                                                         *)
(* Placing a file is put_file's check and its placement, two steps, as     *)
(* StepStore details them.                                                 *)
(*                                                                         *)
(* seiza-pipeline/src/{channel,session}.rs.                                *)
(***************************************************************************)
EXTENDS Naturals, Sequences, FiniteSets

CONSTANTS
  Machines,    \* whoever runs plans against the store
  Lights,      \* light frames on disk, which every machine reads
  Plans,       \* the plans a machine may run: [sessions, keep], the sessions
               \* sequences of lights, keep whether contexts are kept
  Accepted,    \* the lights a stack accepts; the others are turned away
  Clipped,     \* whether sessions are reintegrated from their files
  Links,       \* whether the store's file system has hard links
  MaxRuns,     \* bound: runs in all
  MaxRewrites, \* bound: times a light file is rewritten, in all
  None

ASSUME ChannelAssumption ==
  /\ \A p \in Plans :
       /\ p.sessions \in Seq(Seq(Lights)) \ {<<>>}
       /\ \A i \in 1..Len(p.sessions) : p.sessions[i] # <<>>
       /\ p.keep \in BOOLEAN
  /\ Accepted \subseteq Lights
  /\ Clipped \in BOOLEAN /\ Links \in BOOLEAN
  /\ MaxRuns \in Nat /\ MaxRewrites \in Nat

VARIABLES
  disk,      \* how often each light file was rewritten
  partial,   \* the store's partial stacks by session key: frames, and the
             \* context whose digest its cards record, or None
  context,   \* the store's live-stack contexts by session key
  tile,      \* the store's tile stacks by tile key
  pc,        \* where each machine is
  plan,      \* the plan it runs
  index,     \* the session it is at
  key,       \* that session's planned key
  base,      \* the stored prefix it extends, 0 when it stacks afresh
  next,      \* the next light to push
  stack,     \* the live stack's frames
  aside,     \* the context saved aside, or None
  recorded,  \* the context to record in the partial stack's cards, or None
  made,      \* the identities of the plan's partial stacks so far: key, context
  left,      \* the identities still to be combined
  sum,       \* the stacks combined
  outcome,   \* how its last run ended, with the tile it returned
  runs, rewrites

store   == <<partial, context, tile>>
session == <<base, next, stack, aside, recorded>>
combine == <<left, sum>>
counts  == <<runs, rewrites>>
vars == <<disk, store, pc, plan, index, key, session, made, combine, outcome, counts>>
-----------------------------------------------------------------------------
Content(l) == <<l, disk[l]>>
Stored(files, k, file) ==
  [x \in DOMAIN files \cup {k} |-> IF x = k THEN file ELSE files[x]]

\* Mutant of Place: a copy already there is replaced.
PlaceOver(files, k, file) == Stored(files, k, file)

\* put_file's placement: a link keeps the copy that got there first, a rename
\* replaces it.
Place(files, k, file) ==
  IF Links /\ k \in DOMAIN files THEN files ELSE Stored(files, k, file)

Session(m) == plan[m].sessions[index[m]]
Goto(m, step) == pc' = [pc EXCEPT ![m] = step]

\* The run returns or dies, and what it held goes with it.
End(m, how, result) ==
  /\ Goto(m, "idle")
  /\ outcome' = [outcome EXCEPT ![m] = [how |-> how, tile |-> result]]
  /\ index' = [index EXCEPT ![m] = 1]
  /\ key' = [key EXCEPT ![m] = <<>>]
  /\ base' = [base EXCEPT ![m] = 0]
  /\ next' = [next EXCEPT ![m] = 1]
  /\ stack' = [stack EXCEPT ![m] = <<>>]
  /\ aside' = [aside EXCEPT ![m] = None]
  /\ recorded' = [recorded EXCEPT ![m] = None]
  /\ made' = [made EXCEPT ![m] = {}]
  /\ left' = [left EXCEPT ![m] = {}]
  /\ sum' = [sum EXCEPT ![m] = {}]

\* Mutant of NextSession: one session too many.
NextSessionPastLast(m) ==
  IF index[m] <= Len(plan[m].sessions)
  THEN Goto(m, "plan") /\ index' = [index EXCEPT ![m] = @ + 1]
  ELSE Goto(m, "tile") /\ UNCHANGED index

\* On to the plan's next session, or to the tile.
NextSession(m) ==
  IF index[m] < Len(plan[m].sessions)
  THEN Goto(m, "plan") /\ index' = [index EXCEPT ![m] = @ + 1]
  ELSE Goto(m, "tile") /\ UNCHANGED index

Init ==
  /\ disk = [l \in Lights |-> 0]
  /\ partial = <<>> /\ context = <<>> /\ tile = <<>>
  /\ pc = [m \in Machines |-> "idle"]
  /\ plan = [m \in Machines |-> None]
  /\ index = [m \in Machines |-> 1]
  /\ key = [m \in Machines |-> <<>>]
  /\ base = [m \in Machines |-> 0]
  /\ next = [m \in Machines |-> 1]
  /\ stack = [m \in Machines |-> <<>>]
  /\ aside = [m \in Machines |-> None]
  /\ recorded = [m \in Machines |-> None]
  /\ made = [m \in Machines |-> {}]
  /\ left = [m \in Machines |-> {}]
  /\ sum = [m \in Machines |-> {}]
  /\ outcome = [m \in Machines |-> [how |-> "none", tile |-> {}]]
  /\ runs = 0 /\ rewrites = 0
-----------------------------------------------------------------------------
(* run_channel, up to a session's stacking. *)

Start(m, p) ==
  /\ pc[m] = "idle"
  /\ runs < MaxRuns
  /\ runs' = runs + 1
  /\ Goto(m, "plan")
  /\ plan' = [plan EXCEPT ![m] = p]
  /\ outcome' = [outcome EXCEPT ![m] = [how |-> "none", tile |-> {}]]
  /\ UNCHANGED <<disk, store, index, key, session, made, combine, rewrites>>

\* SessionStep::plan hashes every light before anything is stacked.
PlanSession(m) ==
  /\ pc[m] = "plan"
  /\ key' = [key EXCEPT ![m] = [i \in DOMAIN Session(m) |-> Content(Session(m)[i])]]
  /\ Goto(m, "find")
  /\ UNCHANGED <<disk, store, plan, index, session, made, combine, outcome, counts>>

FindPartial(m) ==
  /\ pc[m] = "find"
  /\ Goto(m, IF key[m] \in DOMAIN partial THEN "identity" ELSE "resume")
  /\ UNCHANGED <<disk, store, plan, index, key, session, made, combine, outcome, counts>>

\* The identity read back from the store for the tile.
ReadIdentity(m) ==
  /\ pc[m] = "identity"
  /\ made' = [made EXCEPT ![m] =
       @ \cup {[key |-> key[m], context |-> partial[key[m]].context]}]
  /\ NextSession(m)
  /\ UNCHANGED <<disk, store, plan, key, session, combine, outcome, counts>>
-----------------------------------------------------------------------------
(* run_into: reuse, extend or stack. *)

\* The lengths of the stored prefixes of a session that can be extended: held
\* with the very context they record.
Extendable(k) ==
  {n \in 1..(Len(k) - 1) :
     LET prefix == SubSeq(k, 1, n) IN
       /\ prefix \in DOMAIN partial
       /\ partial[prefix].context # None
       /\ prefix \in DOMAIN context
       /\ context[prefix] = partial[prefix].context}

Longest(lengths) == CHOOSE n \in lengths : \A o \in lengths : o <= n

Resume(m) ==
  /\ pc[m] = "resume"
  /\ \/ /\ key[m] \in DOMAIN partial
        /\ Goto(m, "identity")
        /\ UNCHANGED base
     \/ /\ key[m] \notin DOMAIN partial
        /\ plan[m].keep /\ Extendable(key[m]) # {}
        /\ base' = [base EXCEPT ![m] = Longest(Extendable(key[m]))]
        /\ Goto(m, "reopen")
     \/ /\ key[m] \notin DOMAIN partial
        /\ ~(plan[m].keep /\ Extendable(key[m]) # {})
        /\ Goto(m, "open")
        /\ UNCHANGED base
  /\ UNCHANGED <<disk, store, plan, index, key, next, stack, aside, recorded, made,
                 combine, outcome, counts>>

\* Mutant of Reopen: every light is pushed, those the context took too.
ReopenPushesAll(m) ==
  /\ pc[m] = "reopen"
  /\ stack' = [stack EXCEPT ![m] = context[SubSeq(key[m], 1, base[m])].frames]
  /\ next' = [next EXCEPT ![m] = 1]
  /\ Goto(m, "push")
  /\ UNCHANGED <<disk, store, plan, index, key, base, aside, recorded, made, combine,
                 outcome, counts>>

\* Opens the context again and gives it the lights after those it took.
Reopen(m) ==
  /\ pc[m] = "reopen"
  /\ stack' = [stack EXCEPT ![m] = context[SubSeq(key[m], 1, base[m])].frames]
  /\ next' = [next EXCEPT ![m] = base[m] + 1]
  /\ Goto(m, "push")
  /\ UNCHANGED <<disk, store, plan, index, key, base, aside, recorded, made, combine,
                 outcome, counts>>

Open(m) ==
  /\ pc[m] = "open"
  /\ stack' = [stack EXCEPT ![m] = <<>>]
  /\ next' = [next EXCEPT ![m] = 1]
  /\ base' = [base EXCEPT ![m] = 0]
  /\ Goto(m, "push")
  /\ UNCHANGED <<disk, store, plan, index, key, aside, recorded, made, combine,
                 outcome, counts>>

\* push_fits reads the light's file again.
Push(m) ==
  /\ pc[m] = "push"
  /\ next[m] <= Len(Session(m))
  /\ stack' = [stack EXCEPT ![m] = Append(@, Content(Session(m)[next[m]]))]
  /\ next' = [next EXCEPT ![m] = @ + 1]
  /\ UNCHANGED <<disk, store, pc, plan, index, key, base, aside, recorded, made,
                 combine, outcome, counts>>

\* Mutant of AcceptsNone: only the last light pushed is looked at.
AcceptsNoneLast(m) == stack[m][Len(stack[m])][1] \notin Accepted

AcceptsNone(m) == \A i \in DOMAIN stack[m] : stack[m][i][1] \notin Accepted

\* store_stacked: a session that accepted no light stores nothing.
Nothing(m) ==
  /\ pc[m] = "push"
  /\ next[m] > Len(Session(m)) /\ AcceptsNone(m)
  /\ NextSession(m)
  /\ UNCHANGED <<disk, store, plan, key, session, made, combine, outcome, counts>>

\* The context is saved aside before the partial stack is made.
SaveAside(m) ==
  /\ pc[m] = "push"
  /\ next[m] > Len(Session(m)) /\ ~AcceptsNone(m)
  /\ aside' = [aside EXCEPT ![m] =
       IF plan[m].keep THEN [frames |-> stack[m], by |-> m] ELSE None]
  /\ recorded' = [recorded EXCEPT ![m] = None]
  /\ Goto(m, "finish")
  /\ UNCHANGED <<disk, store, plan, index, key, base, next, stack, made, combine,
                 outcome, counts>>

\* Reintegration reads every light again and refuses one that changed since it
\* was pushed.
Finish(m) ==
  /\ pc[m] = "finish"
  /\ Clipped => \A i \in DOMAIN stack[m] : stack[m][i] = Content(stack[m][i][1])
  /\ Goto(m, IF aside[m] = None THEN "put" ELSE "keep")
  /\ UNCHANGED <<disk, store, plan, index, key, session, made, combine, outcome, counts>>

\* put_file of the context: kept when one is there ...
CheckContext(m) ==
  /\ pc[m] = "keep"
  /\ Goto(m, IF key[m] \in DOMAIN context THEN "digest" ELSE "place")
  /\ UNCHANGED <<disk, store, plan, index, key, session, made, combine, outcome, counts>>

\* ... or placed.
PlaceContext(m) ==
  /\ pc[m] = "place"
  /\ context' = Place(context, key[m], aside[m])
  /\ Goto(m, "digest")
  /\ UNCHANGED <<disk, partial, tile, plan, index, key, session, made, combine,
                 outcome, counts>>

\* Mutant of RecordContext: the digest of the context this run saved.
RecordOwnContext(m) ==
  /\ pc[m] = "digest"
  /\ recorded' = [recorded EXCEPT ![m] = aside[m]]
  /\ Goto(m, "put")
  /\ UNCHANGED <<disk, store, plan, index, key, base, next, stack, aside, made, combine,
                 outcome, counts>>

\* The cards record the digest of the context the store holds.
RecordContext(m) ==
  /\ pc[m] = "digest"
  /\ recorded' = [recorded EXCEPT ![m] = context[key[m]]]
  /\ Goto(m, "put")
  /\ UNCHANGED <<disk, store, plan, index, key, base, next, stack, aside, made, combine,
                 outcome, counts>>

CheckPartial(m) ==
  /\ pc[m] = "put"
  /\ Goto(m, IF key[m] \in DOMAIN partial THEN "identity" ELSE "place_partial")
  /\ UNCHANGED <<disk, store, plan, index, key, session, made, combine, outcome, counts>>

PlacePartial(m) ==
  /\ pc[m] = "place_partial"
  /\ partial' = Place(partial, key[m], [frames |-> stack[m], context |-> recorded[m]])
  /\ Goto(m, "identity")
  /\ UNCHANGED <<disk, context, tile, plan, index, key, session, made, combine,
                 outcome, counts>>

\* Mutant of StackFails: any failure is stacked afresh.
StackFailsRetries(m) ==
  /\ pc[m] \in {"reopen", "open", "push", "finish", "keep", "place", "digest", "put",
                "place_partial"}
  /\ Goto(m, "open")
  /\ UNCHANGED <<disk, store, plan, index, key, session, made, combine, outcome, counts>>

\* An error while extending falls back to stacking afresh; while stacking, it
\* ends the run.
StackFails(m) ==
  /\ pc[m] \in {"reopen", "open", "push", "finish", "keep", "place", "digest", "put",
                "place_partial"}
  /\ \/ /\ base[m] > 0 /\ pc[m] # "open"
        /\ Goto(m, "open")
        /\ UNCHANGED <<index, key, session, made, combine, outcome>>
     \/ /\ base[m] = 0 \/ pc[m] = "open"
        /\ End(m, "error", {})
  /\ UNCHANGED <<disk, store, plan, counts>>
-----------------------------------------------------------------------------
(* The rest of run_channel: the partial stacks combined. *)

TileKey(m) == {identity.key : identity \in made[m]}

\* Nothing to combine; or the tile is held; or the partial stacks' headers are
\* read again, to combine them.
FindTile(m) ==
  /\ pc[m] = "tile"
  /\ \/ /\ made[m] = {}
        /\ End(m, "empty", {})
     \/ /\ made[m] # {} /\ TileKey(m) \in DOMAIN tile
        /\ End(m, "ok", tile[TileKey(m)])
     \/ /\ made[m] # {} /\ TileKey(m) \notin DOMAIN tile
        /\ left' = [left EXCEPT ![m] =
             {[key |-> k, context |-> partial[k].context] : k \in TileKey(m)}]
        /\ sum' = [sum EXCEPT ![m] = {}]
        /\ Goto(m, "combine")
        /\ UNCHANGED <<index, key, session, made, outcome>>
  /\ UNCHANGED <<disk, store, plan, counts>>

\* One partial stack read whole and added, unless its identity is no longer the
\* one its header gave.
Combine(m) ==
  /\ pc[m] = "combine"
  /\ \E identity \in left[m] :
       LET held == partial[identity.key] IN
       \/ /\ held.context = identity.context
          /\ left' = [left EXCEPT ![m] = @ \ {identity}]
          /\ sum' = [sum EXCEPT ![m] = @ \cup
               {[key |-> identity.key, frames |-> held.frames]}]
          /\ UNCHANGED <<pc, index, key, session, made, outcome>>
       \/ /\ held.context # identity.context
          /\ End(m, "changed", {})
  /\ UNCHANGED <<disk, store, plan, counts>>

\* put of the tile: the run returns the stack it made, whichever copy is kept.
PlaceTile(m) ==
  /\ pc[m] = "combine" /\ left[m] = {}
  /\ tile' = Place(tile, TileKey(m), sum[m])
  /\ End(m, "ok", sum[m])
  /\ UNCHANGED <<disk, partial, context, plan, counts>>
-----------------------------------------------------------------------------
Crash(m) ==
  /\ pc[m] # "idle"
  /\ End(m, "died", {})
  /\ UNCHANGED <<disk, store, plan, counts>>

\* Another program writes a light's file again.
Rewrite(l) ==
  /\ rewrites < MaxRewrites
  /\ rewrites' = rewrites + 1
  /\ disk' = [disk EXCEPT ![l] = @ + 1]
  /\ UNCHANGED <<store, pc, plan, index, key, session, made, combine, outcome, runs>>

Run(m) ==
  \/ PlanSession(m) \/ FindPartial(m) \/ ReadIdentity(m)
  \/ Resume(m) \/ Reopen(m) \/ Open(m) \/ Push(m) \/ Nothing(m)
  \/ SaveAside(m) \/ Finish(m) \/ CheckContext(m) \/ PlaceContext(m)
  \/ RecordContext(m) \/ CheckPartial(m) \/ PlacePartial(m) \/ StackFails(m)
  \/ FindTile(m) \/ Combine(m) \/ PlaceTile(m)

Next ==
  \/ \E m \in Machines : Run(m) \/ Crash(m) \/ \E p \in Plans : Start(m, p)
  \/ \E l \in Lights : Rewrite(l)

Spec == Init /\ [][Next]_vars

(* A run that has begun goes on unless its process dies: straight-line code.*)
FairSpec == Spec /\ \A m \in Machines : WF_vars(Run(m))
-----------------------------------------------------------------------------
Frames == Seq(Lights \X (0..MaxRewrites))
Contexts == [frames : Frames, by : Machines]
Identities == [key : Frames, context : Contexts \cup {None}]
Parts == [key : Frames, frames : Frames]

TypeOK ==
  /\ disk \in [Lights -> 0..MaxRewrites]
  /\ \A k \in DOMAIN partial : /\ k \in Frames
                               /\ partial[k].frames \in Frames
                               /\ partial[k].context \in Contexts \cup {None}
  /\ \A k \in DOMAIN context : k \in Frames /\ context[k] \in Contexts
  /\ \A t \in DOMAIN tile : t \subseteq Frames /\ tile[t] \subseteq Parts
  /\ plan \in [Machines -> Plans \cup {None}]
  /\ \A m \in Machines :
       /\ plan[m] # None => index[m] \in 1..Len(plan[m].sessions)
       /\ {key[m], stack[m]} \subseteq Frames
       /\ {aside[m], recorded[m]} \subseteq Contexts \cup {None}
       /\ made[m] \cup left[m] \subseteq Identities
       /\ sum[m] \cup outcome[m].tile \subseteq Parts

(* "A store that holds a file under the key holds this step's output": what *)
(* is stored under a session's key is the stack of exactly its lights, in   *)
(* order, none twice and none left out, whether it was extended or stacked  *)
(* afresh; so is its context; and a tile holds exactly its partial stacks   *)
(* (session.rs:119-121, 236-250; identity.rs:74-75).                        *)
StoredIsStepOutput ==
  /\ \A k \in DOMAIN partial : partial[k].frames = k
  /\ \A k \in DOMAIN context : context[k].frames = k
  /\ \A t \in DOMAIN tile : tile[t] = {[key |-> k, frames |-> k] : k \in t}

(* A partial stack that records a context is extendable for good: the store *)
(* holds the very context whose digest its cards give, whoever stored       *)
(* either (session.rs:284-340, 346-361).                                    *)
RecordedContextIsKept ==
  \A k \in DOMAIN partial : partial[k].context # None =>
    k \in DOMAIN context /\ context[k] = partial[k].context

(* A run that succeeds returns the tile one machine stacking the plan alone *)
(* would make, however its sessions were shared, reused, extended, raced or *)
(* resumed after a crash: every session that accepts a light, once, even    *)
(* when the plan names it twice (channel.rs:75-85, 129-142).                *)
TileIsThePlans ==
  \A m \in Machines : outcome[m].how = "ok" =>
    LET sessions == {plan[m].sessions[j] : j \in DOMAIN plan[m].sessions}
        accepting == {s \in sessions : \E i \in DOMAIN s : s[i] \in Accepted}
        keys == {[i \in DOMAIN s |-> Content(s[i])] : s \in accepting}
    IN outcome[m].tile = {[key |-> k, frames |-> k] : k \in keys}

(* No partial stack changes under a run combining it: combine_files' check  *)
(* never fires (partial.rs:249-255).                                        *)
NothingChangesUnderfoot == \A m \in Machines : outcome[m].how # "changed"

(* A run ends: an extension that fails falls back to stacking afresh once,  *)
(* never in circles (session.rs:261-281).                                   *)
RunEnds == \A m \in Machines : pc[m] # "idle" ~> pc[m] = "idle"
=============================================================================
