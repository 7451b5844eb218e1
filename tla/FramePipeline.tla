---------------------------- MODULE FramePipeline ----------------------------
(***************************************************************************)
(* The pipelined runs of `seiza-stacking`: several frames of a batch are   *)
(* prepared at once and integrated in order.                               *)
(*                                                                         *)
(* From a thread in no pool ("threads"), worker w prepares the frames w,   *)
(* w + workers, ... and hands each over on a channel of its own that holds *)
(* one; the coordinator takes them round-robin.                            *)
(*                                                                         *)
(* From a pool thread ("pool"), each frame of a window of `workers` is a   *)
(* task in that pool.  The calling thread takes the oldest: it runs a task *)
(* nobody has started itself, and otherwise helps with the pool's work     *)
(* while it waits, so a pool of one thread still gets through.  A task     *)
(* dropped before it starts never does.  A helper thread beside each task  *)
(* reads its file through, to have it in the page cache.                   *)
(*                                                                         *)
(* seiza-stacking/src/{pipeline,tasks}.rs.                                 *)
(***************************************************************************)
EXTENDS Naturals, Sequences, FiniteSets

CONSTANTS
  Paths,         \* files a batch may name
  Batches,       \* the batches: sequences of paths
  TakenBefore,   \* what the stack may have taken before the run: sets of paths
  WorkerCounts,  \* how many frames are prepared at once
  PoolThreads,   \* threads of the caller's pool, besides the caller's
  Caller         \* the calling thread

ASSUME PipelineAssumption ==
  /\ Batches \subseteq Seq(Paths)
  /\ TakenBefore \subseteq SUBSET Paths
  /\ WorkerCounts \subseteq Nat \ {0}
  /\ Caller \notin PoolThreads

VARIABLES
  mode,      \* "threads" or "pool"
  workers,
  pool,      \* the pool's threads that exist, besides the caller's
  batch, file, taken,         \* as in SequentialStack
  reported, stacked,          \* as in SequentialStack
  coord,     \* where the calling thread is
  why,       \* how the loop over the frames ended: "", "cancelled", "broken"
  panicking, \* the calling thread unwinds, or will at the end of a scope
  stop,      \* the flag workers look at before they open a frame
  open,      \* the coordinator still holds the receivers
  worker,    \* where each worker is
  turn,      \* the frame each worker is at
  queue,     \* the prepared frames in each worker's channel
  spawned,   \* how many frames of the batch the window has been given
  task,      \* what has become of each frame's task
  busy,      \* the tasks each pool thread runs, the innermost last
  helpers,   \* the frames whose files helper threads read through
  reads      \* how often each frame was read for its preparation

given == <<mode, workers, pool, batch, file, taken>>
threadVars == <<stop, open, worker, turn, queue>>
poolVars == <<spawned, task, busy, helpers>>
vars == <<given, reported, stacked, coord, why, panicking, threadVars, poolVars, reads>>

Frames == 1..Len(batch)
Workers == 0..(workers - 1)
Threads == pool \cup {Caller}

phase ==
  CASE coord = "callback" -> "callback"
    [] coord = "done" -> IF panicking THEN "panicked" ELSE "returned"
    [] coord \notin {"callback", "done"} /\ why # "" -> why
    [] OTHER -> "stack"

Stack == INSTANCE SequentialStack

Current == Len(reported) + 1
Repeats(i) == Stack!Repeats(i)
Outcome(i) == Stack!Outcome(i)
Owner(i) == (i - 1) % workers

TypeOK ==
  /\ reported \in Seq({"good", "unreadable", "duplicate"})
  /\ stacked \in Seq(Frames)
  /\ coord \in {"next", "inline", "wait", "callback", "stop", "drop", "join", "done"}
  /\ why \in {"", "cancelled", "broken"}
  /\ panicking \in BOOLEAN /\ stop \in BOOLEAN /\ open \in BOOLEAN
  /\ worker \in [Workers -> {"check", "prepare", "send", "gone", "panicked"}]
  /\ turn \in [Workers -> Nat]
  /\ queue \in [Workers -> Seq(Frames)]
  /\ \A w \in Workers : Len(queue[w]) <= 1
  /\ spawned \in 0..Len(batch)
  /\ task \in [Frames -> {"none", "queued", "running", "sent", "left", "gone"}]
  /\ busy \in [Threads -> Seq(Frames)]
  /\ helpers \in SUBSET Frames
  /\ reads \in [Frames -> Nat]

Init ==
  /\ mode \in {"threads", "pool"}
  /\ workers \in WorkerCounts
  /\ pool \in IF mode = "pool" THEN SUBSET PoolThreads ELSE {{}}
  /\ batch \in Batches
  /\ file \in [Paths -> {"good", "unreadable", "panics"}]
  /\ taken \in TakenBefore
  /\ workers <= Len(batch)
  /\ reported = <<>> /\ stacked = <<>>
  /\ coord = "next" /\ why = "" /\ panicking = FALSE
  /\ stop = FALSE /\ open = (mode = "threads")
  /\ worker = [w \in Workers |-> IF mode = "threads" THEN "check" ELSE "gone"]
  /\ turn = [w \in Workers |-> w + 1]
  /\ queue = [w \in Workers |-> <<>>]
  /\ spawned = 0
  /\ task = [i \in Frames |-> "none"]
  /\ busy = [t \in Threads |-> <<>>]
  /\ helpers = {}
  /\ reads = [i \in Frames |-> 0]

-----------------------------------------------------------------------------
(* Of either mode. *)

\* The prepared frame is integrated and its identity recorded, or its error
\* kept, and the caller is told, of the frame it is at.
Integrate(frame) ==
  /\ reported' = Append(reported, Outcome(frame))
  /\ stacked' = IF Outcome(frame) = "good" THEN Append(stacked, frame) ELSE stacked
  /\ coord' = "callback"

\* A panic reaches the calling thread in its loop over the frames.
Unwind ==
  /\ why' = "broken" /\ panicking' = TRUE
  /\ coord' = "drop"
  /\ UNCHANGED <<reported, stacked>>

\* The frame is read for its preparation: one call of the `read` of the run,
\* which may open its file more than once.
Read(frame) == reads' = [reads EXCEPT ![frame] = @ + 1]

AnswerYes ==
  /\ coord = "callback" /\ busy[Caller] = <<>>
  /\ coord' = "next"
  /\ UNCHANGED <<given, reported, stacked, why, panicking, threadVars, poolVars, reads>>

AnswerNo ==
  /\ coord = "callback" /\ busy[Caller] = <<>>
  /\ why' = "cancelled"
  /\ coord' = IF mode = "threads" THEN "stop" ELSE "drop"
  /\ UNCHANGED <<given, reported, stacked, panicking, threadVars, poolVars, reads>>

\* The callback panics: the unwinding skips the stop flag.
CallbackPanics ==
  /\ coord = "callback" /\ busy[Caller] = <<>>
  /\ Unwind
  /\ UNCHANGED <<given, threadVars, poolVars, reads>>

LoopEnds ==
  /\ coord = "next" /\ Current > Len(batch)
  /\ coord' = IF mode = "threads" THEN "stop" ELSE "drop"
  /\ UNCHANGED <<given, reported, stacked, why, panicking, threadVars, poolVars, reads>>

-----------------------------------------------------------------------------
(* Threads: the workers. *)

\* The stop flag is looked at before the open; a repeat is refused unread.
Check(w) ==
  /\ worker[w] = "check"
  /\ IF stop \/ turn[w] > Len(batch)
       THEN worker' = [worker EXCEPT ![w] = "gone"] /\ UNCHANGED reads
       ELSE IF Repeats(turn[w])
         THEN worker' = [worker EXCEPT ![w] = "send"] /\ UNCHANGED reads
         ELSE worker' = [worker EXCEPT ![w] = "prepare"] /\ Read(turn[w])
  /\ UNCHANGED <<given, reported, stacked, coord, why, panicking, stop, open, turn, queue,
                 poolVars>>

\* The frame is read and prepared, or an error; a panic ends the thread, and its
\* sender goes with it.
Prepare(w) ==
  /\ worker[w] = "prepare"
  /\ worker' = [worker EXCEPT
       ![w] = IF Outcome(turn[w]) = "panics" THEN "panicked" ELSE "send"]
  /\ UNCHANGED <<given, reported, stacked, coord, why, panicking, stop, open, turn, queue,
                 poolVars, reads>>

\* Mutant of Send: the channel is unbounded.
SendUnbounded(w) ==
  /\ worker[w] = "send" /\ open
  /\ queue' = [queue EXCEPT ![w] = Append(@, turn[w])]
  /\ turn' = [turn EXCEPT ![w] = @ + workers]
  /\ worker' = [worker EXCEPT ![w] = "check"]
  /\ UNCHANGED <<given, reported, stacked, coord, why, panicking, stop, open, poolVars, reads>>

\* A full channel blocks the worker.
Send(w) ==
  /\ worker[w] = "send" /\ open /\ queue[w] = <<>>
  /\ queue' = [queue EXCEPT ![w] = Append(@, turn[w])]
  /\ turn' = [turn EXCEPT ![w] = @ + workers]
  /\ worker' = [worker EXCEPT ![w] = "check"]
  /\ UNCHANGED <<given, reported, stacked, coord, why, panicking, stop, open, poolVars, reads>>

\* The receivers are gone, before the send or while it was blocked.
SendFails(w) ==
  /\ worker[w] = "send" /\ ~open
  /\ worker' = [worker EXCEPT ![w] = "gone"]
  /\ UNCHANGED <<given, reported, stacked, coord, why, panicking, stop, open, turn, queue,
                 poolVars, reads>>

WorkerStep(w) == Check(w) \/ Prepare(w) \/ Send(w) \/ SendFails(w)

(* Threads: the coordinator. *)

\* Mutant of Receive: whichever frame is ready is taken, whoever's turn it is.
ReceiveAny ==
  /\ mode = "threads" /\ coord = "next" /\ Current <= Len(batch)
  /\ \E w \in Workers :
       /\ queue[w] # <<>>
       /\ Integrate(Head(queue[w]))
       /\ queue' = [queue EXCEPT ![w] = Tail(@)]
  /\ UNCHANGED <<given, why, panicking, stop, open, worker, turn, poolVars, reads>>

Receive ==
  /\ mode = "threads" /\ coord = "next" /\ Current <= Len(batch)
  /\ LET w == Owner(Current) IN
       /\ queue[w] # <<>>
       /\ Integrate(Head(queue[w]))
       /\ queue' = [queue EXCEPT ![w] = Tail(@)]
  /\ UNCHANGED <<given, why, panicking, stop, open, worker, turn, poolVars, reads>>

\* The worker the next frame is owed by is gone, and its channel is empty.
ReceiveFails ==
  /\ mode = "threads" /\ coord = "next" /\ Current <= Len(batch)
  /\ queue[Owner(Current)] = <<>>
  /\ worker[Owner(Current)] \in {"gone", "panicked"}
  /\ why' = "broken"
  /\ coord' = "stop"
  /\ UNCHANGED <<given, reported, stacked, panicking, threadVars, poolVars, reads>>

RaiseStop ==
  /\ coord = "stop"
  /\ stop' = TRUE
  /\ coord' = "drop"
  /\ UNCHANGED <<given, reported, stacked, why, panicking, open, worker, turn, queue,
                 poolVars, reads>>

\* Mutant of DropReceivers: the workers are joined before the receivers go.
DropReceiversLater ==
  /\ mode = "threads" /\ coord = "drop"
  /\ coord' = "join"
  /\ UNCHANGED <<given, reported, stacked, why, panicking, threadVars, poolVars, reads>>

DropReceivers ==
  /\ mode = "threads" /\ coord = "drop"
  /\ open' = FALSE
  /\ queue' = [w \in Workers |-> <<>>]
  /\ coord' = "join"
  /\ UNCHANGED <<given, reported, stacked, why, panicking, stop, worker, turn, poolVars, reads>>

\* Every worker is joined, and a panic of any is raised again.
JoinWorkers ==
  /\ coord = "join"
  /\ \A w \in Workers : worker[w] \in {"gone", "panicked"}
  /\ panicking' = (panicking \/ \E w \in Workers : worker[w] = "panicked")
  /\ coord' = "done"
  /\ UNCHANGED <<given, reported, stacked, why, threadVars, poolVars, reads>>

-----------------------------------------------------------------------------
(* Pool: the calling thread. *)

\* It is in its own code, and not in a task it helps with.
Free == mode = "pool" /\ busy[Caller] = <<>>

\* Mutant of WindowIsFull: one frame more than there are workers.
WindowIsOver == spawned = Len(batch) \/ spawned - Len(reported) > workers

WindowIsFull == spawned = Len(batch) \/ spawned - Len(reported) >= workers

\* The window is given one more frame: a task and a helper, but for a repeat.
Spawn ==
  /\ Free /\ coord = "next" /\ Current <= Len(batch) /\ ~WindowIsFull
  /\ spawned' = spawned + 1
  /\ task' = [task EXCEPT ![spawned'] = IF Repeats(spawned') THEN "gone" ELSE "queued"]
  /\ helpers' = helpers \cup (IF Repeats(spawned') THEN {} ELSE {spawned'})
  /\ UNCHANGED <<given, reported, stacked, coord, why, panicking, threadVars, busy, reads>>

Refuse ==
  /\ Free /\ coord = "next" /\ Current <= Len(batch) /\ WindowIsFull
  /\ Repeats(Current)
  /\ Integrate(Current)
  /\ UNCHANGED <<given, why, panicking, threadVars, poolVars, reads>>

\* Mutant of JoinTakes: the task stays where a pool thread finds it.
JoinBorrows ==
  /\ Free /\ coord = "next" /\ Current <= Len(batch) /\ WindowIsFull
  /\ task[Current] = "queued"
  /\ Read(Current)
  /\ coord' = "inline"
  /\ UNCHANGED <<given, reported, stacked, why, panicking, threadVars, poolVars>>

\* `Task::join` takes the task if nobody has, and runs it here.
JoinTakes ==
  /\ Free /\ coord = "next" /\ Current <= Len(batch) /\ WindowIsFull
  /\ task[Current] = "queued"
  /\ task' = [task EXCEPT ![Current] = "running"]
  /\ Read(Current)
  /\ coord' = "inline"
  /\ UNCHANGED <<given, reported, stacked, why, panicking, threadVars, spawned, busy, helpers>>

JoinWaits ==
  /\ Free /\ coord = "next" /\ Current <= Len(batch) /\ WindowIsFull
  /\ task[Current] \in {"running", "sent"}
  /\ coord' = "wait"
  /\ UNCHANGED <<given, reported, stacked, why, panicking, threadVars, poolVars, reads>>

\* What the joiner ran itself, or was sent, is integrated; a panic is raised.
Collect ==
  /\ Free /\ (coord = "inline" \/ (coord = "wait" /\ task[Current] = "sent"))
  /\ task' = [task EXCEPT ![Current] = "gone"]
  /\ IF Outcome(Current) = "panics"
       THEN Unwind
       ELSE Integrate(Current) /\ UNCHANGED <<why, panicking>>
  /\ UNCHANGED <<given, threadVars, spawned, busy,
                 helpers, reads>>

\* The tasks still in the window, which its end drops one by one.
Undropped == {i \in 1..spawned : task[i] \in {"queued", "running", "sent"}}

Oldest == CHOOSE i \in Undropped : \A j \in Undropped : i <= j

\* Mutant of DropTask: what a task sent is dropped with it, a panic too.
DropTaskUnseen ==
  /\ Free /\ coord = "drop" /\ Undropped # {}
  /\ task[Oldest] = "running" => panicking
  /\ task' = [task EXCEPT ![Oldest] = IF @ = "running" THEN "left" ELSE "gone"]
  /\ UNCHANGED <<given, reported, stacked, coord, why, panicking, threadVars, spawned, busy,
                 helpers, reads>>

\* One that has not started never will; one that has is waited for, and its
\* panic raised, unless the thread unwinds already.
DropTask ==
  /\ Free /\ coord = "drop" /\ Undropped # {}
  /\ task[Oldest] = "running" => panicking
  /\ task' = [task EXCEPT ![Oldest] = IF @ = "running" THEN "left" ELSE "gone"]
  /\ panicking' = (panicking \/ (task[Oldest] = "sent" /\ Outcome(Oldest) = "panics"))
  /\ UNCHANGED <<given, reported, stacked, coord, why, threadVars, spawned, busy,
                 helpers, reads>>

\* The scopes end with the last of the helpers and of the tasks that run.
ScopeEnds ==
  /\ Free /\ coord = "drop" /\ Undropped = {}
  /\ helpers = {}
  /\ \A t \in Threads : busy[t] = <<>>
  /\ coord' = "done"
  /\ UNCHANGED <<given, reported, stacked, why, panicking, threadVars, poolVars, reads>>

(* Pool: any thread of it. *)

\* A thread runs a queued task: an idle one, one that waits for Rayon work of
\* the task it runs, or the caller while it waits for a task, for Rayon work of one
\* it runs, or for that of an integration (before the callback is called).
TakeTask(t, i) ==
  /\ mode = "pool" /\ task[i] = "queued"
  /\ t = Caller => \/ coord \in {"inline", "wait", "callback"}
                   \/ coord = "drop" /\ ~panicking /\ task[Oldest] = "running"
  /\ task' = [task EXCEPT ![i] = "running"]
  /\ busy' = [busy EXCEPT ![t] = Append(@, i)]
  /\ Read(i)
  /\ UNCHANGED <<given, reported, stacked, coord, why, panicking, threadVars, spawned, helpers>>

\* The outcome, a panic included, is sent; a panic nobody is left to receive is
\* the scope's, which raises it when it ends.
FinishTask(t) ==
  /\ busy[t] # <<>>
  /\ LET i == busy[t][Len(busy[t])] IN
       /\ task' = [task EXCEPT ![i] = IF @ = "left" THEN "gone" ELSE "sent"]
       /\ panicking' = (panicking \/ (task[i] = "left" /\ Outcome(i) = "panics"))
  /\ busy' = [busy EXCEPT ![t] = SubSeq(@, 1, Len(@) - 1)]
  /\ UNCHANGED <<given, reported, stacked, coord, why, threadVars, spawned, helpers, reads>>

\* A helper has read its file to the end, or to an error: before the task's own
\* read, beside it, or when the task is long collected or dropped.
ReadThrough(i) ==
  /\ i \in helpers
  /\ helpers' = helpers \ {i}
  /\ UNCHANGED <<given, reported, stacked, coord, why, panicking, threadVars, spawned, task,
                 busy, reads>>

-----------------------------------------------------------------------------
Loop ==
  \/ LoopEnds \/ Receive \/ ReceiveFails \/ RaiseStop \/ DropReceivers \/ JoinWorkers
  \/ Spawn \/ Refuse \/ JoinTakes \/ JoinWaits \/ Collect \/ DropTask \/ ScopeEnds

Callback == AnswerYes \/ AnswerNo \/ CallbackPanics

Next ==
  \/ Loop \/ Callback
  \/ \E w \in Workers : WorkerStep(w)
  \/ \E t \in Threads : FinishTask(t) \/ \E i \in Frames : TakeTask(t, i)
  \/ \E i \in Frames : ReadThrough(i)

Spec == Init /\ [][Next]_vars

\* Reads and callbacks end, the threads are run; nothing makes an idle thread of
\* the pool take a task.
FairSpec ==
  /\ Spec
  /\ WF_vars(Loop) /\ WF_vars(Callback)
  /\ \A w \in UNION {0..(n - 1) : n \in WorkerCounts} :
       WF_vars(w \in Workers /\ WorkerStep(w))
  /\ \A t \in PoolThreads \cup {Caller} : WF_vars(t \in Threads /\ FinishTask(t))
  /\ WF_vars(\E i \in Frames : ReadThrough(i))

-----------------------------------------------------------------------------
(* Whatever runs ahead, and wherever, the caller sees a stack fed one frame at
   a time in the order of the batch: each outcome once and in order, nothing
   after a cancel, a panic where that frame is reached (pipeline.rs:386-393,
   9-15).  A cancelled run may still raise the panic of a frame it had begun. *)
OneAtATime == Stack!Spec

(* Frames read beyond the one the coordinator is at: at most two a worker,
   one queued and one being built, and in a pool, that one included, one a task
   of the window (pipeline.rs:396-405, 635-639), which is what the memory budget
   counts on. *)
AheadIsBounded ==
  Cardinality({i \in Frames : reads[i] > 0 /\ i > Len(reported)})
    <= IF mode = "threads" THEN 2 * workers ELSE workers

(* A frame is read and prepared once, by whichever of the joiner and the pool's
   threads got to it, and never once its task was given up or its frame reported;
   a repeat is never read, nor read through (pipeline.rs:330-333, tasks.rs:152-156,
   170-174). *)
NoWastedRead ==
  [][\A i \in Frames :
       /\ reads'[i] # reads[i] =>
            reads[i] = 0 /\ ~Repeats(i) /\ i > Len(reported) /\ task[i] # "gone"
       /\ i \in helpers' => ~Repeats(i)]_vars

(* A panic in a frame that was begun is raised to the caller of the run, though
   nobody may be left to collect that frame (pipeline.rs:716-729, tasks.rs:176-180,
   203-214). *)
NoPanicIsLost ==
  coord = "done" /\ (\E i \in Frames : reads[i] > 0 /\ Outcome(i) = "panics") => panicking

(* A run ends: after a panic of a worker, a task or the callback, after a cancel
   with every channel full, and in a pool whose only thread is the caller's
   (pipeline.rs:17-22, tasks.rs:19-22). *)
RunEnds == <>(coord = "done")
=============================================================================
