-------------------------- MODULE FramePipelineProofs --------------------------
(***************************************************************************)
(* What holds of a pipelined run for any batch, any number of workers and  *)
(* any pool: the types, how far frames are read ahead, that none is read   *)
(* for nothing, that no panic is lost, and that the run is one of a stack  *)
(* fed one frame at a time.                                                *)
(***************************************************************************)
EXTENDS FramePipeline, FiniteSetTheorems, SequenceTheorems, WellFoundedInduction, TLAPS

\* What a run is given.
GivenInv ==
  /\ mode \in {"threads", "pool"}
  /\ workers \in Nat \ {0}
  /\ pool \subseteq PoolThreads
  /\ batch \in Seq(Paths)
  /\ file \in [Paths -> {"good", "unreadable", "panics"}]

(* What the calling thread's place says of how its loop ended.             *)
LoopInv ==
  /\ Len(reported) <= Len(batch)
  /\ coord \in {"next", "inline", "wait", "callback"} => why = ""
  /\ coord \in {"inline", "wait"} => mode = "pool" /\ Current <= spawned
  /\ coord \in {"stop", "join"} => mode = "threads"
  /\ why = "" => ~panicking
  /\ why = "" /\ coord \in {"stop", "drop", "join", "done"} => Len(reported) = Len(batch)
  /\ why = "broken" => panicking \/ \E w \in Workers : worker[w] = "panicked"
  /\ why = "cancelled" /\ panicking => \E i \in Current..Len(batch) : Outcome(i) = "panics"

\* The first frame of a worker's that is still to be received.
First(w) == IF queue[w] = <<>> THEN turn[w] ELSE turn[w] - workers

(* Each worker is at a frame of its own, at most two rounds ahead; while   *)
(* the receivers are held, its first one is of the round received now.     *)
WorkerInv(w) ==
  /\ Owner(turn[w]) = w
  /\ Current <= turn[w] /\ turn[w] <= Len(reported) + 2 * workers
  /\ open => First(w) \in Current..(Len(reported) + workers)
  /\ queue[w] # <<>> =>
       /\ open /\ queue[w] = <<turn[w] - workers>>
       /\ turn[w] - workers \in Frames /\ Outcome(turn[w] - workers) # "panics"
  /\ worker[w] \in {"prepare", "send", "panicked"} => turn[w] \in Frames
  /\ worker[w] = "send" => Outcome(turn[w]) # "panics"
  /\ worker[w] = "panicked" => Outcome(turn[w]) = "panics"
  /\ worker[w] = "gone" /\ open /\ ~stop => turn[w] > Len(batch)

(* A frame that was read is behind its worker, or at hand. *)
ReadByWorkers ==
  \A i \in Frames : reads[i] > 0 =>
    LET w == Owner(i) IN
      /\ i <= turn[w]
      /\ i = turn[w] => worker[w] # "check"
      /\ Outcome(i) = "panics" => i = turn[w] /\ worker[w] \in {"prepare", "panicked"}

ThreadsInv ==
  /\ \A i \in Frames : task[i] = "none"
  /\ \A t \in Threads : busy[t] = <<>>
  /\ coord \in {"next", "callback", "stop", "drop"} => open
  /\ coord \in {"next", "callback", "stop"} => ~stop
  /\ \A w \in Workers : WorkerInv(w)
  /\ ReadByWorkers
  /\ coord = "done" => /\ \A w \in Workers : worker[w] \in {"gone", "panicked"}
                       /\ \A w \in Workers : worker[w] = "panicked" => panicking

(* What has become of a frame's task says how far the run is with it. *)
TaskInv(i) ==
  /\ i > spawned <=> task[i] = "none"
  /\ i <= Len(reported) => task[i] = "gone"
  /\ Repeats(i) /\ i <= spawned => task[i] = "gone"
  /\ task[i] \in {"none", "queued"} => reads[i] = 0
  /\ task[i] = "left" => panicking
  /\ reads[i] > 0 /\ Outcome(i) = "panics" /\ task[i] = "gone" => panicking

(* The pool's threads run begun tasks, each of them once. *)
BusyInv ==
  /\ \A t \in Threads : \A n \in 1..Len(busy[t]) : task[busy[t][n]] \in {"running", "left"}
  /\ \A t, u \in Threads : \A n \in 1..Len(busy[t]), k \in 1..Len(busy[u]) :
       busy[t][n] = busy[u][k] => t = u /\ n = k

\* No thread of the pool runs the task of frame i.
Unheld(i) == \A t \in Threads : \A n \in 1..Len(busy[t]) : busy[t][n] # i

\* The window holds the frames from the next to be reported on.
WindowInv == Len(reported) <= spawned /\ spawned <= Len(reported) + workers

PoolInv ==
  /\ ~open
  /\ \A w \in Workers : worker[w] = "gone" /\ queue[w] = <<>>
  /\ WindowInv
  /\ \A i \in Frames : TaskInv(i)
  /\ BusyInv
  /\ coord = "inline" => task[Current] = "running" /\ Unheld(Current)
  /\ coord = "done" => Undropped = {} /\ \A t \in Threads : busy[t] = <<>>

(* Helpers are of a pool's run, and none reads a repeat. *)
HelpersInv ==
  /\ mode = "threads" => helpers = {}
  /\ \A i \in helpers : ~Repeats(i)

(* The inductive invariant. *)
PipelineInv ==
  /\ TypeOK /\ GivenInv /\ LoopInv /\ HelpersInv
  /\ mode = "threads" => ThreadsInv
  /\ mode = "pool" => PoolInv
-----------------------------------------------------------------------------
(* Of remainders. *)

LEMMA Remainder ==
  ASSUME NEW n \in Nat \ {0}, NEW a \in Nat
  PROVE  /\ a \div n \in Nat
         /\ a % n \in 0..(n - 1)
         /\ a % n = a - n * (a \div n)
<1>1. a \div n \in Nat
  OBVIOUS
<1>2. a % n \in 0..(n - 1)
  OBVIOUS
<1>3. a % n = a - n * (a \div n)
  BY SMTT(60)
<1> QED BY <1>1, <1>2, <1>3

LEMMA ModOfSmall ==
  ASSUME NEW n \in Nat \ {0}, NEW a \in 0..(n - 1)
  PROVE  a % n = a
OBVIOUS

LEMMA ModOfSum ==
  ASSUME NEW n \in Nat \ {0}, NEW a \in Nat
  PROVE  (a + n) % n = a % n
<1> DEFINE q == a \div n
<1>1. q \in Nat /\ a % n = a - n * q
  BY Remainder
<1>2. (a + n) \div n = q + 1
  OBVIOUS
<1>3. (a + n) % n = (a + n) - n * ((a + n) \div n)
  <2> DEFINE b == a + n
  <2>1. b \in Nat
    OBVIOUS
  <2> HIDE DEF b
  <2>2. b % n = b - n * (b \div n)
    BY <2>1, Remainder
  <2> QED BY <2>2 DEF b
<1> HIDE DEF q
<1>4. n * (q + 1) = n * q + n
  BY <1>1
<1> QED BY <1>1, <1>2, <1>3, <1>4

LEMMA ModIsUnique ==
  ASSUME NEW n \in Nat \ {0}, NEW a \in Nat, NEW b \in Nat,
         a <= b, b < a + n, a % n = b % n
  PROVE  a = b
<1> DEFINE q == a \div n
           r == b \div n
<1>1. /\ q \in Nat /\ r \in Nat
      /\ a % n = a - n * q /\ b % n = b - n * r
  BY Remainder
<1> HIDE DEF q, r
<1>2. b - a = n * r - n * q
  BY <1>1
<1>3. n * r - n * q = n * (r - q)
  BY <1>1
<1>4. r - q >= 1 => n * (r - q) >= n
  BY <1>1
<1>5. r - q <= -1 => n * (r - q) <= -n
  BY <1>1
<1>6. r = q
  BY <1>1, <1>2, <1>3, <1>4, <1>5
<1> QED BY <1>1, <1>2, <1>6
-----------------------------------------------------------------------------
(* Of what a run is given. *)

LEMMA OutcomeType ==
  ASSUME GivenInv, NEW i \in Frames
  PROVE  Outcome(i) \in {"good", "unreadable", "panics", "duplicate"}
BY DEF GivenInv, Frames, Outcome, Stack!Outcome

\* A repeat is refused, whatever its file.
LEMMA RepeatsAreRefused ==
  ASSUME NEW i
  PROVE  Repeats(i) => Outcome(i) = "duplicate"
BY DEF Repeats, Outcome, Stack!Outcome

LEMMA GivenStays == [Next]_vars => UNCHANGED given
BY DEF vars, given, Next, Loop, Callback, WorkerStep, LoopEnds, Receive, ReceiveFails,
   RaiseStop, DropReceivers, JoinWorkers, Spawn, Refuse, JoinTakes, JoinWaits, Collect,
   DropTask, ScopeEnds, AnswerYes, AnswerNo, CallbackPanics, Check, Prepare, Send, SendFails,
   FinishTask, TakeTask, ReadThrough

\* What is read of the given alone stays so.
LEMMA ReadingsStay ==
  ASSUME UNCHANGED given
  PROVE  /\ Frames' = Frames /\ Workers' = Workers /\ Threads' = Threads
         /\ \A i : Repeats(i)' <=> Repeats(i)
         /\ \A i : Outcome(i)' = Outcome(i)
         /\ \A i : Owner(i)' = Owner(i)
BY DEF given, Frames, Workers, Threads, Repeats, Stack!Repeats, Outcome, Stack!Outcome, Owner

\* A frame has a worker.
LEMMA OwnerIsWorker ==
  ASSUME GivenInv, NEW i \in Nat \ {0}
  PROVE  Owner(i) \in Workers
BY Remainder DEF GivenInv, Owner, Workers

(* In a round of frames each worker has one. *)
LEMMA RoundsAreShared ==
  ASSUME GivenInv, NEW i \in Nat \ {0}, NEW j \in Nat \ {0},
         i < j + workers, j < i + workers, Owner(i) = Owner(j)
  PROVE  i = j
<1> DEFINE a == i - 1
           b == j - 1
<1>1. a \in Nat /\ b \in Nat /\ a % workers = b % workers /\ workers \in Nat \ {0}
  BY DEF Owner, GivenInv
<1>2. a < b + workers /\ b < a + workers
  BY <1>1
<1>3. a = b
  <2> HIDE DEF a, b
  <2>1. CASE a <= b
    BY <1>1, <1>2, <2>1, ModIsUnique
  <2>2. CASE b <= a
    BY <1>1, <1>2, <2>2, ModIsUnique
  <2> QED BY <1>1, <2>1, <2>2
<1> QED BY <1>3

(* The oldest of the tasks left is one of them, with none before it. *)
LEMMA OldestIsLeft ==
  ASSUME Undropped # {}, spawned \in Nat
  PROVE  Oldest \in Undropped
<1> DEFINE Before == OpToRel(<, Nat)
<1>1. Undropped \subseteq Nat
  BY DEF Undropped
<1>2. PICK least \in Undropped : \A other \in Undropped : <<other, least>> \notin Before
  BY <1>1, NatLessThanWellFounded, WFMin
<1>3. ASSUME NEW j \in Undropped PROVE least <= j
  <2>1. ~(j < least)
    BY <1>1, <1>2 DEF OpToRel
  <2> QED BY <1>1, <2>1
<1> QED BY <1>3 DEF Oldest
-----------------------------------------------------------------------------
(* Where the calling thread is. *)

LEMMA CurrentIsFrame ==
  ASSUME TypeOK, GivenInv
  PROVE  /\ Len(reported) \in Nat /\ Len(batch) \in Nat /\ Current \in Nat \ {0}
         /\ Current <= Len(batch) => Current \in Frames
<1>1. reported \in Seq({"good", "unreadable", "duplicate"})
  BY DEF TypeOK
<1>2. Len(reported) \in Nat
  BY <1>1, LenProperties
<1>3. batch \in Seq(Paths)
  BY DEF GivenInv
<1>4. Len(batch) \in Nat
  BY <1>3, LenProperties
<1> QED BY <1>2, <1>4 DEF Current, Frames

\* The first frame of a worker is one it owns.
LEMMA FirstIsOwned ==
  ASSUME TypeOK, GivenInv, open, NEW w \in Workers, WorkerInv(w)
  PROVE  First(w) \in Nat \ {0} /\ Owner(First(w)) = w
<1>1. /\ Len(reported) \in Nat /\ Current \in Nat \ {0} /\ workers \in Nat \ {0}
      /\ turn[w] \in Nat
  BY CurrentIsFrame DEF GivenInv, TypeOK
<1>2. First(w) \in Current..(Len(reported) + workers) /\ Owner(turn[w]) = w
  BY DEF WorkerInv
<1>3. First(w) \in Nat \ {0}
  BY <1>1, <1>2
<1>4. CASE First(w) = turn[w]
  BY <1>2, <1>3, <1>4
<1>5. CASE First(w) = turn[w] - workers
  <2> DEFINE a == First(w) - 1
  <2>1. a \in Nat /\ turn[w] - 1 = a + workers
    BY <1>1, <1>3, <1>5
  <2>2. (turn[w] - 1) % workers = w
    BY <1>2 DEF Owner
  <2> HIDE DEF a
  <2>3. (a + workers) % workers = a % workers
    BY <1>1, <2>1, ModOfSum
  <2>4. a % workers = w
    BY <2>1, <2>2, <2>3
  <2> USE DEF a
  <2> QED BY <1>3, <2>4 DEF Owner
<1> QED BY <1>4, <1>5 DEF First

(* What the coordinator receives is the frame it is at.                    *)
LEMMA ReceivedIsCurrent ==
  ASSUME PipelineInv, mode = "threads", coord = "next", Current <= Len(batch)
  PROVE  /\ Owner(Current) \in Workers
         /\ queue[Owner(Current)] # <<>> =>
              /\ queue[Owner(Current)] = <<Current>>
              /\ turn[Owner(Current)] = Current + workers
              /\ Outcome(Current) # "panics"
         /\ queue[Owner(Current)] = <<>> => turn[Owner(Current)] = Current
<1> DEFINE w == Owner(Current)
           R == Len(reported)
<1>1. /\ R \in Nat /\ Current \in Nat \ {0} /\ Current = R + 1 /\ Len(batch) \in Nat
      /\ workers \in Nat \ {0} /\ GivenInv /\ open
  BY CurrentIsFrame DEF PipelineInv, Current, GivenInv, ThreadsInv
<1>2. w \in Workers
  BY <1>1, OwnerIsWorker
<1>3. WorkerInv(w) /\ turn[w] \in Nat
  BY <1>2 DEF PipelineInv, ThreadsInv, TypeOK
<1> HIDE DEF w, R
<1>4. First(w) = Current
  <2>1. First(w) \in Current..(R + workers)
    BY <1>1, <1>3 DEF WorkerInv, R
  <2>2. First(w) \in Nat \ {0} /\ Owner(First(w)) = w /\ Owner(Current) = w
    BY <1>1, <1>2, <1>3, FirstIsOwned DEF w, PipelineInv
  <2> QED BY <1>1, <2>1, <2>2, RoundsAreShared
<1>5. CASE queue[w] = <<>>
  BY <1>2, <1>4, <1>5 DEF First, w
<1>6. CASE queue[w] # <<>>
  <2>1. /\ turn[w] - workers = Current /\ turn[w] = Current + workers
        /\ queue[w] = <<Current>> /\ Outcome(Current) # "panics"
    BY <1>1, <1>3, <1>4, <1>6 DEF First, WorkerInv
  <2> QED BY <1>2, <1>6, <2>1 DEF w
<1> QED BY <1>5, <1>6

(* What the joiner collects is in the window. *)
LEMMA CollectedIsCurrent ==
  ASSUME PipelineInv, coord \in {"inline", "wait"}
  PROVE  /\ mode = "pool" /\ Current \in Frames /\ Current \in 1..spawned
         /\ Current <= Len(batch)
<1>1. mode = "pool" /\ Current <= spawned
  BY DEF PipelineInv, LoopInv
<1>2. Current \in Nat \ {0} /\ Len(batch) \in Nat /\ spawned \in 0..Len(batch)
  BY CurrentIsFrame DEF PipelineInv, TypeOK
<1> QED BY <1>1, <1>2 DEF Frames

(* A full window has the frame the caller is at. *)
LEMMA FullWindow ==
  ASSUME PipelineInv, mode = "pool", Current <= Len(batch), WindowIsFull
  PROVE  Current \in Frames /\ Current \in 1..spawned
<1>1. /\ Current \in Nat \ {0} /\ Len(batch) \in Nat /\ spawned \in 0..Len(batch)
      /\ Len(reported) \in Nat /\ Current = Len(reported) + 1 /\ workers \in Nat \ {0}
  BY CurrentIsFrame DEF PipelineInv, TypeOK, Current, GivenInv
<1>2. Current <= spawned
  BY <1>1 DEF WindowIsFull
<1> QED BY <1>1, <1>2 DEF Frames

(* The frame whose outcome the caller is told next is the one it is at, and *)
(* it did not panic.                                                       *)
LEMMA IntegratedIsCurrent ==
  ASSUME PipelineInv, Receive \/ Refuse \/ (Collect /\ Outcome(Current) # "panics")
  PROVE  /\ Current \in Frames /\ Outcome(Current) # "panics"
         /\ Integrate(Current)
         /\ UNCHANGED <<why, panicking, open, stop, worker, turn>>
         /\ coord \in {"next", "inline", "wait"}
<1>1. CASE Receive
  <2>1. mode = "threads" /\ coord = "next" /\ Current <= Len(batch)
        /\ queue[Owner(Current)] # <<>> /\ Integrate(Head(queue[Owner(Current)]))
    BY <1>1 DEF Receive
  <2>2. Head(queue[Owner(Current)]) = Current /\ Outcome(Current) # "panics"
    BY <2>1, ReceivedIsCurrent
  <2>3. Current \in Frames
    BY <2>1, CurrentIsFrame DEF PipelineInv
  <2> QED BY <1>1, <2>1, <2>2, <2>3 DEF Receive
<1>2. CASE Refuse
  <2>1. Current \in Frames
    BY <1>2, FullWindow DEF Refuse, Free
  <2> QED BY <1>2, <2>1, RepeatsAreRefused DEF Refuse, threadVars
<1>3. CASE Collect /\ Outcome(Current) # "panics"
  <2>1. coord \in {"inline", "wait"}
    BY <1>3 DEF Collect
  <2> QED BY <1>3, <2>1, CollectedIsCurrent DEF Collect, threadVars
<1> QED BY <1>1, <1>2, <1>3
-----------------------------------------------------------------------------
LEMMA GivenStep == GivenInv /\ [Next]_vars => GivenInv'
BY GivenStays DEF GivenInv, given

\* The parts of TypeOK.
CallerTyped ==
  /\ coord \in {"next", "inline", "wait", "callback", "stop", "drop", "join", "done"}
  /\ why \in {"", "cancelled", "broken"}
  /\ panicking \in BOOLEAN /\ stop \in BOOLEAN /\ open \in BOOLEAN
ReportsTyped ==
  /\ reported \in Seq({"good", "unreadable", "duplicate"})
  /\ stacked \in Seq(Frames)
WorkersTyped ==
  /\ worker \in [Workers -> {"check", "prepare", "send", "gone", "panicked"}]
  /\ turn \in [Workers -> Nat]
QueuesTyped ==
  /\ queue \in [Workers -> Seq(Frames)]
  /\ \A w \in Workers : Len(queue[w]) <= 1
TasksTyped ==
  /\ spawned \in 0..Len(batch)
  /\ task \in [Frames -> {"none", "queued", "running", "sent", "left", "gone"}]
BusyTyped == busy \in [Threads -> Seq(Frames)]
HelpersTyped == helpers \in SUBSET Frames
ReadsTyped == reads \in [Frames -> Nat]

LEMMA TypedParts ==
  /\ TypeOK <=> /\ CallerTyped /\ ReportsTyped /\ WorkersTyped /\ QueuesTyped
                /\ TasksTyped /\ BusyTyped /\ HelpersTyped /\ ReadsTyped
  /\ TypeOK' <=> /\ CallerTyped' /\ ReportsTyped' /\ WorkersTyped' /\ QueuesTyped'
                 /\ TasksTyped' /\ BusyTyped' /\ HelpersTyped' /\ ReadsTyped'
BY DEF TypeOK, CallerTyped, ReportsTyped, WorkersTyped, QueuesTyped, TasksTyped, BusyTyped,
   HelpersTyped, ReadsTyped

LEMMA TypesStay ==
  ASSUME TypeOK, UNCHANGED given
  PROVE  /\ UNCHANGED <<coord, why, panicking, stop, open>> => CallerTyped'
         /\ UNCHANGED <<reported, stacked>> => ReportsTyped'
         /\ UNCHANGED <<worker, turn>> => WorkersTyped'
         /\ UNCHANGED queue => QueuesTyped'
         /\ UNCHANGED <<spawned, task>> => TasksTyped'
         /\ UNCHANGED busy => BusyTyped'
         /\ UNCHANGED helpers => HelpersTyped'
         /\ UNCHANGED reads => ReadsTyped'
BY ReadingsStay DEF TypeOK, CallerTyped, ReportsTyped, WorkersTyped, QueuesTyped, TasksTyped,
   BusyTyped, HelpersTyped, ReadsTyped, given

(* Reading and integrating a frame of the batch.                           *)
LEMMA ReadTyped ==
  ASSUME TypeOK, UNCHANGED given, NEW i \in Frames, Read(i)
  PROVE  ReadsTyped'
<1>1. Frames' = Frames
  BY ReadingsStay
<1>2. reads \in [Frames -> Nat]
  BY DEF TypeOK
<1>3. reads' \in [Frames -> Nat]
  BY <1>2 DEF Read
<1> QED BY <1>1, <1>3 DEF ReadsTyped

LEMMA IntegrateTyped ==
  ASSUME TypeOK, GivenInv, UNCHANGED given, NEW i \in Frames, Integrate(i),
         Outcome(i) # "panics"
  PROVE  ReportsTyped' /\ coord' = "callback"
<1>1. Frames' = Frames
  BY ReadingsStay
<1>2. Outcome(i) \in {"good", "unreadable", "duplicate"}
  BY OutcomeType
<1>3. reported' \in Seq({"good", "unreadable", "duplicate"})
  <2>1. reported \in Seq({"good", "unreadable", "duplicate"})
    BY DEF TypeOK
  <2>2. reported' = Append(reported, Outcome(i))
    BY DEF Integrate
  <2> QED BY <1>2, <2>1, <2>2, AppendProperties
<1>4. stacked' \in Seq(Frames)
  <2>1. stacked \in Seq(Frames)
    BY DEF TypeOK
  <2>2. stacked' = stacked \/ stacked' = Append(stacked, i)
    BY DEF Integrate
  <2> QED BY <2>1, <2>2, AppendProperties
<1> QED BY <1>1, <1>3, <1>4 DEF ReportsTyped, Integrate

(* Types are kept by every step. *)
LEMMA TypeStep == PipelineInv /\ [Next]_vars => TypeOK'
<1> SUFFICES ASSUME PipelineInv, [Next]_vars PROVE TypeOK'
  OBVIOUS
<1>0. /\ Frames' = Frames /\ Workers' = Workers /\ Threads' = Threads /\ UNCHANGED given
      /\ TypeOK /\ GivenInv /\ workers \in Nat /\ batch' = batch
  BY GivenStays, ReadingsStay DEF PipelineInv, GivenInv, given
<1>00. /\ UNCHANGED <<coord, why, panicking, stop, open>> => CallerTyped'
       /\ UNCHANGED <<reported, stacked>> => ReportsTyped'
       /\ UNCHANGED <<worker, turn>> => WorkersTyped'
       /\ UNCHANGED queue => QueuesTyped'
       /\ UNCHANGED <<spawned, task>> => TasksTyped'
       /\ UNCHANGED busy => BusyTyped'
       /\ UNCHANGED helpers => HelpersTyped'
       /\ UNCHANGED reads => ReadsTyped'
  BY <1>0, TypesStay
<1> USE <1>0, <1>00, TypedParts
<1>1. CASE AnswerYes \/ AnswerNo \/ CallbackPanics \/ LoopEnds \/ ReceiveFails \/ RaiseStop
           \/ JoinWaits \/ ScopeEnds
  <2>1. CallerTyped'
    BY <1>1 DEF TypeOK, CallerTyped, AnswerYes, AnswerNo, CallbackPanics, Unwind, LoopEnds,
       ReceiveFails, RaiseStop, JoinWaits, ScopeEnds, threadVars, poolVars
  <2>2. UNCHANGED <<reported, stacked, worker, turn, queue, spawned, task, busy, helpers, reads>>
    BY <1>1 DEF AnswerYes, AnswerNo, CallbackPanics, Unwind, LoopEnds,
       ReceiveFails, RaiseStop, JoinWaits, ScopeEnds, threadVars, poolVars
  <2> QED BY <2>1, <2>2
<1>2. ASSUME NEW w \in Workers, Check(w) PROVE TypeOK'
  <2>1. WorkersTyped'
    BY <1>2 DEF TypeOK, WorkersTyped, Check
  <2>2. ReadsTyped'
    <3>1. CASE UNCHANGED reads
      BY <3>1
    <3>2. CASE ~(stop \/ turn[w] > Len(batch)) /\ Read(turn[w])
      <4>1. mode = "threads"
        BY <1>2 DEF PipelineInv, GivenInv, PoolInv, Check
      <4>2. turn[w] \in Nat /\ Current <= turn[w] /\ Current \in Nat \ {0}
        BY <4>1, CurrentIsFrame DEF PipelineInv, ThreadsInv, WorkerInv, TypeOK
      <4>3. turn[w] \in Frames
        BY <3>2, <4>2, CurrentIsFrame DEF Frames
      <4> QED BY <3>2, <4>3, ReadTyped
    <3> QED BY <1>2, <3>1, <3>2 DEF Check
  <2> QED BY <1>2, <2>1, <2>2 DEF Check, poolVars
<1>3. ASSUME NEW w \in Workers, Prepare(w) \/ SendFails(w) PROVE TypeOK'
  <2>1. WorkersTyped'
    BY <1>3 DEF TypeOK, WorkersTyped, Prepare, SendFails
  <2> QED BY <1>3, <2>1 DEF Prepare, SendFails, poolVars
<1>4. ASSUME NEW w \in Workers, Send(w) PROVE TypeOK'
  <2>1. turn[w] \in Frames
    <3>1. mode = "threads"
      BY <1>4 DEF PipelineInv, GivenInv, PoolInv, Send
    <3> QED BY <1>4, <3>1 DEF PipelineInv, ThreadsInv, WorkerInv, Send
  <2>2. QueuesTyped'
    <3> DEFINE q == Append(queue[w], turn[w])
    <3>1. q \in Seq(Frames) /\ Len(q) = 1
      BY <1>4, <2>1 DEF Send
    <3>2. queue' = [queue EXCEPT ![w] = q]
      BY <1>4 DEF Send
    <3>3. queue \in [Workers -> Seq(Frames)] /\ \A v \in Workers : Len(queue[v]) <= 1
      BY DEF TypeOK
    <3> HIDE DEF q
    <3>4. queue' \in [Workers -> Seq(Frames)]
      BY <3>1, <3>2, <3>3
    <3>5. ASSUME NEW v \in Workers PROVE Len(queue'[v]) <= 1
      <4>1. queue'[v] = q \/ queue'[v] = queue[v]
        BY <3>2, <3>3
      <4>2. Len(q) <= 1 /\ Len(queue[v]) <= 1
        BY <3>1, <3>3
      <4> QED BY <4>1, <4>2
    <3> QED BY <3>4, <3>5 DEF QueuesTyped
  <2>3. WorkersTyped'
    <3>1. WorkersTyped
      OBVIOUS
    <3>2. turn[w] + workers \in Nat
      BY <3>1 DEF WorkersTyped
    <3> QED BY <1>4, <3>1, <3>2 DEF WorkersTyped, Send
  <2> QED BY <1>4, <2>2, <2>3 DEF Send, poolVars
<1>5. CASE Receive
  <2>1. ReportsTyped' /\ CallerTyped'
    BY <1>5, IntegratedIsCurrent, IntegrateTyped DEF TypeOK, CallerTyped
  <2>2. QueuesTyped'
    <3>1. PICK w \in Workers : queue[w] # <<>> /\ queue' = [queue EXCEPT ![w] = Tail(@)]
      <4>1. Owner(Current) \in Workers
        BY <1>5, ReceivedIsCurrent DEF Receive
      <4> QED BY <1>5, <4>1 DEF Receive
    <3> DEFINE q == Tail(queue[w])
    <3>2. queue \in [Workers -> Seq(Frames)] /\ \A v \in Workers : Len(queue[v]) <= 1
      BY DEF TypeOK
    <3>3. q \in Seq(Frames) /\ Len(q) = Len(queue[w]) - 1 /\ Len(queue[w]) \in Nat
      BY <3>1, <3>2, HeadTailProperties, LenProperties
    <3>4. queue' = [queue EXCEPT ![w] = q]
      BY <3>1
    <3> HIDE DEF q
    <3> QED BY <3>2, <3>3, <3>4 DEF QueuesTyped
  <2> QED BY <1>5, <2>1, <2>2 DEF Receive, poolVars
<1>6. CASE DropReceivers
  <2>1. QueuesTyped'
    BY <1>6 DEF DropReceivers, QueuesTyped
  <2>2. CallerTyped'
    BY <1>6 DEF DropReceivers, CallerTyped, TypeOK
  <2> QED BY <1>6, <2>1, <2>2 DEF DropReceivers, poolVars
<1>7. CASE JoinWorkers
  <2>1. CallerTyped'
    BY <1>7 DEF JoinWorkers, CallerTyped, TypeOK, threadVars
  <2> QED BY <1>7, <2>1 DEF JoinWorkers, threadVars, poolVars
<1>8. CASE Spawn
  <2>1. spawned \in 0..Len(batch) /\ spawned # Len(batch) /\ Len(batch) \in Nat
        /\ spawned' = spawned + 1
    BY <1>8, CurrentIsFrame DEF Spawn, WindowIsFull, TypeOK
  <2>2. spawned' \in 0..Len(batch)
    BY <2>1
  <2>3. TasksTyped'
    BY <1>8, <2>2 DEF Spawn, TasksTyped, TypeOK
  <2>4. HelpersTyped'
    <3>1. spawned' \in Frames
      BY <2>1 DEF Frames
    <3> QED BY <1>8, <3>1 DEF Spawn, HelpersTyped, TypeOK
  <2> QED BY <1>8, <2>3, <2>4 DEF Spawn, threadVars
<1>9. CASE Refuse
  <2>1. ReportsTyped' /\ CallerTyped'
    BY <1>9, IntegratedIsCurrent, IntegrateTyped DEF TypeOK, CallerTyped
  <2> QED BY <1>9, <2>1 DEF Refuse, threadVars, poolVars
<1>10. CASE JoinTakes
  <2>1. ReadsTyped'
    BY <1>10, FullWindow, ReadTyped DEF JoinTakes, Free
  <2>2. TasksTyped'
    BY <1>10 DEF JoinTakes, TasksTyped, TypeOK
  <2>3. CallerTyped'
    BY <1>10 DEF JoinTakes, CallerTyped, TypeOK, threadVars
  <2> QED BY <1>10, <2>1, <2>2, <2>3 DEF JoinTakes, threadVars
<1>11. CASE Collect
  <2>1. ReportsTyped' /\ CallerTyped'
    <3>1. CASE Outcome(Current) = "panics"
      BY <1>11, <3>1 DEF Collect, Unwind, TypeOK, CallerTyped, threadVars
    <3>2. CASE Outcome(Current) # "panics"
      BY <1>11, <3>2, IntegratedIsCurrent, IntegrateTyped DEF TypeOK, CallerTyped
    <3> QED BY <3>1, <3>2
  <2>2. TasksTyped'
    BY <1>11 DEF Collect, TasksTyped, TypeOK
  <2> QED BY <1>11, <2>1, <2>2 DEF Collect, threadVars
<1>12. CASE DropTask
  <2>1. TasksTyped'
    BY <1>12 DEF DropTask, TasksTyped, TypeOK
  <2>2. CallerTyped'
    BY <1>12 DEF DropTask, CallerTyped, TypeOK, threadVars
  <2> QED BY <1>12, <2>1, <2>2 DEF DropTask, threadVars
<1>13. ASSUME NEW t \in Threads, NEW i \in Frames, TakeTask(t, i) PROVE TypeOK'
  <2>1. ReadsTyped'
    BY <1>13, ReadTyped DEF TakeTask
  <2>2. BusyTyped'
    <3> DEFINE q == Append(busy[t], i)
    <3>1. busy \in [Threads -> Seq(Frames)]
      BY DEF TypeOK
    <3>2. q \in Seq(Frames)
      BY <3>1, AppendProperties
    <3>3. busy' = [busy EXCEPT ![t] = q]
      BY <1>13 DEF TakeTask
    <3> HIDE DEF q
    <3> QED BY <3>1, <3>2, <3>3 DEF BusyTyped
  <2>3. TasksTyped'
    BY <1>13 DEF TakeTask, TasksTyped, TypeOK
  <2> QED BY <1>13, <2>1, <2>2, <2>3 DEF TakeTask, threadVars
<1>14. ASSUME NEW t \in Threads, FinishTask(t) PROVE TypeOK'
  <2>1. BusyTyped'
    <3> DEFINE q == SubSeq(busy[t], 1, Len(busy[t]) - 1)
    <3>1. busy[t] \in Seq(Frames)
      BY DEF TypeOK
    <3>2. q \in Seq(Frames)
      BY <3>1
    <3>3. busy' = [busy EXCEPT ![t] = q]
      BY <1>14 DEF FinishTask
    <3> HIDE DEF q
    <3> QED BY <3>2, <3>3 DEF BusyTyped, TypeOK
  <2>2. CallerTyped'
    BY <1>14 DEF FinishTask, CallerTyped, TypeOK, threadVars
  <2>3. TasksTyped'
    BY <1>14 DEF FinishTask, TasksTyped, TypeOK
  <2> QED BY <1>14, <2>1, <2>2, <2>3 DEF FinishTask, threadVars
<1>15. ASSUME NEW i \in Frames, ReadThrough(i) PROVE TypeOK'
  <2>1. HelpersTyped'
    BY <1>15 DEF ReadThrough, HelpersTyped, TypeOK
  <2> QED BY <1>15, <2>1 DEF ReadThrough, threadVars
<1>16. CASE UNCHANGED vars
  BY <1>16 DEF vars, threadVars, poolVars
<1> QED
  BY <1>1, <1>2, <1>3, <1>4, <1>5, <1>6, <1>7, <1>8, <1>9, <1>10, <1>11, <1>12, <1>13,
     <1>14, <1>15, <1>16 DEF Next, Loop, Callback, WorkerStep
-----------------------------------------------------------------------------
LEMMA PipelineInit == Init => PipelineInv
<1> SUFFICES ASSUME Init PROVE PipelineInv
  OBVIOUS
<1>1. GivenInv
  <2>1. /\ workers \in WorkerCounts /\ batch \in Batches /\ mode \in {"threads", "pool"}
        /\ file \in [Paths -> {"good", "unreadable", "panics"}]
        /\ pool \subseteq PoolThreads
    BY DEF Init
  <2> QED BY <2>1, PipelineAssumption DEF GivenInv
<1>a. /\ reported = <<>> /\ stacked = <<>>
      /\ Len(reported) = 0 /\ workers <= Len(batch) /\ spawned = 0
  BY DEF Init
<1>f. coord = "next" /\ why = "" /\ ~panicking /\ ~stop /\ (open <=> mode = "threads")
  BY DEF Init
<1>g. panicking \in BOOLEAN /\ stop \in BOOLEAN /\ open \in BOOLEAN
  BY DEF Init
<1>b. /\ worker = [w \in Workers |-> IF mode = "threads" THEN "check" ELSE "gone"]
      /\ turn = [w \in Workers |-> w + 1]
  BY DEF Init
<1>c. queue = [w \in Workers |-> <<>>]
  BY DEF Init
<1>d. task = [i \in Frames |-> "none"] /\ reads = [i \in Frames |-> 0]
  BY DEF Init
<1>e. busy = [t \in Threads |-> <<>>] /\ helpers = {}
  BY DEF Init
<1>2. /\ workers \in Nat \ {0} /\ Len(batch) \in Nat /\ workers <= Len(batch)
      /\ Len(reported) = 0 /\ Current = 1 /\ spawned = 0
  <2>1. batch \in Seq(Paths) /\ workers \in Nat \ {0}
    BY <1>1 DEF GivenInv
  <2>2. Len(batch) \in Nat
    BY <2>1, LenProperties
  <2> QED BY <1>a, <2>1, <2>2 DEF Current
<1>3. TypeOK
  <2>1. ReportsTyped
    BY <1>a DEF ReportsTyped
  <2>2. CallerTyped
    BY <1>f, <1>g DEF CallerTyped
  <2>3. WorkersTyped
    <3>1. ASSUME NEW w \in Workers PROVE w + 1 \in Nat
      BY <1>2 DEF Workers
    <3> QED BY <1>b, <3>1 DEF WorkersTyped
  <2>4. QueuesTyped
    BY <1>c DEF QueuesTyped
  <2>5. TasksTyped
    BY <1>a, <1>d, <1>2 DEF TasksTyped
  <2>6. BusyTyped /\ HelpersTyped /\ ReadsTyped
    BY <1>d, <1>e DEF BusyTyped, HelpersTyped, ReadsTyped
  <2> QED BY <2>1, <2>2, <2>3, <2>4, <2>5, <2>6, TypedParts
<1>4. LoopInv
  <2>1. Len(reported) <= Len(batch)
    BY <1>2
  <2> QED BY <1>f, <2>1 DEF LoopInv
<1>7. HelpersInv
  BY <1>e DEF HelpersInv
<1>5. ASSUME mode = "threads" PROVE ThreadsInv
  <2>1. ASSUME NEW w \in Workers PROVE WorkerInv(w)
    <3>1. w \in 0..(workers - 1) /\ w \in Nat
      BY <1>2 DEF Workers
    <3>2. /\ turn[w] = w + 1 /\ queue[w] = <<>> /\ worker[w] = "check" /\ open
      BY <1>5, <1>f, <1>b, <1>c
    <3>3. Owner(turn[w]) = w
      BY <1>2, <3>1, <3>2, ModOfSmall DEF Owner
    <3>4. First(w) \in Current..(Len(reported) + workers)
      BY <1>2, <3>1, <3>2 DEF First
    <3>5. Current <= turn[w] /\ turn[w] <= Len(reported) + 2 * workers
      BY <1>2, <3>1, <3>2
    <3> QED BY <3>2, <3>3, <3>4, <3>5 DEF WorkerInv
  <2>2. ReadByWorkers
    BY <1>d DEF ReadByWorkers
  <2> QED BY <1>5, <1>f, <1>d, <1>e, <2>1, <2>2 DEF ThreadsInv
<1>6. ASSUME mode = "pool" PROVE PoolInv
  <2>1. \A i \in Frames : TaskInv(i)
    <3> SUFFICES ASSUME NEW i \in Frames PROVE TaskInv(i)
      OBVIOUS
    <3>1. task[i] = "none" /\ reads[i] = 0 /\ i \in 1..Len(batch)
      BY <1>d DEF Frames
    <3> QED BY <1>2, <3>1 DEF TaskInv
  <2>2. BusyInv
    BY <1>e DEF BusyInv
  <2>3. ~open
    BY <1>f, <1>6
  <2>4. \A w \in Workers : worker[w] = "gone" /\ queue[w] = <<>>
    BY <1>b, <1>c, <1>6
  <2>5. WindowInv
    BY <1>2 DEF WindowInv
  <2> QED BY <1>f, <2>1, <2>2, <2>3, <2>4, <2>5 DEF PoolInv
<1> QED BY <1>1, <1>3, <1>4, <1>5, <1>6, <1>7 DEF PipelineInv
-----------------------------------------------------------------------------
(* Each mode has its steps. *)

LEMMA StepsOfThreads ==
  ASSUME PipelineInv, mode = "threads", [Next]_vars
  PROVE  \/ AnswerYes \/ AnswerNo \/ CallbackPanics \/ LoopEnds \/ Receive \/ ReceiveFails
         \/ RaiseStop \/ DropReceivers \/ JoinWorkers \/ UNCHANGED vars
         \/ \E w \in Workers : Check(w) \/ Prepare(w) \/ Send(w) \/ SendFails(w)
<1>1. \A t \in Threads : busy[t] = <<>>
  BY DEF PipelineInv, ThreadsInv
<1>2. helpers = {}
  BY DEF PipelineInv, HelpersInv
<1> QED
  BY <1>1, <1>2 DEF Next, Loop, Callback, WorkerStep, Free, Spawn, Refuse, JoinTakes,
     JoinWaits, Collect, DropTask, ScopeEnds, FinishTask, TakeTask, ReadThrough

LEMMA StepsOfPool ==
  ASSUME PipelineInv, mode = "pool", [Next]_vars
  PROVE  \/ AnswerYes \/ AnswerNo \/ CallbackPanics \/ LoopEnds \/ Spawn \/ Refuse
         \/ JoinTakes \/ JoinWaits \/ Collect \/ DropTask \/ ScopeEnds \/ UNCHANGED vars
         \/ \E t \in Threads : FinishTask(t) \/ \E i \in Frames : TakeTask(t, i)
         \/ \E i \in Frames : ReadThrough(i)
<1>1. \A w \in Workers : worker[w] = "gone"
  BY DEF PipelineInv, PoolInv
<1>2. coord \notin {"stop", "join"}
  BY DEF PipelineInv, LoopInv
<1> QED
  BY <1>1, <1>2 DEF Next, Loop, Callback, WorkerStep, Check, Prepare, Send, SendFails,
     Receive, ReceiveFails, RaiseStop, DropReceivers, JoinWorkers
-----------------------------------------------------------------------------
(* What a step of the threads mode leaves alone. *)

LEMMA WorkerStays ==
  ASSUME NEW w, WorkerInv(w), UNCHANGED <<given, reported, open>>, stop => stop',
         worker'[w] = worker[w], turn'[w] = turn[w], queue'[w] = queue[w]
  PROVE  WorkerInv(w)'
<1>1. /\ UNCHANGED <<workers, batch, reported, open>> /\ Frames' = Frames
      /\ \A i : Owner(i)' = Owner(i)
      /\ \A i : Outcome(i)' = Outcome(i)
  BY ReadingsStay DEF given
<1>2. Current' = Current /\ First(w)' = First(w)
  BY <1>1 DEF Current, First
<1> QED BY <1>1, <1>2 DEF WorkerInv

LEMMA ReadsStay ==
  ASSUME ReadByWorkers, UNCHANGED <<given, turn, reads, worker>>
  PROVE  ReadByWorkers'
BY ReadingsStay DEF ReadByWorkers

(* The workers and the coordinator in the threads mode. *)
ThreadsRest ==
  /\ \A i \in Frames : task[i] = "none"
  /\ \A t \in Threads : busy[t] = <<>>
  /\ coord \in {"next", "callback", "stop", "drop"} => open
  /\ coord \in {"next", "callback", "stop"} => ~stop
  /\ coord = "done" => /\ \A w \in Workers : worker[w] \in {"gone", "panicked"}
                       /\ \A w \in Workers : worker[w] = "panicked" => panicking

LEMMA ThreadsParts ==
  /\ ThreadsInv <=> ThreadsRest /\ (\A w \in Workers : WorkerInv(w)) /\ ReadByWorkers
  /\ ThreadsInv' <=>
       ThreadsRest' /\ (\A w \in Workers' : WorkerInv(w)') /\ ReadByWorkers'
BY DEF ThreadsInv, ThreadsRest

(* The coordinator takes the frame it is at: each worker's first is then of *)
(* the next round.                                                         *)
LEMMA ReceiveKeepsWorkers ==
  ASSUME PipelineInv, mode = "threads", UNCHANGED given, Receive, NEW v \in Workers
  PROVE  WorkerInv(v)'
<1> DEFINE w == Owner(Current)
           R == Len(reported)
<1>0. TypeOK /\ GivenInv /\ ThreadsInv
  BY DEF PipelineInv
<1>1. /\ R \in Nat /\ Current \in Nat \ {0} /\ Current = R + 1 /\ workers \in Nat \ {0}
      /\ turn[v] \in Nat
  BY <1>0, CurrentIsFrame DEF Current, GivenInv, TypeOK
<1>2. /\ coord = "next" /\ Current <= Len(batch) /\ queue[w] # <<>>
      /\ queue' = [queue EXCEPT ![w] = Tail(@)]
      /\ UNCHANGED <<stop, open, worker, turn>>
  BY DEF Receive
<1>3. w \in Workers /\ queue[w] = <<Current>> /\ turn[w] = Current + workers
  BY <1>2, ReceivedIsCurrent
<1>4. reported' = Append(reported, Outcome(Current))
  BY IntegratedIsCurrent DEF Integrate
<1>5. Len(reported') = R + 1 /\ Current' = Current + 1
  <2>1. reported \in Seq({"good", "unreadable", "duplicate"})
    BY <1>0 DEF TypeOK
  <2>2. Len(reported') = R + 1
    BY <1>4, <2>1
  <2> QED BY <1>1, <2>2 DEF Current
<1>6. /\ UNCHANGED <<workers, batch>> /\ Frames' = Frames
      /\ \A i : Owner(i)' = Owner(i)
      /\ \A i : Outcome(i)' = Outcome(i)
  BY ReadingsStay DEF given
<1>7. WorkerInv(v) /\ open
  BY <1>0, <1>2 DEF ThreadsInv
<1>8. queue \in [Workers -> Seq(Frames)]
  BY <1>0 DEF TypeOK
<1> HIDE DEF R, w
<1>9. CASE v = w
  <2>1. queue'[v] = <<>>
    BY <1>2, <1>3, <1>8, <1>9
  <2>2. First(v)' = turn[v]
    BY <1>2, <2>1 DEF First
  <2>3. First(v)' \in Current'..(Len(reported') + workers)
    BY <1>1, <1>3, <1>5, <1>9, <2>2
  <2>4. Current' <= turn[v] /\ turn[v] <= Len(reported') + 2 * workers
    BY <1>1, <1>3, <1>5, <1>9
  <2> QED BY <1>2, <1>6, <1>7, <2>1, <2>3, <2>4 DEF WorkerInv
<1>10. CASE v # w
  <2>1. queue'[v] = queue[v]
    BY <1>2, <1>8, <1>10
  <2>2. First(v)' = First(v)
    BY <1>2, <1>6, <2>1 DEF First
  <2>3. First(v) \in Nat \ {0} /\ Owner(First(v)) = v
    BY <1>0, <1>7, FirstIsOwned
  <2>4. First(v) # Current
    BY <1>10, <2>3 DEF w
  <2>5. First(v) \in Current..(R + workers)
    BY <1>7 DEF WorkerInv, R
  <2>6. First(v)' \in Current'..(Len(reported') + workers)
    BY <1>1, <1>5, <2>2, <2>3, <2>4, <2>5
  <2>7. turn[v] >= First(v)
    BY <1>1 DEF First
  <2>8. turn[v] <= R + 2 * workers
    BY <1>7 DEF WorkerInv, R
  <2>9. Current' <= turn[v] /\ turn[v] <= Len(reported') + 2 * workers
    BY <1>1, <1>5, <2>3, <2>4, <2>5, <2>7, <2>8
  <2> QED BY <1>2, <1>6, <1>7, <2>1, <2>6, <2>9 DEF WorkerInv
<1> QED BY <1>9, <1>10

(* A worker's step keeps every worker's state and what it read.            *)
LEMMA WorkerStepKeeps ==
  ASSUME PipelineInv, mode = "threads", UNCHANGED given, NEW w \in Workers,
         Check(w) \/ Prepare(w) \/ Send(w) \/ SendFails(w)
  PROVE  (\A v \in Workers : WorkerInv(v)') /\ ReadByWorkers'
<1> DEFINE R == Len(reported)
<1>0. TypeOK /\ GivenInv /\ ThreadsInv
  BY DEF PipelineInv
<1>1. /\ R \in Nat /\ Current \in Nat \ {0} /\ Current = R + 1 /\ workers \in Nat \ {0}
      /\ Len(batch) \in Nat
  BY <1>0, CurrentIsFrame DEF Current, GivenInv
<1>2. /\ worker \in [Workers -> {"check", "prepare", "send", "gone", "panicked"}]
      /\ turn \in [Workers -> Nat] /\ queue \in [Workers -> Seq(Frames)]
      /\ reads \in [Frames -> Nat]
  BY <1>0 DEF TypeOK
<1>3. /\ UNCHANGED <<workers, batch>> /\ Frames' = Frames
      /\ \A i : Owner(i)' = Owner(i)
      /\ \A i : Outcome(i)' = Outcome(i)
  BY ReadingsStay DEF given
<1>4. (\A v \in Workers : WorkerInv(v)) /\ ReadByWorkers
  BY <1>0 DEF ThreadsInv
<1>5. UNCHANGED <<reported, open, stop>> /\ Len(reported') = R /\ Current' = Current
  BY DEF Check, Prepare, Send, SendFails, Current
<1>6. turn[w] \in Nat /\ Owner(turn[w]) = w /\ Current <= turn[w]
  BY <1>2, <1>4 DEF WorkerInv
<1>7. ASSUME NEW v \in Workers, v # w PROVE WorkerInv(v)'
  <2>1. worker'[v] = worker[v] /\ turn'[v] = turn[v] /\ queue'[v] = queue[v]
    BY <1>2, <1>7 DEF Check, Prepare, Send, SendFails
  <2> QED BY <1>4, <1>5, <2>1, WorkerStays
<1> HIDE DEF R
<1>8. CASE Check(w)
  <2>0. UNCHANGED <<turn, queue>> /\ First(w)' = First(w)
    BY <1>3, <1>8 DEF Check, First
  <2>1. CASE stop \/ turn[w] > Len(batch)
    <3>1. worker' = [worker EXCEPT ![w] = "gone"] /\ UNCHANGED reads
      BY <1>8, <2>1 DEF Check
    <3>2. WorkerInv(w)'
      BY <1>2, <1>3, <1>4, <1>5, <2>0, <2>1, <3>1 DEF WorkerInv
    <3>3. ReadByWorkers'
      BY <1>2, <1>3, <1>4, <1>8, <2>0, <3>1 DEF ReadByWorkers, Check
    <3> QED BY <1>7, <3>2, <3>3
  <2>2. CASE ~(stop \/ turn[w] > Len(batch))
    <3>1. turn[w] \in Frames
      BY <1>1, <1>6, <2>2 DEF Frames
    <3>2. CASE Repeats(turn[w])
      <4>1. worker' = [worker EXCEPT ![w] = "send"] /\ UNCHANGED reads
        BY <1>8, <2>2, <3>2 DEF Check
      <4>2. Outcome(turn[w]) # "panics"
        BY <3>2, RepeatsAreRefused
      <4>3. WorkerInv(w)'
        BY <1>2, <1>3, <1>4, <1>5, <2>0, <3>1, <4>1, <4>2 DEF WorkerInv
      <4>4. ReadByWorkers'
        BY <1>2, <1>3, <1>4, <1>8, <2>0, <4>1 DEF ReadByWorkers, Check
      <4> QED BY <1>7, <4>3, <4>4
    <3>3. CASE ~Repeats(turn[w])
      <4>1. /\ worker' = [worker EXCEPT ![w] = "prepare"]
            /\ reads' = [reads EXCEPT ![turn[w]] = @ + 1]
        BY <1>8, <2>2, <3>3 DEF Check, Read
      <4>2. WorkerInv(w)'
        BY <1>2, <1>3, <1>4, <1>5, <2>0, <3>1, <4>1 DEF WorkerInv
      <4>3. ReadByWorkers'
        <5> SUFFICES ASSUME NEW i \in Frames, reads'[i] > 0
                     PROVE  LET v == Owner(i) IN
                              /\ i <= turn[v]
                              /\ i = turn[v] => worker'[v] # "check"
                              /\ Outcome(i) = "panics" =>
                                   i = turn[v] /\ worker'[v] \in {"prepare", "panicked"}
          BY <1>3, <2>0 DEF ReadByWorkers
        <5>1. CASE i = turn[w]
          BY <1>2, <1>6, <4>1, <5>1
        <5>2. CASE i # turn[w]
          <6>1. reads[i] > 0
            BY <1>2, <3>1, <4>1, <5>2
          <6> QED BY <1>2, <1>4, <1>8, <4>1, <5>2, <6>1 DEF ReadByWorkers, Check
        <5> QED BY <5>1, <5>2
      <4> QED BY <1>7, <4>2, <4>3
    <3> QED BY <3>2, <3>3
  <2> QED BY <2>1, <2>2
<1>9. CASE Prepare(w)
  <2>1. /\ worker[w] = "prepare" /\ UNCHANGED <<turn, queue, reads>>
        /\ worker' = [worker EXCEPT
             ![w] = IF Outcome(turn[w]) = "panics" THEN "panicked" ELSE "send"]
    BY <1>9 DEF Prepare
  <2>2. First(w)' = First(w)
    BY <1>3, <2>1 DEF First
  <2>3. WorkerInv(w)'
    BY <1>2, <1>3, <1>4, <1>5, <2>1, <2>2 DEF WorkerInv
  <2>4. ReadByWorkers'
    BY <1>2, <1>3, <1>4, <2>1 DEF ReadByWorkers
  <2> QED BY <1>7, <2>3, <2>4
<1>10. CASE Send(w)
  <2>1. /\ worker[w] = "send" /\ open /\ queue[w] = <<>> /\ UNCHANGED reads
        /\ queue' = [queue EXCEPT ![w] = Append(@, turn[w])]
        /\ turn' = [turn EXCEPT ![w] = @ + workers]
        /\ worker' = [worker EXCEPT ![w] = "check"]
    BY <1>10 DEF Send
  <2>2. turn'[w] = turn[w] + workers /\ worker'[w] = "check" /\ turn'[w] - workers = turn[w]
    BY <1>1, <1>2, <2>1
  <2>3. queue'[w] = <<turn[w]>>
    BY <1>2, <2>1
  <2>4. First(w)' = turn[w] /\ First(w) = turn[w]
    BY <1>3, <2>1, <2>2, <2>3 DEF First
  <2>5. Owner(turn'[w]) = w
    <3> DEFINE a == turn[w] - 1
    <3>1. a \in Nat /\ turn'[w] - 1 = a + workers /\ a % workers = w
      BY <1>1, <1>6, <2>2 DEF Owner
    <3> HIDE DEF a
    <3>2. (a + workers) % workers = a % workers
      BY <1>1, <3>1, ModOfSum
    <3> QED BY <3>1, <3>2 DEF Owner
  <2>6. turn[w] \in Current..(R + workers) /\ turn[w] \in Frames /\ Outcome(turn[w]) # "panics"
    BY <1>4, <2>1, <2>4 DEF WorkerInv, R
  <2>7. Current <= turn'[w] /\ turn'[w] <= R + 2 * workers
    BY <1>1, <1>6, <2>2, <2>6
  <2>8. WorkerInv(w)'
    <3>1. First(w)' \in Current'..(Len(reported') + workers)
      BY <1>5, <2>4, <2>6
    <3>2. Owner(turn[w])' = w
      BY <1>3, <2>5
    <3>3. queue'[w] = <<turn'[w] - workers>> /\ turn'[w] - workers \in Frames
          /\ Outcome(turn'[w] - workers) # "panics"
      BY <2>2, <2>3, <2>6
    <3> QED BY <1>3, <1>5, <2>1, <2>2, <2>7, <3>1, <3>2, <3>3 DEF WorkerInv
  <2>9. ReadByWorkers'
    <3> SUFFICES ASSUME NEW i \in Frames, reads'[i] > 0
                 PROVE  LET v == Owner(i) IN
                          /\ i <= turn'[v]
                          /\ i = turn'[v] => worker'[v] # "check"
                          /\ Outcome(i) = "panics" =>
                               i = turn'[v] /\ worker'[v] \in {"prepare", "panicked"}
      BY <1>3 DEF ReadByWorkers
    <3>1. reads[i] > 0
      BY <2>1
    <3>2. CASE Owner(i) = w
      <4>1. i <= turn[w] /\ Outcome(i) # "panics"
        BY <1>4, <2>1, <3>1, <3>2 DEF ReadByWorkers
      <4>2. i \in Nat /\ i <= turn'[w] /\ i # turn'[w]
        BY <1>1, <1>6, <2>2, <4>1 DEF Frames
      <4> QED BY <3>2, <4>1, <4>2
    <3>3. CASE Owner(i) # w
      <4>1. turn'[Owner(i)] = turn[Owner(i)] /\ worker'[Owner(i)] = worker[Owner(i)]
        BY <1>2, <2>1, <3>3
      <4> QED BY <1>4, <3>1, <4>1 DEF ReadByWorkers
    <3> QED BY <3>2, <3>3
  <2> QED BY <1>7, <2>8, <2>9
<1>11. CASE SendFails(w)
  <2>1. /\ worker[w] = "send" /\ ~open /\ UNCHANGED <<turn, queue, reads>>
        /\ worker' = [worker EXCEPT ![w] = "gone"]
    BY <1>11 DEF SendFails
  <2>2. First(w)' = First(w)
    BY <1>3, <2>1 DEF First
  <2>3. WorkerInv(w)'
    BY <1>2, <1>3, <1>4, <1>5, <2>1, <2>2 DEF WorkerInv
  <2>4. ReadByWorkers'
    BY <1>2, <1>3, <1>4, <2>1 DEF ReadByWorkers
  <2> QED BY <1>7, <2>3, <2>4
<1> QED BY <1>8, <1>9, <1>10, <1>11

LEMMA ThreadsStep ==
  ASSUME PipelineInv, mode = "threads", [Next]_vars
  PROVE  ThreadsInv'
<1>0. TypeOK /\ GivenInv /\ ThreadsInv /\ LoopInv /\ UNCHANGED given
  BY GivenStays DEF PipelineInv
<1>1. Frames' = Frames /\ Workers' = Workers /\ Threads' = Threads
  BY <1>0, ReadingsStay
<1>2. /\ ThreadsRest /\ ReadByWorkers
      /\ \A w \in Workers : WorkerInv(w)
  BY <1>0, ThreadsParts
<1>3. ASSUME UNCHANGED <<reported, open, worker, turn, queue, reads>>, stop => stop'
      PROVE  (\A w \in Workers : WorkerInv(w)') /\ ReadByWorkers'
  <2>1. \A w \in Workers : WorkerInv(w)'
    <3> SUFFICES ASSUME NEW w \in Workers PROVE WorkerInv(w)'
      OBVIOUS
    <3>1. WorkerInv(w) /\ UNCHANGED <<given, reported, open>>
      BY <1>0, <1>2, <1>3
    <3> QED BY <1>3, <3>1, WorkerStays
  <2>2. UNCHANGED <<given, turn, reads, worker>>
    BY <1>0, <1>3
  <2> QED BY <1>2, <2>1, <2>2, ReadsStay
<1>4. CASE AnswerYes \/ AnswerNo \/ CallbackPanics \/ LoopEnds \/ ReceiveFails
  <2>1. UNCHANGED <<reported, stop, open, worker, turn, queue, reads>>
    BY <1>4 DEF AnswerYes, AnswerNo, CallbackPanics, Unwind, LoopEnds, ReceiveFails, threadVars
  <2>2. UNCHANGED <<task, busy>>
    BY <1>4 DEF AnswerYes, AnswerNo, CallbackPanics, LoopEnds, ReceiveFails, poolVars
  <2>3. coord \in {"next", "callback"} /\ coord' \in {"next", "stop", "drop"}
    BY <1>4 DEF AnswerYes, AnswerNo, CallbackPanics, Unwind, LoopEnds, ReceiveFails
  <2>4. ThreadsRest'
    BY <1>1, <1>2, <2>1, <2>2, <2>3 DEF ThreadsRest
  <2> QED BY <1>1, <1>3, <2>1, <2>4, ThreadsParts
<1>5. CASE RaiseStop
  <2>1. UNCHANGED <<reported, open, worker, turn, queue, reads>> /\ stop'
    BY <1>5 DEF RaiseStop
  <2>2. UNCHANGED <<task, busy>> /\ coord = "stop" /\ coord' = "drop"
    BY <1>5 DEF RaiseStop, poolVars
  <2>3. ThreadsRest'
    BY <1>1, <1>2, <2>1, <2>2 DEF ThreadsRest
  <2> QED BY <1>1, <1>3, <2>1, <2>3, ThreadsParts
<1>6. CASE UNCHANGED vars
  <2>1. /\ UNCHANGED <<reported, stop, open, worker, turn, queue, reads>>
        /\ UNCHANGED <<task, busy, coord, panicking>>
    BY <1>6 DEF vars, threadVars, poolVars
  <2>2. ThreadsRest'
    BY <1>1, <1>2, <2>1 DEF ThreadsRest
  <2> QED BY <1>1, <1>3, <2>1, <2>2, ThreadsParts
<1>7. CASE Receive
  <2>1. UNCHANGED <<stop, open, worker, turn, task, busy, reads>> /\ coord = "next"
        /\ coord' = "callback"
    BY <1>7 DEF Receive, Integrate, poolVars
  <2>2. ThreadsRest'
    BY <1>1, <1>2, <2>1 DEF ThreadsRest
  <2>3. \A w \in Workers : WorkerInv(w)'
    BY <1>0, <1>7, ReceiveKeepsWorkers
  <2>4. ReadByWorkers'
    BY <1>0, <1>2, <2>1, ReadsStay
  <2> QED BY <1>1, <2>2, <2>3, <2>4, ThreadsParts
<1>8. CASE DropReceivers
  <2>1. /\ UNCHANGED <<reported, stop, worker, turn, task, busy, reads>> /\ ~open'
        /\ queue' = [w \in Workers |-> <<>>] /\ coord' = "join"
    BY <1>8 DEF DropReceivers, poolVars
  <2>2. ThreadsRest'
    BY <1>1, <1>2, <2>1 DEF ThreadsRest
  <2>3. ASSUME NEW w \in Workers PROVE WorkerInv(w)'
    <3>1. queue'[w] = <<>> /\ WorkerInv(w) /\ Current' = Current
      BY <1>2, <2>1 DEF Current
    <3>2. /\ UNCHANGED <<workers, batch>>
          /\ \A i : Owner(i)' = Owner(i)
          /\ \A i : Outcome(i)' = Outcome(i)
      BY <1>0, ReadingsStay DEF given
    <3> QED BY <1>1, <2>1, <3>1, <3>2 DEF WorkerInv
  <2>4. ReadByWorkers'
    BY <1>0, <1>2, <2>1, ReadsStay
  <2> QED BY <1>1, <2>2, <2>3, <2>4, ThreadsParts
<1>9. CASE JoinWorkers
  <2>1. /\ UNCHANGED <<reported, stop, open, worker, turn, queue, task, busy, reads>>
        /\ coord' = "done" /\ \A w \in Workers : worker[w] \in {"gone", "panicked"}
        /\ panicking' <=> (panicking \/ \E w \in Workers : worker[w] = "panicked")
    BY <1>9 DEF JoinWorkers, threadVars, poolVars
  <2>2. ThreadsRest'
    BY <1>1, <1>2, <2>1 DEF ThreadsRest
  <2> QED BY <1>1, <1>3, <2>1, <2>2, ThreadsParts
<1>10. ASSUME NEW w \in Workers, Check(w) \/ Prepare(w) \/ Send(w) \/ SendFails(w)
      PROVE  ThreadsInv'
  <2>1. UNCHANGED <<coord, panicking, stop, open, task, busy>> /\ worker[w] \notin {"gone", "panicked"}
    BY <1>10 DEF Check, Prepare, Send, SendFails, poolVars
  <2>2. ThreadsRest'
    BY <1>1, <1>2, <2>1 DEF ThreadsRest
  <2>3. (\A v \in Workers : WorkerInv(v)') /\ ReadByWorkers'
    BY <1>0, <1>10, WorkerStepKeeps
  <2> QED BY <1>1, <2>2, <2>3, ThreadsParts
<1> QED BY <1>4, <1>5, <1>6, <1>7, <1>8, <1>9, <1>10, StepsOfThreads
-----------------------------------------------------------------------------
(* What a step of the pool mode leaves alone. *)

\* The calling thread's own frame, and the end.
CallersTask == coord = "inline" => task[Current] = "running" /\ Unheld(Current)
NoneLeft == coord = "done" => Undropped = {} /\ \A t \in Threads : busy[t] = <<>>

LEMMA PoolParts ==
  /\ PoolInv <=>
       /\ ~open /\ (\A w \in Workers : worker[w] = "gone" /\ queue[w] = <<>>)
       /\ WindowInv /\ (\A i \in Frames : TaskInv(i)) /\ BusyInv /\ CallersTask /\ NoneLeft
  /\ PoolInv' <=>
       /\ ~open' /\ (\A w \in Workers' : worker'[w] = "gone" /\ queue'[w] = <<>>)
       /\ WindowInv' /\ (\A i \in Frames' : TaskInv(i)') /\ BusyInv' /\ CallersTask' /\ NoneLeft'
BY DEF PoolInv, CallersTask, NoneLeft

LEMMA TaskStays ==
  ASSUME NEW i, TaskInv(i), UNCHANGED given, task'[i] = task[i], reads'[i] = reads[i],
         i > spawned' <=> i > spawned, i <= spawned' => i <= spawned,
         i <= Len(reported') => i <= Len(reported) \/ task[i] = "gone",
         panicking => panicking'
  PROVE  TaskInv(i)'
BY ReadingsStay DEF TaskInv

LEMMA BusyStays ==
  ASSUME BusyInv, UNCHANGED given, UNCHANGED busy,
         \A t \in Threads : \A n \in 1..Len(busy[t]) :
           task[busy[t][n]] \in {"running", "left"} => task'[busy[t][n]] \in {"running", "left"}
  PROVE  BusyInv'
BY ReadingsStay DEF BusyInv

\* A task has one place.
LEMMA HeldOnce ==
  ASSUME BusyInv, NEW t \in Threads, NEW u \in Threads, NEW n \in 1..Len(busy[t]),
         NEW k \in 1..Len(busy[u]), busy[t][n] = busy[u][k]
  PROVE  t = u /\ n = k
BY DEF BusyInv

\* Nothing runs a task that is not begun.
LEMMA UnbegunIsUnheld ==
  ASSUME BusyInv, NEW i, task[i] \notin {"running", "left"}
  PROVE  Unheld(i)
BY DEF BusyInv, Unheld

\* No step of this mode is a worker's.
LEMMA PoolIsUnthreaded ==
  ASSUME PipelineInv, mode = "pool", [Next]_vars
  PROVE  UNCHANGED <<open, worker, queue>>
<1>1. CASE UNCHANGED vars
  BY <1>1 DEF vars, threadVars
<1>2. CASE AnswerYes \/ AnswerNo \/ CallbackPanics \/ LoopEnds \/ Spawn \/ Refuse
           \/ JoinTakes \/ JoinWaits \/ Collect \/ DropTask \/ ScopeEnds
  BY <1>2 DEF AnswerYes, AnswerNo, CallbackPanics, LoopEnds, Spawn, Refuse, JoinTakes, JoinWaits,
     Collect, DropTask, ScopeEnds, threadVars
<1>3. ASSUME NEW t \in Threads, FinishTask(t) PROVE UNCHANGED <<open, worker, queue>>
  BY <1>3 DEF FinishTask, threadVars
<1>4. ASSUME NEW t \in Threads, NEW i \in Frames, TakeTask(t, i)
      PROVE  UNCHANGED <<open, worker, queue>>
  BY <1>4 DEF TakeTask, threadVars
<1>5. ASSUME NEW i \in Frames, ReadThrough(i) PROVE UNCHANGED <<open, worker, queue>>
  BY <1>5 DEF ReadThrough, threadVars
<1> QED BY <1>1, <1>2, <1>3, <1>4, <1>5, StepsOfPool

\* What a step that leaves the window and its tasks alone keeps.
LEMMA WindowStays ==
  ASSUME PoolInv, UNCHANGED given, UNCHANGED <<reported, spawned, task, busy, reads>>,
         panicking => panicking'
  PROVE  /\ WindowInv' /\ (\A i \in Frames' : TaskInv(i)') /\ BusyInv'
         /\ UNCHANGED Undropped
<1>1. WindowInv /\ (\A i \in Frames : TaskInv(i)) /\ BusyInv
  BY PoolParts
<1>2. WindowInv' /\ UNCHANGED Undropped
  BY <1>1 DEF WindowInv, given, Undropped
<1>3. Frames' = Frames
  BY ReadingsStay
<1>4. ASSUME NEW i \in Frames PROVE TaskInv(i)'
  BY <1>1, TaskStays
<1>5. BusyInv'
  BY <1>1, BusyStays
<1> QED BY <1>2, <1>3, <1>4, <1>5

\* What is read of the state in these proofs.
LEMMA PoolReadings ==
  ASSUME PipelineInv, mode = "pool"
  PROVE  /\ Len(reported) \in Nat /\ Current \in Nat \ {0} /\ Current = Len(reported) + 1
         /\ workers \in Nat \ {0} /\ Len(batch) \in Nat /\ spawned \in Nat
         /\ spawned <= Len(batch)
         /\ task \in [Frames -> {"none", "queued", "running", "sent", "left", "gone"}]
         /\ reads \in [Frames -> Nat] /\ busy \in [Threads -> Seq(Frames)]
         /\ WindowInv /\ (\A i \in Frames : TaskInv(i)) /\ BusyInv /\ CallersTask /\ NoneLeft
<1>1. Len(reported) \in Nat /\ Current \in Nat \ {0} /\ Current = Len(reported) + 1
      /\ workers \in Nat \ {0} /\ Len(batch) \in Nat
  BY CurrentIsFrame DEF PipelineInv, Current, GivenInv
<1>2. spawned \in 0..Len(batch)
  BY DEF PipelineInv, TypeOK
<1>3. task \in [Frames -> {"none", "queued", "running", "sent", "left", "gone"}]
      /\ reads \in [Frames -> Nat] /\ busy \in [Threads -> Seq(Frames)]
  BY DEF PipelineInv, TypeOK
<1>4. WindowInv /\ (\A i \in Frames : TaskInv(i)) /\ BusyInv /\ CallersTask /\ NoneLeft
  BY PoolParts DEF PipelineInv
<1> QED BY <1>1, <1>2, <1>3, <1>4

\* The window grows by a frame with no task yet.
LEMMA SpawnKeeps ==
  ASSUME PipelineInv, mode = "pool", UNCHANGED given, Spawn
  PROVE  WindowInv' /\ (\A i \in Frames : TaskInv(i)') /\ BusyInv'
<1> DEFINE R == Len(reported)
           s == spawned + 1
<1>0. /\ R \in Nat /\ workers \in Nat \ {0} /\ Len(batch) \in Nat /\ spawned \in Nat
      /\ task \in [Frames -> {"none", "queued", "running", "sent", "left", "gone"}]
      /\ WindowInv /\ (\A i \in Frames : TaskInv(i)) /\ BusyInv /\ spawned <= Len(batch)
      /\ reads \in [Frames -> Nat] /\ busy \in [Threads -> Seq(Frames)]
  BY PoolReadings
<1>1. /\ spawned' = s /\ task' = [task EXCEPT ![s] = IF Repeats(s) THEN "gone" ELSE "queued"]
      /\ UNCHANGED <<reported, busy, reads>> /\ spawned # Len(batch) /\ spawned - R < workers
    <2>1. /\ ~WindowIsFull /\ spawned' = s
          /\ task' = [task EXCEPT ![spawned'] = IF Repeats(spawned') THEN "gone" ELSE "queued"]
      BY DEF Spawn
    <2>2. UNCHANGED <<reported, busy, reads>>
      BY DEF Spawn
    <2>3. spawned # Len(batch) /\ spawned - R < workers
      BY <1>0, <2>1 DEF WindowIsFull
    <2> QED BY <2>1, <2>2, <2>3
<1>2. panicking => panicking'
  BY DEF Spawn
<1>3. s \in Frames /\ s > spawned /\ R < s
  BY <1>0, <1>1 DEF Frames, WindowInv
<1>4. WindowInv'
  BY <1>0, <1>1 DEF WindowInv, given
<1>5. task[s] = "none" /\ reads[s] = 0
  BY <1>0, <1>3 DEF TaskInv
<1>6. \A i \in Frames : i # s => task'[i] = task[i]
  BY <1>0, <1>1
<1>7. ASSUME NEW i \in Frames PROVE TaskInv(i)'
  <2>1. CASE i # s
    <3>1. i \in Nat
      BY DEF Frames
    <3>2. (i > spawned' <=> i > spawned) /\ (i <= spawned' => i <= spawned)
      BY <1>0, <1>1, <2>1, <3>1
    <3> QED BY <1>0, <1>1, <1>2, <1>6, <2>1, <3>2, TaskStays
  <2>2. CASE i = s
    <3>1. task'[i] = IF Repeats(i) THEN "gone" ELSE "queued"
      BY <1>0, <1>1, <1>3, <2>2
    <3>2. (Repeats(i)' <=> Repeats(i)) /\ Outcome(i)' = Outcome(i)
      BY ReadingsStay
    <3>3. ~(i > spawned') /\ ~(i <= Len(reported')) /\ reads'[i] = 0
      BY <1>0, <1>1, <1>3, <1>5, <2>2
    <3> QED BY <3>1, <3>2, <3>3 DEF TaskInv
  <2> QED BY <2>1, <2>2
<1>8. BusyInv'
  <2>1. ASSUME NEW t \in Threads, NEW n \in 1..Len(busy[t]),
               task[busy[t][n]] \in {"running", "left"}
        PROVE  task'[busy[t][n]] \in {"running", "left"}
    <3>1. busy[t][n] \in Frames
      BY <1>0, ElementOfSeq
    <3> QED BY <1>5, <1>6, <2>1, <3>1
  <2> QED BY <1>0, <1>1, <2>1, BusyStays
<1> QED BY <1>4, <1>7, <1>8

\* One more outcome is told: of a repeat, whose task never was.
LEMMA RefuseKeeps ==
  ASSUME PipelineInv, mode = "pool", UNCHANGED given, Refuse
  PROVE  WindowInv' /\ (\A i \in Frames : TaskInv(i)') /\ BusyInv'
<1> DEFINE R == Len(reported)
<1>0. /\ R \in Nat /\ workers \in Nat \ {0} /\ spawned \in Nat /\ Current = R + 1
      /\ WindowInv /\ (\A i \in Frames : TaskInv(i)) /\ BusyInv
  BY PoolReadings
<1>1. /\ UNCHANGED <<spawned, task, busy, reads, panicking>> /\ Integrate(Current)
      /\ Repeats(Current)
  BY DEF Refuse, poolVars
<1>2. Current \in Frames /\ Current \in 1..spawned
  BY FullWindow DEF Refuse
<1>3. Len(reported') = R + 1
  <2>1. reported \in Seq({"good", "unreadable", "duplicate"})
    BY DEF PipelineInv, TypeOK
  <2> QED BY <1>1, <2>1 DEF Integrate
<1>4. WindowInv'
  BY <1>0, <1>1, <1>2, <1>3 DEF WindowInv, given
<1>5. task[Current] = "gone"
  BY <1>0, <1>1, <1>2 DEF TaskInv
<1>6. ASSUME NEW i \in Frames PROVE TaskInv(i)'
  <2>1. i \in Nat
    BY DEF Frames
  <2>2. i <= Len(reported') => i <= R \/ task[i] = "gone"
    BY <1>0, <1>3, <1>5, <2>1
  <2> QED BY <1>0, <1>1, <2>2, TaskStays
<1>7. BusyInv'
  BY <1>0, <1>1, BusyStays
<1> QED BY <1>4, <1>6, <1>7

\* The task collected is the calling thread's, and no thread of the pool has it.
LEMMA CollectKeeps ==
  ASSUME PipelineInv, mode = "pool", UNCHANGED given, Collect
  PROVE  WindowInv' /\ (\A i \in Frames : TaskInv(i)') /\ BusyInv'
<1> DEFINE R == Len(reported)
           c == Current
<1>0. /\ R \in Nat /\ workers \in Nat \ {0} /\ spawned \in Nat /\ c = R + 1
      /\ WindowInv /\ (\A i \in Frames : TaskInv(i)) /\ BusyInv /\ CallersTask
      /\ task \in [Frames -> {"none", "queued", "running", "sent", "left", "gone"}]
      /\ busy \in [Threads -> Seq(Frames)]
  BY PoolReadings
<1>1. /\ UNCHANGED <<spawned, busy, reads>> /\ task' = [task EXCEPT ![c] = "gone"]
      /\ coord = "inline" \/ (coord = "wait" /\ task[c] = "sent")
  BY DEF Collect
<1>2. c \in Frames /\ c \in 1..spawned
  BY <1>1, CollectedIsCurrent
<1>3. BusyInv'
  <2>1. Unheld(c)
    BY <1>0, <1>1, UnbegunIsUnheld DEF CallersTask
  <2>2. ASSUME NEW t \in Threads, NEW n \in 1..Len(busy[t])
        PROVE  task'[busy[t][n]] = task[busy[t][n]]
    <3>1. busy[t][n] \in Frames /\ busy[t][n] # c
      BY <1>0, <2>1, ElementOfSeq DEF Unheld
    <3> QED BY <1>0, <1>1, <3>1
  <2> QED BY <1>0, <1>1, <2>2, BusyStays
<1>4. CASE Outcome(c) = "panics"
  <2>1. Len(reported') = R /\ panicking'
    BY <1>4 DEF Collect, Unwind
  <2>2. WindowInv'
    BY <1>0, <1>1, <2>1 DEF WindowInv, given
  <2>3. ASSUME NEW i \in Frames PROVE TaskInv(i)'
    <3>1. CASE i = c
      <4>1. task'[i] = "gone" /\ ~(i > spawned')
        BY <1>0, <1>1, <1>2, <3>1
      <4> QED BY <2>1, <4>1 DEF TaskInv
    <3>2. CASE i # c
      <4>1. task'[i] = task[i] /\ reads'[i] = reads[i]
        BY <1>0, <1>1, <3>2
      <4> QED BY <1>0, <1>1, <2>1, <4>1, TaskStays
    <3> QED BY <3>1, <3>2
  <2> QED BY <1>3, <2>2, <2>3
<1>5. CASE Outcome(c) # "panics"
  <2>1. Integrate(c) /\ UNCHANGED panicking
    BY <1>5 DEF Collect
  <2>2. Len(reported') = R + 1
    <3>1. reported \in Seq({"good", "unreadable", "duplicate"})
      BY DEF PipelineInv, TypeOK
    <3> QED BY <2>1, <3>1 DEF Integrate
  <2>3. WindowInv'
    BY <1>0, <1>1, <1>2, <2>2 DEF WindowInv, given
  <2>4. ASSUME NEW i \in Frames PROVE TaskInv(i)'
    <3>0. i \in Nat
      BY DEF Frames
    <3>1. CASE i = c
      <4>1. task'[i] = "gone" /\ ~(i > spawned')
        BY <1>0, <1>1, <1>2, <3>1
      <4>2. Outcome(i)' # "panics"
        BY <1>5, <3>1, ReadingsStay
      <4> QED BY <4>1, <4>2 DEF TaskInv
    <3>2. CASE i # c
      <4>1. task'[i] = task[i] /\ reads'[i] = reads[i]
        BY <1>0, <1>1, <3>2
      <4>2. i <= Len(reported') => i <= R
        BY <1>0, <2>2, <3>0, <3>2
      <4> QED BY <1>0, <1>1, <2>1, <4>1, <4>2, TaskStays
    <3> QED BY <3>1, <3>2
  <2> QED BY <1>3, <2>3, <2>4
<1> QED BY <1>4, <1>5

\* The calling thread takes a task nobody has begun.
LEMMA JoinTakesKeeps ==
  ASSUME PipelineInv, mode = "pool", UNCHANGED given, JoinTakes
  PROVE  /\ WindowInv' /\ (\A i \in Frames : TaskInv(i)') /\ BusyInv'
         /\ CallersTask'
<1> DEFINE R == Len(reported)
<1>0. /\ R \in Nat /\ workers \in Nat \ {0} /\ spawned \in Nat /\ Current = R + 1
      /\ WindowInv /\ (\A i \in Frames : TaskInv(i)) /\ BusyInv
      /\ task \in [Frames -> {"none", "queued", "running", "sent", "left", "gone"}]
      /\ reads \in [Frames -> Nat] /\ busy \in [Threads -> Seq(Frames)]
  BY PoolReadings
<1>1. /\ UNCHANGED <<reported, spawned, busy, panicking>> /\ task[Current] = "queued"
      /\ task' = [task EXCEPT ![Current] = "running"]
      /\ reads' = [reads EXCEPT ![Current] = @ + 1]
  BY DEF JoinTakes, Read
<1>2. Current \in Frames /\ Current \in 1..spawned
  BY FullWindow DEF JoinTakes
<1>3. WindowInv' /\ Current' = Current /\ Threads' = Threads
  BY <1>0, <1>1, ReadingsStay DEF WindowInv, given, Current
<1>4. ASSUME NEW i \in Frames PROVE TaskInv(i)'
  <2>1. CASE i = Current
    <3>1. task'[i] = "running" /\ task[i] = "queued" /\ TaskInv(i)
      BY <1>0, <1>1, <1>2, <2>1
    <3>2. (Repeats(i)' <=> Repeats(i)) /\ Outcome(i)' = Outcome(i)
      BY ReadingsStay
    <3> QED BY <1>0, <1>1, <1>2, <2>1, <3>1, <3>2 DEF TaskInv
  <2>2. CASE i # Current
    <3>1. task'[i] = task[i] /\ reads'[i] = reads[i]
      BY <1>0, <1>1, <2>2
    <3> QED BY <1>0, <1>1, <3>1, TaskStays
  <2> QED BY <2>1, <2>2
<1>5. Unheld(Current)
  BY <1>0, <1>1, UnbegunIsUnheld
<1>6. BusyInv'
  <2>1. ASSUME NEW t \in Threads, NEW n \in 1..Len(busy[t])
        PROVE  task'[busy[t][n]] = task[busy[t][n]]
    <3>1. busy[t][n] \in Frames /\ busy[t][n] # Current
      BY <1>0, <1>5, ElementOfSeq DEF Unheld
    <3> QED BY <1>0, <1>1, <3>1
  <2> QED BY <1>0, <1>1, <2>1, BusyStays
<1>7. CallersTask'
  <2>1. task'[Current] = "running"
    BY <1>0, <1>1, <1>2
  <2>2. Unheld(Current)'
    BY <1>1, <1>3, <1>5 DEF Unheld
  <2> QED BY <1>3, <2>1, <2>2 DEF CallersTask
<1> QED BY <1>3, <1>4, <1>6, <1>7

\* A task of the window is dropped: left to whoever runs it, or gone.
LEMMA DropTaskKeeps ==
  ASSUME PipelineInv, mode = "pool", UNCHANGED given, DropTask
  PROVE  WindowInv' /\ (\A i \in Frames : TaskInv(i)') /\ BusyInv'
<1> DEFINE R == Len(reported)
<1>0. /\ R \in Nat /\ workers \in Nat \ {0} /\ spawned \in Nat /\ Len(batch) \in Nat
      /\ WindowInv /\ (\A i \in Frames : TaskInv(i)) /\ BusyInv /\ spawned <= Len(batch)
      /\ task \in [Frames -> {"none", "queued", "running", "sent", "left", "gone"}]
      /\ reads \in [Frames -> Nat] /\ busy \in [Threads -> Seq(Frames)]
  BY PoolReadings
<1>1. PICK o \in Undropped :
        /\ task[o] = "running" => panicking
        /\ task' = [task EXCEPT ![o] = IF @ = "running" THEN "left" ELSE "gone"]
        /\ panicking' = (panicking \/ (task[o] = "sent" /\ Outcome(o) = "panics"))
  BY <1>0, OldestIsLeft DEF DropTask
<1>2. UNCHANGED <<reported, spawned, busy, reads>>
  BY DEF DropTask
<1>3. o \in Frames /\ o \in 1..spawned /\ task[o] \in {"queued", "running", "sent"}
  BY <1>0 DEF Undropped, Frames
<1>4. WindowInv'
  BY <1>0, <1>2 DEF WindowInv, given
<1>5. panicking => panicking'
  BY <1>1
<1>6. ASSUME NEW i \in Frames PROVE TaskInv(i)'
  <2>0. (Repeats(i)' <=> Repeats(i)) /\ Outcome(i)' = Outcome(i) /\ TaskInv(i)
    BY <1>0, ReadingsStay
  <2>1. CASE i # o
    <3>1. task'[i] = task[i] /\ reads'[i] = reads[i]
      BY <1>0, <1>1, <1>2, <2>1
    <3> QED BY <1>0, <1>2, <1>5, <3>1, TaskStays
  <2>2. CASE i = o /\ task[o] = "running"
    <3>1. task'[i] = "left" /\ panicking'
      BY <1>0, <1>1, <1>5, <2>2
    <3> QED BY <1>0, <1>2, <1>3, <2>0, <2>2, <3>1 DEF TaskInv
  <2>3. CASE i = o /\ task[o] = "sent"
    <3>1. task'[i] = "gone" /\ (Outcome(i) = "panics" => panicking')
      BY <1>0, <1>1, <2>3
    <3> QED BY <1>0, <1>2, <1>3, <2>0, <2>3, <3>1 DEF TaskInv
  <2>4. CASE i = o /\ task[o] = "queued"
    <3>1. task'[i] = "gone" /\ reads'[i] = 0
      BY <1>0, <1>1, <1>2, <2>0, <2>4 DEF TaskInv
    <3> QED BY <1>0, <1>2, <1>3, <2>0, <2>4, <3>1 DEF TaskInv
  <2> QED BY <1>3, <2>1, <2>2, <2>3, <2>4
<1>7. BusyInv'
  <2>1. ASSUME NEW t \in Threads, NEW n \in 1..Len(busy[t]),
               task[busy[t][n]] \in {"running", "left"}
        PROVE  task'[busy[t][n]] \in {"running", "left"}
    <3> DEFINE i == busy[t][n]
    <3>1. i \in Frames /\ task[i] \in {"running", "left"}
      BY <1>0, <2>1, ElementOfSeq
    <3> HIDE DEF i
    <3>2. i # o => task'[i] = task[i]
      BY <1>0, <1>1, <3>1
    <3>3. i = o => task'[i] = "left"
      BY <1>0, <1>1, <1>3, <3>1
    <3>4. task'[i] \in {"running", "left"}
      BY <3>1, <3>2, <3>3
    <3> QED BY <3>4 DEF i
  <2> QED BY <1>0, <1>2, <2>1, BusyStays
<1> QED BY <1>4, <1>6, <1>7

\* A thread of the pool begins a task nobody has.
LEMMA TakeTaskKeeps ==
  ASSUME PipelineInv, mode = "pool", UNCHANGED given, NEW t \in Threads, NEW i \in Frames,
         TakeTask(t, i)
  PROVE  /\ WindowInv' /\ (\A j \in Frames : TaskInv(j)') /\ BusyInv'
         /\ CallersTask' /\ NoneLeft'
<1> DEFINE R == Len(reported)
           L == Len(busy[t])
<1>0. /\ R \in Nat /\ workers \in Nat \ {0} /\ spawned \in Nat /\ Len(batch) \in Nat
      /\ WindowInv /\ (\A j \in Frames : TaskInv(j)) /\ BusyInv /\ CallersTask /\ NoneLeft
      /\ task \in [Frames -> {"none", "queued", "running", "sent", "left", "gone"}]
      /\ reads \in [Frames -> Nat] /\ busy \in [Threads -> Seq(Frames)]
  BY PoolReadings
<1>1. /\ task[i] = "queued" /\ task' = [task EXCEPT ![i] = "running"]
      /\ reads' = [reads EXCEPT ![i] = @ + 1]
      /\ UNCHANGED <<reported, spawned, coord>> /\ UNCHANGED panicking
  BY DEF TakeTask, Read
<1>2. busy' = [busy EXCEPT ![t] = Append(@, i)]
  BY DEF TakeTask
<1>3. WindowInv' /\ Current' = Current /\ Threads' = Threads
  BY <1>0, <1>1, ReadingsStay DEF WindowInv, given, Current
<1>4. Unheld(i)
  BY <1>0, <1>1, UnbegunIsUnheld
<1>5. /\ busy'[t] = Append(busy[t], i) /\ L \in Nat /\ Len(busy'[t]) = L + 1
      /\ busy'[t][L + 1] = i
      /\ \A n \in 1..L : busy'[t][n] = busy[t][n]
  BY <1>0, <1>2, AppendProperties, LenProperties
<1>6. \A u \in Threads : u # t => busy'[u] = busy[u]
  BY <1>0, <1>2
<1> HIDE DEF L
<1>7. ASSUME NEW u \in Threads, NEW n \in 1..Len(busy'[u])
      PROVE  \/ u = t /\ n = L + 1 /\ busy'[u][n] = i
             \/ n \in 1..Len(busy[u]) /\ busy'[u][n] = busy[u][n] /\ busy[u][n] # i
  <2>1. CASE u = t
    BY <1>4, <1>5, <1>7, <2>1 DEF Unheld, L
  <2>2. CASE u # t
    BY <1>4, <1>6, <1>7, <2>2 DEF Unheld
  <2> QED BY <2>1, <2>2
<1>8. ASSUME NEW j \in Frames PROVE TaskInv(j)'
  <2>1. CASE j = i
    <3>1. task'[j] = "running" /\ task[j] = "queued" /\ TaskInv(j)
      BY <1>0, <1>1, <2>1
    <3>2. (Repeats(j)' <=> Repeats(j)) /\ Outcome(j)' = Outcome(j)
      BY ReadingsStay
    <3> QED BY <1>0, <1>1, <2>1, <3>1, <3>2 DEF TaskInv
  <2>2. CASE j # i
    <3>1. task'[j] = task[j] /\ reads'[j] = reads[j]
      BY <1>0, <1>1, <2>2
    <3> QED BY <1>0, <1>1, <3>1, TaskStays
  <2> QED BY <2>1, <2>2
<1>9. BusyInv'
  <2>1. ASSUME NEW u \in Threads, NEW n \in 1..Len(busy'[u])
        PROVE  task'[busy'[u][n]] \in {"running", "left"}
    <3>1. CASE busy'[u][n] = i
      BY <1>0, <1>1, <3>1
    <3>2. CASE n \in 1..Len(busy[u]) /\ busy'[u][n] = busy[u][n] /\ busy[u][n] # i
      <4> DEFINE j == busy[u][n]
      <4>1. j \in Frames /\ task[j] \in {"running", "left"} /\ j # i
        BY <1>0, <3>2, ElementOfSeq DEF BusyInv
      <4> HIDE DEF j
      <4>2. task'[j] \in {"running", "left"}
        BY <1>0, <1>1, <4>1
      <4> QED BY <3>2, <4>2 DEF j
    <3> QED BY <1>7, <3>1, <3>2
  <2>2. ASSUME NEW u \in Threads, NEW v \in Threads, NEW n \in 1..Len(busy'[u]),
               NEW k \in 1..Len(busy'[v]), busy'[u][n] = busy'[v][k]
        PROVE  u = v /\ n = k
    <3>1. CASE busy'[u][n] = i
      <4>1. u = t /\ n = L + 1
        BY <1>7, <3>1
      <4>2. busy'[v][k] = i
        BY <2>2, <3>1
      <4>3. v = t /\ k = L + 1
        BY <1>7, <4>2
      <4> QED BY <4>1, <4>3
    <3>2. CASE busy'[u][n] # i
      <4>1. n \in 1..Len(busy[u]) /\ busy'[u][n] = busy[u][n]
        BY <1>7, <3>2
      <4>2. k \in 1..Len(busy[v]) /\ busy'[v][k] = busy[v][k]
        BY <1>7, <2>2, <3>2
      <4>3. BusyInv /\ busy[u][n] = busy[v][k]
        BY <1>0, <2>2, <4>1, <4>2
      <4> QED BY <4>1, <4>2, <4>3, HeldOnce
    <3> QED BY <3>1, <3>2
  <2> QED BY <1>3, <2>1, <2>2 DEF BusyInv
<1>10. CallersTask'
  <2> SUFFICES ASSUME coord = "inline" PROVE task'[Current] = "running" /\ Unheld(Current)'
    BY <1>1, <1>3 DEF CallersTask
  <2>1. task[Current] = "running" /\ Unheld(Current) /\ Current \in Frames
    BY <1>0, CollectedIsCurrent DEF CallersTask
  <2>2. Current # i /\ task'[Current] = "running"
    BY <1>0, <1>1, <2>1
  <2>3. Unheld(Current)'
    BY <1>3, <1>7, <2>1, <2>2 DEF Unheld
  <2> QED BY <2>2, <2>3
<1>11. NoneLeft'
  <2>1. i \in Undropped
    BY <1>0, <1>1 DEF TaskInv, Undropped, Frames
  <2> QED BY <1>0, <1>1, <2>1 DEF NoneLeft
<1> QED BY <1>3, <1>8, <1>9, <1>10, <1>11

\* A thread of the pool is done with the task it began last.
LEMMA FinishTaskKeeps ==
  ASSUME PipelineInv, mode = "pool", UNCHANGED given, NEW t \in Threads, FinishTask(t)
  PROVE  /\ WindowInv' /\ (\A j \in Frames : TaskInv(j)') /\ BusyInv'
         /\ CallersTask' /\ NoneLeft'
<1> DEFINE R == Len(reported)
           L == Len(busy[t])
           i == busy[t][L]
<1>0. /\ R \in Nat /\ workers \in Nat \ {0} /\ spawned \in Nat /\ Len(batch) \in Nat
      /\ WindowInv /\ (\A j \in Frames : TaskInv(j)) /\ BusyInv /\ CallersTask /\ NoneLeft
      /\ task \in [Frames -> {"none", "queued", "running", "sent", "left", "gone"}]
      /\ reads \in [Frames -> Nat] /\ busy \in [Threads -> Seq(Frames)]
  BY PoolReadings
<1>1. /\ busy[t] # <<>> /\ task' = [task EXCEPT ![i] = IF @ = "left" THEN "gone" ELSE "sent"]
      /\ UNCHANGED <<reported, spawned, coord, reads>>
      /\ busy' = [busy EXCEPT ![t] = SubSeq(@, 1, Len(@) - 1)]
  BY DEF FinishTask
<1>2. panicking' <=> (panicking \/ (task[i] = "left" /\ Outcome(i) = "panics"))
  BY DEF FinishTask
<1>3. WindowInv' /\ Current' = Current /\ Threads' = Threads
  BY <1>0, <1>1, ReadingsStay DEF WindowInv, given, Current
<1>4. L \in Nat \ {0} /\ L \in 1..L
  BY <1>0, <1>1, EmptySeq, LenProperties
<1>5. i \in Frames /\ task[i] \in {"running", "left"}
  BY <1>0, <1>4, ElementOfSeq DEF BusyInv
<1>6. /\ busy'[t] = SubSeq(busy[t], 1, L - 1) /\ Len(busy'[t]) = L - 1
      /\ \A n \in 1..(L - 1) : busy'[t][n] = busy[t][n]
  <2> DEFINE q == busy[t]
  <2>1. q \in Seq(Frames) /\ busy'[t] = SubSeq(q, 1, L - 1) /\ L = Len(q)
    BY <1>0, <1>1
  <2> HIDE DEF q, L
  <2>2. 1 \in 1..(Len(q) + 1) /\ L - 1 \in 0..Len(q)
    BY <1>4, <2>1
  <2>3. /\ Len(SubSeq(q, 1, L - 1)) = L - 1
        /\ \A n \in 1..(L - 1) : SubSeq(q, 1, L - 1)[n] = q[n]
    BY <1>4, <2>1, <2>2
  <2> QED BY <2>1, <2>3 DEF q
<1>7. \A u \in Threads : u # t => busy'[u] = busy[u]
  BY <1>0, <1>1
<1>8. ASSUME NEW u \in Threads, NEW n \in 1..Len(busy'[u])
      PROVE  n \in 1..Len(busy[u]) /\ busy'[u][n] = busy[u][n] /\ busy[u][n] # i
  <2>1. n \in 1..Len(busy[u]) /\ busy'[u][n] = busy[u][n] /\ ~(u = t /\ n = L)
    BY <1>4, <1>6, <1>7, <1>8
  <2> QED BY <1>0, <1>4, <2>1 DEF BusyInv
<1> HIDE DEF L, i
<1>9. ASSUME NEW j \in Frames PROVE TaskInv(j)'
  <2>0. (Repeats(j)' <=> Repeats(j)) /\ Outcome(j)' = Outcome(j) /\ TaskInv(j)
    BY <1>0, ReadingsStay
  <2>1. CASE j # i
    <3>1. task'[j] = task[j] /\ reads'[j] = reads[j]
      BY <1>0, <1>1, <2>1
    <3> QED BY <1>0, <1>1, <1>2, <3>1, TaskStays
  <2>2. CASE j = i /\ task[j] = "running"
    <3>1. task'[j] = "sent"
      BY <1>0, <1>1, <2>2
    <3>2. ~(j <= R) /\ ~(j > spawned) /\ ~(Repeats(j) /\ j <= spawned)
      BY <2>0, <2>2 DEF TaskInv
    <3> QED BY <1>1, <2>0, <3>1, <3>2 DEF TaskInv
  <2>3. CASE j = i /\ task[j] = "left"
    <3>1. task'[j] = "gone" /\ panicking'
      BY <1>0, <1>1, <1>2, <2>0, <2>3 DEF TaskInv
    <3>2. ~(j > spawned)
      BY <2>0, <2>3 DEF TaskInv
    <3> QED BY <1>1, <2>0, <3>1, <3>2 DEF TaskInv
  <2> QED BY <1>5, <2>1, <2>2, <2>3
<1>10. BusyInv'
  <2>1. ASSUME NEW u \in Threads, NEW n \in 1..Len(busy'[u])
        PROVE  task'[busy'[u][n]] \in {"running", "left"}
    <3> DEFINE j == busy[u][n]
    <3>1. j \in Frames /\ task[j] \in {"running", "left"} /\ j # i /\ busy'[u][n] = j
      BY <1>0, <1>8, ElementOfSeq DEF BusyInv
    <3> HIDE DEF j
    <3>2. task'[j] \in {"running", "left"}
      BY <1>0, <1>1, <3>1
    <3> QED BY <3>1, <3>2
  <2>2. ASSUME NEW u \in Threads, NEW v \in Threads, NEW n \in 1..Len(busy'[u]),
               NEW k \in 1..Len(busy'[v]), busy'[u][n] = busy'[v][k]
        PROVE  u = v /\ n = k
    <3>1. n \in 1..Len(busy[u]) /\ busy'[u][n] = busy[u][n]
      BY <1>8
    <3>2. k \in 1..Len(busy[v]) /\ busy'[v][k] = busy[v][k]
      BY <1>8
    <3>3. BusyInv /\ busy[u][n] = busy[v][k]
      BY <1>0, <2>2, <3>1, <3>2
    <3> QED BY <3>1, <3>2, <3>3, HeldOnce
  <2> QED BY <1>3, <2>1, <2>2 DEF BusyInv
<1>11. CallersTask'
  <2> SUFFICES ASSUME coord = "inline" PROVE task'[Current] = "running" /\ Unheld(Current)'
    BY <1>1, <1>3 DEF CallersTask
  <2>1. task[Current] = "running" /\ Unheld(Current) /\ Current \in Frames
    BY <1>0, CollectedIsCurrent DEF CallersTask
  <2>2. Current # i
    BY <1>4, <2>1 DEF Unheld, i, L
  <2>3. task'[Current] = "running"
    BY <1>0, <1>1, <2>1, <2>2
  <2>4. Unheld(Current)'
    BY <1>3, <1>8, <2>1 DEF Unheld
  <2> QED BY <2>3, <2>4
<1>12. NoneLeft'
  BY <1>0, <1>1 DEF NoneLeft
<1> QED BY <1>3, <1>9, <1>10, <1>11, <1>12

LEMMA PoolStep ==
  ASSUME PipelineInv, mode = "pool", [Next]_vars
  PROVE  PoolInv'
<1>0. PoolInv /\ UNCHANGED given
  BY GivenStays DEF PipelineInv
<1>1. Frames' = Frames /\ Workers' = Workers /\ Threads' = Threads
  BY <1>0, ReadingsStay
<1>2. ~open' /\ \A w \in Workers' : worker'[w] = "gone" /\ queue'[w] = <<>>
  BY <1>0, <1>1, PoolIsUnthreaded, PoolParts
<1>3. CASE AnswerYes \/ AnswerNo \/ CallbackPanics \/ LoopEnds \/ JoinWaits
  <2>1. UNCHANGED <<reported, spawned, task, busy, reads>>
    BY <1>3 DEF AnswerYes, AnswerNo, CallbackPanics, Unwind, LoopEnds, JoinWaits, poolVars
  <2>2. panicking => panicking'
    BY <1>3 DEF AnswerYes, AnswerNo, CallbackPanics, Unwind, LoopEnds, JoinWaits
  <2>3. coord' \notin {"inline", "done"}
    BY <1>3 DEF AnswerYes, AnswerNo, CallbackPanics, Unwind, LoopEnds, JoinWaits
  <2>4. CallersTask' /\ NoneLeft'
    BY <2>3 DEF CallersTask, NoneLeft
  <2> QED BY <1>0, <1>2, <2>1, <2>2, <2>4, WindowStays, PoolParts
<1>4. CASE ScopeEnds
  <2>1. UNCHANGED <<reported, spawned, task, busy, reads>> /\ UNCHANGED panicking
    BY <1>4 DEF ScopeEnds, poolVars
  <2>2. /\ coord' = "done" /\ Undropped = {}
        /\ \A t \in Threads : busy[t] = <<>>
    BY <1>4 DEF ScopeEnds
  <2>3. CallersTask' /\ NoneLeft'
    BY <1>0, <1>1, <2>1, <2>2, WindowStays DEF CallersTask, NoneLeft
  <2> QED BY <1>0, <1>2, <2>1, <2>3, WindowStays, PoolParts
<1>5. ASSUME (\E i \in Frames : ReadThrough(i)) \/ UNCHANGED vars PROVE PoolInv'
  <2>1. UNCHANGED <<reported, spawned, task, busy, reads>> /\ UNCHANGED <<panicking, coord>>
    BY <1>5 DEF vars, poolVars, ReadThrough
  <2>2. CallersTask /\ NoneLeft
    BY <1>0, PoolParts
  <2>3. CallersTask' /\ NoneLeft'
    BY <1>0, <1>1, <2>1, <2>2, WindowStays DEF CallersTask, NoneLeft, Current, Unheld
  <2> QED BY <1>0, <1>2, <2>1, <2>3, WindowStays, PoolParts
<1>6. CASE Spawn \/ Refuse \/ Collect \/ DropTask
  <2>1. WindowInv' /\ (\A i \in Frames : TaskInv(i)') /\ BusyInv'
    BY <1>0, <1>6, SpawnKeeps, RefuseKeeps, CollectKeeps, DropTaskKeeps
  <2>2. coord' \notin {"inline", "done"}
    BY <1>6 DEF Spawn, Refuse, Collect, DropTask, Integrate, Unwind
  <2>3. CallersTask' /\ NoneLeft'
    BY <2>2 DEF CallersTask, NoneLeft
  <2> QED BY <1>1, <1>2, <2>1, <2>3, PoolParts
<1>7. CASE JoinTakes
  <2>1. WindowInv' /\ (\A i \in Frames : TaskInv(i)') /\ BusyInv' /\ CallersTask'
    BY <1>0, <1>7, JoinTakesKeeps
  <2>2. NoneLeft'
    BY <1>7 DEF JoinTakes, NoneLeft
  <2> QED BY <1>1, <1>2, <2>1, <2>2, PoolParts
<1>8. ASSUME NEW t \in Threads, FinishTask(t) PROVE PoolInv'
  BY <1>0, <1>1, <1>2, <1>8, FinishTaskKeeps, PoolParts
<1>9. ASSUME NEW t \in Threads, NEW i \in Frames, TakeTask(t, i) PROVE PoolInv'
  BY <1>0, <1>1, <1>2, <1>9, TakeTaskKeeps, PoolParts
<1> QED BY <1>3, <1>4, <1>5, <1>6, <1>7, <1>8, <1>9, StepsOfPool
-----------------------------------------------------------------------------
(* How the calling thread's loop ended. *)

\* A frame that is reported no more is done with.
LEMMA AllDoneMeansNoneLeft ==
  ASSUME PipelineInv, mode = "pool", Len(reported) = Len(batch)
  PROVE  Undropped = {}
<1>1. /\ Len(batch) \in Nat /\ spawned \in Nat /\ spawned <= Len(batch)
      /\ \A i \in Frames : TaskInv(i)
  BY PoolReadings
<1>2. ASSUME NEW i \in Undropped PROVE FALSE
  <2>1. i \in Frames /\ i <= Len(reported) /\ task[i] \in {"queued", "running", "sent"}
    BY <1>1 DEF Undropped, Frames
  <2> QED BY <1>1, <2>1 DEF TaskInv
<1> QED BY <1>2

\* While the loop goes on nothing of the pool brings a panic.
LEMMA PoolPanics ==
  ASSUME PipelineInv, mode = "pool", UNCHANGED given
  PROVE  /\ \A t \in Threads : FinishTask(t) => (panicking' <=> panicking)
         /\ DropTask /\ panicking' /\ ~panicking =>
              /\ Len(reported) # Len(batch)
              /\ \E i \in Current..Len(batch) : Outcome(i) = "panics"
<1>0. /\ Len(reported) \in Nat /\ Current = Len(reported) + 1 /\ Len(batch) \in Nat
      /\ spawned \in Nat /\ spawned <= Len(batch)
      /\ (\A i \in Frames : TaskInv(i)) /\ BusyInv /\ busy \in [Threads -> Seq(Frames)]
  BY PoolReadings
<1>1. ASSUME NEW t \in Threads, FinishTask(t) PROVE panicking' <=> panicking
  <2> DEFINE L == Len(busy[t])
             i == busy[t][L]
  <2>1. /\ busy[t] # <<>>
        /\ panicking' <=> (panicking \/ (task[i] = "left" /\ Outcome(i) = "panics"))
    BY <1>1 DEF FinishTask
  <2>2. L \in 1..L
    BY <1>0, <2>1, EmptySeq, LenProperties
  <2>3. i \in Frames
    BY <1>0, <2>2, ElementOfSeq
  <2> HIDE DEF i
  <2> QED BY <1>0, <2>1, <2>3 DEF TaskInv
<1>2. ASSUME DropTask, panicking', ~panicking
      PROVE  /\ Len(reported) # Len(batch)
             /\ \E i \in Current..Len(batch) : Outcome(i) = "panics"
  <2>1. Undropped # {} /\ task[Oldest] = "sent" /\ Outcome(Oldest) = "panics"
    BY <1>2 DEF DropTask
  <2>2. Oldest \in Undropped
    BY <1>0, <2>1, OldestIsLeft
  <2>3. Oldest \in Frames /\ ~(Oldest <= Len(reported))
    BY <1>0, <2>1, <2>2 DEF Undropped, Frames, TaskInv
  <2>4. Oldest \in Current..Len(batch)
    BY <1>0, <2>3 DEF Frames
  <2> QED BY <2>1, <2>2, <2>4, AllDoneMeansNoneLeft
<1> QED BY <1>1, <1>2

LEMMA LoopStays ==
  ASSUME LoopInv, UNCHANGED given, UNCHANGED <<reported, coord, why>>,
         panicking' <=> panicking,
         coord \in {"inline", "wait"} /\ Current <= spawned => Current <= spawned',
         \A w \in Workers : worker[w] = "panicked" => worker'[w] = "panicked"
  PROVE  LoopInv'
<1>1. /\ UNCHANGED <<mode, batch>> /\ Workers' = Workers /\ Current' = Current
      /\ \A i : Outcome(i)' = Outcome(i)
  BY ReadingsStay DEF given, Current
<1> QED BY <1>1 DEF LoopInv

\* No thread of the batch takes a panic back.
LEMMA PanicsStay ==
  ASSUME PipelineInv, [Next]_vars, NEW w \in Workers, worker[w] = "panicked"
  PROVE  worker'[w] = "panicked"
<1>1. worker \in [Workers -> {"check", "prepare", "send", "gone", "panicked"}]
  BY DEF PipelineInv, TypeOK
<1>2. mode \in {"threads", "pool"}
  BY DEF PipelineInv, GivenInv
<1>3. CASE mode = "pool"
  BY <1>3, PoolIsUnthreaded
<1>4. CASE mode = "threads"
  <2>1. CASE \/ AnswerYes \/ AnswerNo \/ CallbackPanics \/ LoopEnds \/ Receive \/ ReceiveFails
             \/ RaiseStop \/ DropReceivers \/ JoinWorkers
    BY <2>1 DEF AnswerYes, AnswerNo, CallbackPanics, LoopEnds, Receive, ReceiveFails, RaiseStop,
       DropReceivers, JoinWorkers, threadVars
  <2>2. CASE UNCHANGED vars
    BY <2>2 DEF vars, threadVars
  <2>3. ASSUME NEW v \in Workers, Check(v) \/ Prepare(v) \/ Send(v) \/ SendFails(v)
        PROVE  worker'[w] = "panicked"
    <3>1. v # w
      BY <2>3 DEF Check, Prepare, Send, SendFails
    <3> QED BY <1>1, <2>3, <3>1 DEF Check, Prepare, Send, SendFails
  <2> QED BY <1>4, <2>1, <2>2, <2>3, StepsOfThreads
<1> QED BY <1>2, <1>3, <1>4

\* The worker that owes the next frame and is gone panicked over it.
LEMMA OwedByPanicked ==
  ASSUME PipelineInv, ReceiveFails
  PROVE  /\ Owner(Current) \in Workers /\ worker[Owner(Current)] = "panicked"
         /\ Current \in Frames /\ Outcome(Current) = "panics"
<1> DEFINE w == Owner(Current)
<1>1. /\ mode = "threads" /\ coord = "next" /\ Current <= Len(batch)
      /\ queue[w] = <<>> /\ worker[w] \in {"gone", "panicked"}
  BY DEF ReceiveFails
<1>2. w \in Workers /\ turn[w] = Current
  BY <1>1, ReceivedIsCurrent
<1>3. ThreadsInv /\ Current \in Frames /\ Current \in Nat /\ Len(batch) \in Nat
  BY <1>1, CurrentIsFrame DEF PipelineInv
<1>4. WorkerInv(w) /\ open /\ ~stop
  BY <1>1, <1>2, <1>3 DEF ThreadsInv
<1> HIDE DEF w
<1>5. worker[w] = "panicked"
  BY <1>1, <1>2, <1>3, <1>4 DEF WorkerInv
<1>6. Outcome(Current) = "panics"
  BY <1>2, <1>4, <1>5 DEF WorkerInv
<1> QED BY <1>2, <1>3, <1>5, <1>6 DEF w

LEMMA LoopStep ==
  ASSUME PipelineInv, [Next]_vars
  PROVE  LoopInv'
<1>0. /\ UNCHANGED given /\ LoopInv /\ GivenInv /\ TypeOK
      /\ mode \in {"threads", "pool"}
  BY GivenStays DEF PipelineInv, GivenInv
<1>1. /\ UNCHANGED <<mode, batch>> /\ Workers' = Workers /\ Frames' = Frames
      /\ \A i : Outcome(i)' = Outcome(i)
  BY <1>0, ReadingsStay DEF given
<1>2. /\ Len(reported) \in Nat /\ Len(batch) \in Nat /\ Current = Len(reported) + 1
      /\ Len(reported) <= Len(batch)
  BY <1>0, CurrentIsFrame DEF Current, LoopInv
<1>3. \A w \in Workers : worker[w] = "panicked" => worker'[w] = "panicked"
  BY PanicsStay
<1>4. ASSUME UNCHANGED reported
      PROVE  Current' = Current /\ Len(reported') = Len(reported)
  BY <1>4 DEF Current
<1>5. CASE AnswerYes
  <2>1. UNCHANGED <<reported, why>> /\ UNCHANGED panicking /\ coord = "callback" /\ coord' = "next"
    BY <1>5 DEF AnswerYes
  <2> QED BY <1>0, <1>1, <1>2, <1>4, <2>1 DEF LoopInv
<1>6. CASE AnswerNo
  <2>1. UNCHANGED reported /\ UNCHANGED panicking /\ coord = "callback" /\ why' = "cancelled"
        /\ coord' = IF mode = "threads" THEN "stop" ELSE "drop"
    BY <1>6 DEF AnswerNo
  <2>2. ~panicking
    BY <1>0, <2>1 DEF LoopInv
  <2> QED BY <1>0, <1>1, <1>2, <1>4, <2>1, <2>2 DEF LoopInv
<1>7. CASE Unwind
  <2>1. UNCHANGED reported /\ panicking' /\ why' = "broken" /\ coord' = "drop"
    BY <1>7 DEF Unwind
  <2> QED BY <1>1, <1>2, <1>4, <2>1 DEF LoopInv
<1>8. CASE LoopEnds
  <2>1. /\ UNCHANGED <<reported, why>> /\ UNCHANGED panicking /\ coord = "next"
        /\ Current > Len(batch)
        /\ coord' = IF mode = "threads" THEN "stop" ELSE "drop"
    BY <1>8 DEF LoopEnds
  <2>2. Len(reported) = Len(batch)
    BY <1>2, <2>1
  <2> QED BY <1>0, <1>1, <1>4, <2>1, <2>2 DEF LoopInv
<1>9. CASE Receive \/ Refuse \/ (Collect /\ Outcome(Current) # "panics")
  <2>1. /\ Current \in Frames /\ Integrate(Current) /\ UNCHANGED why
        /\ coord \in {"next", "inline", "wait"}
    BY <1>9, IntegratedIsCurrent
  <2>2. UNCHANGED panicking
    BY <1>9, IntegratedIsCurrent DEF Receive, Refuse, Collect
  <2>3. coord' = "callback" /\ Len(reported') = Len(reported) + 1
    <3>1. reported \in Seq({"good", "unreadable", "duplicate"})
      BY <1>0 DEF TypeOK
    <3> QED BY <2>1, <3>1 DEF Integrate
  <2>4. Len(reported') <= Len(batch)
    BY <1>2, <2>1, <2>3 DEF Frames
  <2> QED BY <1>0, <1>1, <2>1, <2>2, <2>3, <2>4 DEF LoopInv
<1>10. CASE ReceiveFails
  <2>1. /\ UNCHANGED reported /\ why' = "broken" /\ coord' = "stop" /\ mode = "threads"
        /\ UNCHANGED worker
    BY <1>10 DEF ReceiveFails, threadVars
  <2>2. \E w \in Workers : worker[w] = "panicked"
    BY <1>10, OwedByPanicked
  <2> QED BY <1>1, <1>2, <1>4, <2>1, <2>2 DEF LoopInv
<1>11. CASE RaiseStop \/ DropReceivers
  <2>1. /\ UNCHANGED <<reported, why>> /\ UNCHANGED panicking
        /\ coord \in {"stop", "drop"} /\ coord' \in {"drop", "join"}
        /\ coord' = "join" => mode = "threads"
    BY <1>11 DEF RaiseStop, DropReceivers
  <2> QED BY <1>0, <1>1, <1>2, <1>3, <1>4, <2>1 DEF LoopInv
<1>12. CASE JoinWorkers
  <2>1. /\ UNCHANGED <<reported, why, worker>> /\ coord = "join" /\ coord' = "done"
        /\ panicking' <=> (panicking \/ \E w \in Workers : worker[w] = "panicked")
    BY <1>12 DEF JoinWorkers, threadVars
  <2>2. ASSUME NEW w \in Workers, worker[w] = "panicked"
        PROVE  turn[w] \in Current..Len(batch) /\ Outcome(turn[w]) = "panics"
    <3>1. WorkerInv(w)
      BY <1>0, <2>1 DEF PipelineInv, LoopInv, ThreadsInv
    <3>2. turn[w] \in Frames /\ Current <= turn[w] /\ Outcome(turn[w]) = "panics"
      BY <2>2, <3>1 DEF WorkerInv
    <3> QED BY <1>2, <3>2 DEF Frames
  <2>3. CASE why = ""
    <3>1. Len(reported) = Len(batch) /\ ~panicking
      BY <1>0, <2>1, <2>3 DEF LoopInv
    <3>2. \A w \in Workers : worker[w] # "panicked"
      BY <1>2, <2>2, <3>1
    <3>3. ~panicking'
      BY <2>1, <3>1, <3>2
    <3> QED BY <1>1, <1>2, <1>4, <2>1, <2>3, <3>1, <3>3 DEF LoopInv
  <2>4. CASE why # ""
    <3>1. why' = "broken" => panicking'
      BY <1>0, <2>1 DEF LoopInv
    <3>2. why' = "cancelled" /\ panicking' => \E i \in Current..Len(batch) : Outcome(i) = "panics"
      BY <1>0, <2>1, <2>2 DEF LoopInv
    <3> QED BY <1>1, <1>2, <1>4, <2>1, <2>4, <3>1, <3>2 DEF LoopInv
  <2> QED BY <2>3, <2>4
<1>13. CASE JoinTakes \/ JoinWaits
  <2>1. /\ UNCHANGED <<reported, why, spawned>> /\ UNCHANGED panicking /\ coord = "next"
        /\ coord' \in {"inline", "wait"} /\ mode = "pool" /\ WindowIsFull /\ Current <= Len(batch)
    BY <1>13 DEF JoinTakes, JoinWaits, Free, poolVars
  <2>2. Current <= spawned
    BY <2>1, FullWindow
  <2> QED BY <1>0, <1>1, <1>2, <1>4, <2>1, <2>2 DEF LoopInv
<1>14. CASE DropTask
  <2>1. /\ UNCHANGED <<reported, why>> /\ coord = "drop" /\ UNCHANGED coord /\ mode = "pool"
        /\ panicking => panicking'
    BY <1>14 DEF DropTask, Free
  <2>2. CASE panicking' <=> panicking
    BY <1>0, <1>3, <2>1, <2>2, LoopStays
  <2>3. CASE panicking' /\ ~panicking
    <3>1. /\ Len(reported) # Len(batch)
          /\ \E i \in Current..Len(batch) : Outcome(i) = "panics"
      BY <1>0, <1>14, <2>1, <2>3, PoolPanics
    <3>2. why # ""
      BY <1>0, <2>1, <3>1 DEF LoopInv
    <3> QED BY <1>1, <1>2, <1>4, <2>1, <2>3, <3>1, <3>2 DEF LoopInv
  <2> QED BY <2>1, <2>2, <2>3
<1>15. CASE ScopeEnds
  <2>1. /\ UNCHANGED <<reported, why>> /\ UNCHANGED panicking /\ coord = "drop" /\ coord' = "done"
    BY <1>15 DEF ScopeEnds
  <2> QED BY <1>0, <1>1, <1>2, <1>3, <1>4, <2>1 DEF LoopInv
<1>16. CASE Spawn
  <2>1. /\ UNCHANGED <<reported, coord, why>> /\ UNCHANGED panicking /\ coord = "next"
    BY <1>16 DEF Spawn
  <2> QED BY <1>0, <1>3, <2>1, LoopStays
<1>17. ASSUME NEW t \in Threads, FinishTask(t) PROVE LoopInv'
  <2>1. UNCHANGED <<reported, coord, why, spawned>> /\ busy[t] # <<>>
    BY <1>17 DEF FinishTask
  <2>2. mode = "pool"
    BY <1>0, <2>1 DEF PipelineInv, ThreadsInv
  <2>3. panicking' <=> panicking
    BY <1>0, <1>17, <2>2, PoolPanics
  <2> QED BY <1>0, <1>3, <2>1, <2>3, LoopStays
<1>18. ASSUME NEW t \in Threads, NEW i \in Frames, TakeTask(t, i) PROVE LoopInv'
  <2>1. UNCHANGED <<reported, coord, why, spawned>> /\ UNCHANGED panicking
    BY <1>18 DEF TakeTask
  <2> QED BY <1>0, <1>3, <2>1, LoopStays
<1>19. ASSUME NEW w \in Workers, Check(w) \/ Prepare(w) \/ Send(w) \/ SendFails(w)
       PROVE  LoopInv'
  <2>1. UNCHANGED <<reported, coord, why, spawned>> /\ UNCHANGED panicking
    BY <1>19 DEF Check, Prepare, Send, SendFails, poolVars
  <2> QED BY <1>0, <1>3, <2>1, LoopStays
<1>20. ASSUME (\E i \in Frames : ReadThrough(i)) \/ UNCHANGED vars PROVE LoopInv'
  <2>1. UNCHANGED <<reported, coord, why, spawned>> /\ UNCHANGED panicking
    BY <1>20 DEF vars, poolVars, ReadThrough
  <2> QED BY <1>0, <1>3, <2>1, LoopStays
<1>21. CASE CallbackPanics \/ (Collect /\ Outcome(Current) = "panics")
  BY <1>7, <1>21 DEF CallbackPanics, Collect
<1> QED
  BY <1>0, <1>5, <1>6, <1>8, <1>9, <1>10, <1>11, <1>12, <1>13, <1>14, <1>15, <1>16, <1>17,
     <1>18, <1>19, <1>20, <1>21, StepsOfThreads, StepsOfPool

\* The helpers of a step are those before it, but for the frame it spawns.
LEMMA HelpersStep ==
  ASSUME PipelineInv, [Next]_vars
  PROVE  HelpersInv'
<1>1. /\ UNCHANGED given /\ HelpersInv /\ mode \in {"threads", "pool"}
      /\ \A i : Repeats(i)' <=> Repeats(i)
  BY GivenStays, ReadingsStay DEF PipelineInv, GivenInv
<1>2. mode' = mode
  BY <1>1 DEF given
<1>3. CASE mode = "threads"
  <2>1. UNCHANGED helpers
    BY <1>3, StepsOfThreads DEF AnswerYes, AnswerNo, CallbackPanics, LoopEnds, Receive,
       ReceiveFails, RaiseStop, DropReceivers, JoinWorkers, Check, Prepare, Send, SendFails,
       vars, poolVars
  <2> QED BY <1>1, <1>2, <2>1 DEF HelpersInv
<1>4. CASE mode = "pool"
  <2>1. \/ Spawn \/ UNCHANGED helpers \/ \E i \in Frames : ReadThrough(i)
    BY <1>4, StepsOfPool DEF AnswerYes, AnswerNo, CallbackPanics, LoopEnds, Refuse, JoinTakes,
       JoinWaits, Collect, DropTask, ScopeEnds, FinishTask, TakeTask, vars, poolVars
  <2>2. ASSUME NEW i \in helpers' PROVE ~Repeats(i)
    BY <1>1, <2>1 DEF Spawn, ReadThrough, HelpersInv
  <2> QED BY <1>1, <1>2, <1>4, <2>2 DEF HelpersInv
<1> QED BY <1>1, <1>3, <1>4

LEMMA PipelineStep == PipelineInv /\ [Next]_vars => PipelineInv'
<1> SUFFICES ASSUME PipelineInv, [Next]_vars PROVE PipelineInv'
  OBVIOUS
<1>1. TypeOK' /\ GivenInv' /\ LoopInv' /\ HelpersInv'
  BY TypeStep, GivenStep, LoopStep, HelpersStep DEF PipelineInv
<1>2. mode' = mode
  BY GivenStays DEF given
<1>3. mode' = "threads" => ThreadsInv'
  BY <1>2, ThreadsStep
<1>4. mode' = "pool" => PoolInv'
  BY <1>2, PoolStep
<1> QED BY <1>1, <1>3, <1>4 DEF PipelineInv

THEOREM PipelineInvariant == Spec => []PipelineInv
BY PipelineInit, PipelineStep, PTL DEF Spec
-----------------------------------------------------------------------------
(* A run's parts stay of their types: no channel holds more than one frame, *)
(* and the window no more than the batch.                                  *)
THEOREM TypeCorrect == Spec => []TypeOK
<1>1. PipelineInv => TypeOK
  BY DEF PipelineInv
<1> QED BY <1>1, PipelineInvariant, PTL

LEMMA ReadAheadIsBounded ==
  ASSUME PipelineInv
  PROVE  AheadIsBounded
<1> DEFINE R == Len(reported)
           ahead == {i \in Frames : reads[i] > 0 /\ i > R}
           n == IF mode = "threads" THEN 2 * workers ELSE workers
           span == (R + 1)..(R + n)
<1>1. /\ R \in Nat /\ workers \in Nat \ {0} /\ mode \in {"threads", "pool"}
      /\ GivenInv
  BY CurrentIsFrame DEF PipelineInv, GivenInv
<1>2. n \in Nat
  BY <1>1
<1>3. ASSUME NEW i \in Frames, reads[i] > 0 PROVE i <= R + n
  <2>1. i \in Nat \ {0}
    BY DEF Frames
  <2>2. CASE mode = "threads"
    <3>1. Owner(i) \in Workers
      BY <1>1, <2>1, OwnerIsWorker
    <3>2. turn[Owner(i)] \in Nat /\ turn[Owner(i)] <= R + 2 * workers
      BY <2>2, <3>1 DEF PipelineInv, ThreadsInv, WorkerInv, TypeOK
    <3>3. i <= turn[Owner(i)]
      BY <1>3, <2>2 DEF PipelineInv, ThreadsInv, ReadByWorkers
    <3> QED BY <1>1, <2>1, <2>2, <3>2, <3>3
  <2>3. CASE mode = "pool"
    <3>1. spawned \in Nat /\ WindowInv /\ TaskInv(i)
      BY <2>3, PoolReadings
    <3>2. i <= spawned
      BY <1>3, <2>1, <3>1 DEF TaskInv
    <3> QED BY <1>1, <2>1, <2>3, <3>1, <3>2 DEF WindowInv
  <2> QED BY <1>1, <2>2, <2>3
<1> HIDE DEF R, n
<1>4. ahead \subseteq span
  BY <1>1, <1>2, <1>3 DEF Frames
<1>5. IsFiniteSet(span) /\ Cardinality(span) = n
  BY <1>1, <1>2, FS_Interval
<1>6. Cardinality(ahead) <= n
  BY <1>4, <1>5, FS_Subset
<1> QED BY <1>6 DEF AheadIsBounded, R, n

(* However many frames are prepared at once, and whoever prepares them, the *)
(* frames read beyond those reported on stay within what the memory budget *)
(* counts (pipeline.rs:396-405, 635-639).                                  *)
THEOREM ReadsAreBounded == Spec => []AheadIsBounded
BY ReadAheadIsBounded, PipelineInvariant, PTL

LEMMA BegunPanicsAreRaised ==
  ASSUME PipelineInv
  PROVE  NoPanicIsLost
<1> SUFFICES ASSUME coord = "done", NEW i \in Frames, reads[i] > 0, Outcome(i) = "panics"
             PROVE  panicking
  BY DEF NoPanicIsLost
<1>1. GivenInv /\ i \in Nat \ {0} /\ mode \in {"threads", "pool"}
  BY DEF PipelineInv, GivenInv, Frames
<1>2. CASE mode = "threads"
  <2>1. Owner(i) \in Workers /\ worker[Owner(i)] \in {"prepare", "panicked"}
    BY <1>1, <1>2, OwnerIsWorker DEF PipelineInv, ThreadsInv, ReadByWorkers
  <2> QED BY <1>2, <2>1 DEF PipelineInv, ThreadsInv
<1>3. CASE mode = "pool"
  <2>1. /\ TaskInv(i) /\ spawned \in Nat /\ NoneLeft
        /\ task \in [Frames -> {"none", "queued", "running", "sent", "left", "gone"}]
    BY <1>3, PoolReadings
  <2>2. i \notin Undropped
    BY <2>1 DEF NoneLeft
  <2>3. task[i] \in {"left", "gone"}
    BY <1>1, <2>1, <2>2 DEF TaskInv, Undropped
  <2> QED BY <2>1, <2>3 DEF TaskInv
<1> QED BY <1>1, <1>2, <1>3

(* The panic of a frame that was begun reaches the caller of the run        *)
(* (pipeline.rs:716-729, tasks.rs:176-180, 203-214).                       *)
THEOREM BegunPanicsReachTheCaller == Spec => []NoPanicIsLost
BY BegunPanicsAreRaised, PipelineInvariant, PTL

LEMMA ReadsAreNeeded ==
  ASSUME PipelineInv, [Next]_vars, NEW i \in Frames, reads'[i] # reads[i]
  PROVE  reads[i] = 0 /\ ~Repeats(i) /\ i > Len(reported) /\ task[i] # "gone"
<1>1. /\ reads \in [Frames -> Nat] /\ mode \in {"threads", "pool"} /\ GivenInv
      /\ Len(reported) \in Nat /\ Current = Len(reported) + 1 /\ i \in Nat
  <2>1. TypeOK /\ GivenInv /\ reads \in [Frames -> Nat]
    BY DEF PipelineInv, TypeOK
  <2>2. Len(reported) \in Nat /\ Current = Len(reported) + 1 /\ i \in Nat
    BY <2>1, CurrentIsFrame DEF Current, Frames
  <2> QED BY <2>1, <2>2 DEF GivenInv
<1>2. CASE mode = "threads"
  <2>1. PICK w \in Workers : Check(w)
    BY <1>2, StepsOfThreads DEF AnswerYes, AnswerNo, CallbackPanics, LoopEnds, Receive,
       ReceiveFails, RaiseStop, DropReceivers, JoinWorkers, Prepare, Send, SendFails, vars
  <2>2. /\ worker[w] = "check" /\ ~Repeats(turn[w]) /\ reads' = [reads EXCEPT ![turn[w]] = @ + 1]
    BY <2>1 DEF Check, Read
  <2>3. i = turn[w]
    BY <1>1, <2>2
  <2>4. ThreadsInv /\ WorkerInv(w)
    BY <1>2 DEF PipelineInv, ThreadsInv
  <2>5. Owner(i) = w /\ Current <= i /\ task[i] = "none"
    BY <2>3, <2>4 DEF WorkerInv, ThreadsInv
  <2>6. ~(reads[i] > 0)
    BY <2>2, <2>3, <2>4, <2>5 DEF ThreadsInv, ReadByWorkers
  <2> QED BY <1>1, <2>2, <2>3, <2>5, <2>6
<1>3. CASE mode = "pool"
  <2>1. \/ JoinTakes \/ \E t \in Threads, j \in Frames : TakeTask(t, j)
    BY <1>3, StepsOfPool DEF AnswerYes, AnswerNo, CallbackPanics, LoopEnds, Spawn, Refuse,
       JoinWaits, Collect, DropTask, ScopeEnds, FinishTask, ReadThrough, vars
  <2>2. PICK j : task[j] = "queued" /\ reads' = [reads EXCEPT ![j] = @ + 1]
    BY <2>1 DEF JoinTakes, TakeTask, Read
  <2>3. i = j
    BY <1>1, <2>2
  <2>4. TaskInv(i) /\ task[i] = "queued" /\ spawned \in Nat
    BY <1>3, <2>2, <2>3, PoolReadings
  <2> QED BY <1>1, <2>4 DEF TaskInv
<1> QED BY <1>1, <1>2, <1>3

(* Whoever gets to a frame first, it is read and prepared once, and never   *)
(* once it was reported or its task given up; a repeat is never read, nor  *)
(* read through (pipeline.rs:330-333, tasks.rs:152-156, 170-174).          *)
THEOREM ReadsAreNotWasted == Spec => NoWastedRead
<1>1. PipelineInv /\ [Next]_vars =>
        [\A i \in Frames :
           /\ reads'[i] # reads[i] =>
                reads[i] = 0 /\ ~Repeats(i) /\ i > Len(reported) /\ task[i] # "gone"
           /\ i \in helpers' => ~Repeats(i)]_vars
  <2> SUFFICES ASSUME PipelineInv, [Next]_vars, NEW i \in Frames
               PROVE  /\ reads'[i] # reads[i] =>
                           reads[i] = 0 /\ ~Repeats(i) /\ i > Len(reported) /\ task[i] # "gone"
                      /\ i \in helpers' => ~Repeats(i)
    OBVIOUS
  <2>1. \A k \in helpers' : ~Repeats(k)
    BY HelpersStep, GivenStays, ReadingsStay DEF HelpersInv
  <2> QED BY <2>1, ReadsAreNeeded
<1> QED BY <1>1, PipelineInvariant, PTL DEF Spec, NoWastedRead
-----------------------------------------------------------------------------
(* A pipelined run is a run that is fed one frame at a time.               *)

\* What an abstract stack shows of the state is settled by these.
LEMMA StackStays ==
  ASSUME UNCHANGED given, UNCHANGED <<reported, stacked>>, phase' = phase
  PROVE  UNCHANGED Stack!vars
BY DEF given, Stack!vars, Stack!run

LEMMA StackInit == Init => Stack!Init
BY DEF Init, Stack!Init, phase

\* Both stacks are given the same.
LEMMA StackIsGiven ==
  ASSUME UNCHANGED given
  PROVE  UNCHANGED Stack!run
BY DEF given, Stack!run

\* Where the calling thread is says what phase the stack is in.
LEMMA Phases ==
  /\ coord \in {"next", "inline", "wait"} /\ why = "" => phase = "stack"
  /\ coord = "callback" => phase = "callback"
  /\ coord \in {"stop", "drop", "join"} /\ why = "" => phase = "stack"
  /\ coord \in {"stop", "drop", "join"} /\ why # "" => phase = why
  /\ coord = "done" => phase = IF panicking THEN "panicked" ELSE "returned"
<1>1. coord \in {"next", "inline", "wait"} /\ why = "" => phase = "stack"
  BY DEF phase
<1>2. coord = "callback" => phase = "callback"
  BY DEF phase
<1>3. coord \in {"stop", "drop", "join"} /\ why = "" => phase = "stack"
  BY DEF phase
<1>4. coord \in {"stop", "drop", "join"} /\ why # "" => phase = why
  BY DEF phase
<1>5. coord = "done" => phase = IF panicking THEN "panicked" ELSE "returned"
  BY DEF phase
<1> QED BY <1>1, <1>2, <1>3, <1>4, <1>5

LEMMA PhasesNext ==
  /\ coord' \in {"next", "inline", "wait"} /\ why' = "" => phase' = "stack"
  /\ coord' = "callback" => phase' = "callback"
  /\ coord' \in {"stop", "drop", "join"} /\ why' = "" => phase' = "stack"
  /\ coord' \in {"stop", "drop", "join"} /\ why' # "" => phase' = why'
  /\ coord' = "done" => phase' = IF panicking' THEN "panicked" ELSE "returned"
<1>1. coord' \in {"next", "inline", "wait"} /\ why' = "" => phase' = "stack"
  BY DEF phase
<1>2. coord' = "callback" => phase' = "callback"
  BY DEF phase
<1>3. coord' \in {"stop", "drop", "join"} /\ why' = "" => phase' = "stack"
  BY DEF phase
<1>4. coord' \in {"stop", "drop", "join"} /\ why' # "" => phase' = why'
  BY DEF phase
<1>5. coord' = "done" => phase' = IF panicking' THEN "panicked" ELSE "returned"
  BY DEF phase
<1> QED BY <1>1, <1>2, <1>3, <1>4, <1>5

\* The frame at hand is integrated.
LEMMA IntegrateIsPush ==
  ASSUME PipelineInv, UNCHANGED given,
         Receive \/ Refuse \/ (Collect /\ Outcome(Current) # "panics")
  PROVE  Stack!Push
<1>1. /\ Current \in Frames /\ Outcome(Current) # "panics" /\ Integrate(Current)
      /\ coord \in {"next", "inline", "wait"}
  BY IntegratedIsCurrent
<1>2. phase = "stack" /\ phase' = "callback"
  BY <1>1, Phases, PhasesNext DEF PipelineInv, LoopInv, Integrate
<1>3. Current <= Len(batch)
  BY <1>1, CurrentIsFrame DEF PipelineInv, Frames
<1>4. Stack!Current = Current /\ \A i : Stack!Outcome(i) = Outcome(i)
  BY DEF Stack!Current, Current, Outcome
<1> QED BY <1>1, <1>2, <1>3, <1>4, StackIsGiven DEF Stack!Push, Integrate

\* The frame at hand panics.
LEMMA PanicIsBreak ==
  ASSUME PipelineInv, UNCHANGED given,
         ReceiveFails \/ (Collect /\ Outcome(Current) = "panics")
  PROVE  Stack!Break
<1>1. /\ Current \in Frames /\ Outcome(Current) = "panics" /\ why' = "broken"
      /\ coord' \in {"stop", "drop"} /\ UNCHANGED <<reported, stacked>>
      /\ coord \in {"next", "inline", "wait"}
  <2>1. CASE ReceiveFails
    BY <2>1, OwedByPanicked DEF ReceiveFails
  <2>2. CASE Collect /\ Outcome(Current) = "panics"
    BY <2>2, CollectedIsCurrent DEF Collect, Unwind
  <2> QED BY <2>1, <2>2
<1>2. phase = "stack" /\ phase' = "broken"
  BY <1>1, Phases, PhasesNext DEF PipelineInv, LoopInv
<1>3. Current <= Len(batch)
  BY <1>1, CurrentIsFrame DEF PipelineInv, Frames
<1>4. Stack!Current = Current /\ \A i : Stack!Outcome(i) = Outcome(i)
  BY DEF Stack!Current, Current, Outcome
<1> QED BY <1>1, <1>2, <1>3, <1>4, StackIsGiven DEF Stack!Break

\* The run ends, and says how.
LEMMA EndIsTheStacks ==
  ASSUME PipelineInv, [Next]_vars, JoinWorkers \/ ScopeEnds
  PROVE  Stack!Return \/ Stack!Raise \/ Stack!LatePanic
<1>1. /\ UNCHANGED <<reported, stacked, why>> /\ UNCHANGED given
      /\ coord \in {"drop", "join"} /\ coord' = "done"
  BY DEF JoinWorkers, ScopeEnds
<1>2. LoopInv /\ LoopInv' /\ why \in {"", "cancelled", "broken"} /\ UNCHANGED <<batch, mode>>
      /\ Workers' = Workers /\ \A i : Outcome(i)' = Outcome(i)
  BY <1>1, LoopStep, ReadingsStay DEF PipelineInv, TypeOK, given
<1>3. /\ Len(reported) \in Nat /\ Len(batch) \in Nat /\ Current = Len(reported) + 1
      /\ Current' = Current
  BY <1>1, CurrentIsFrame DEF PipelineInv, Current
<1>4. phase' = IF panicking' THEN "panicked" ELSE "returned"
  BY <1>1, PhasesNext
<1>5. Stack!Current = Current /\ \A i : Stack!Outcome(i) = Outcome(i)
  BY DEF Stack!Current, Current, Outcome
<1>6. CASE why = ""
  <2>1. phase = "stack" /\ ~panicking' /\ Len(reported) = Len(batch)
    BY <1>1, <1>2, <1>6, Phases DEF LoopInv
  <2> QED BY <1>1, <1>3, <1>4, <1>5, <2>1, StackIsGiven DEF Stack!Return
<1>7. CASE why = "cancelled" /\ ~panicking'
  BY <1>1, <1>4, <1>7, Phases, StackIsGiven DEF Stack!Return
<1>8. CASE why = "cancelled" /\ panicking'
  <2>1. \E i \in Current..Len(batch) : Outcome(i) = "panics"
    BY <1>1, <1>2, <1>3, <1>8 DEF LoopInv
  <2> QED BY <1>1, <1>4, <1>5, <1>8, <2>1, Phases, StackIsGiven DEF Stack!LatePanic
<1>9. CASE why = "broken"
  <2>1. panicking'
    <3>1. CASE JoinWorkers
      <4>1. panicking' <=> (panicking \/ \E w \in Workers : worker[w] = "panicked")
        BY <3>1 DEF JoinWorkers
      <4> QED BY <1>2, <1>9, <4>1 DEF LoopInv
    <3>2. CASE ScopeEnds
      <4>1. \A w \in Workers : worker[w] # "panicked"
        BY <3>2 DEF ScopeEnds, Free, PipelineInv, PoolInv
      <4>2. UNCHANGED panicking
        BY <3>2 DEF ScopeEnds
      <4> QED BY <1>2, <1>9, <4>1, <4>2 DEF LoopInv
    <3> QED BY <3>1, <3>2
  <2> QED BY <1>1, <1>4, <1>9, <2>1, Phases, StackIsGiven DEF Stack!Raise
<1> QED BY <1>2, <1>6, <1>7, <1>8, <1>9

LEMMA StackStep ==
  ASSUME PipelineInv, [Next]_vars
  PROVE  [Stack!Next]_(Stack!vars)
<1>0. UNCHANGED given /\ LoopInv /\ mode \in {"threads", "pool"}
  BY GivenStays DEF PipelineInv, GivenInv
<1>1. CASE AnswerYes \/ AnswerNo \/ CallbackPanics
  <2>1. /\ coord = "callback" /\ why = ""
        /\ UNCHANGED <<reported, stacked>>
        /\ \/ coord' = "next" /\ why' = ""
           \/ coord' \in {"stop", "drop"} /\ why' \in {"cancelled", "broken"}
    BY <1>0, <1>1 DEF AnswerYes, AnswerNo, CallbackPanics, Unwind, LoopInv
  <2>2. phase = "callback" /\ phase' \in {"stack", "cancelled", "broken"}
    BY <2>1, Phases, PhasesNext
  <2> QED BY <1>0, <2>1, <2>2, StackIsGiven DEF Stack!Next, Stack!Answer
<1>2. CASE Receive \/ Refuse \/ (Collect /\ Outcome(Current) # "panics")
  BY <1>0, <1>2, IntegrateIsPush DEF Stack!Next
<1>3. CASE ReceiveFails \/ (Collect /\ Outcome(Current) = "panics")
  BY <1>0, <1>3, PanicIsBreak DEF Stack!Next
<1>4. CASE JoinWorkers \/ ScopeEnds
  BY <1>4, EndIsTheStacks DEF Stack!Next
<1>5. CASE LoopEnds \/ RaiseStop \/ DropReceivers \/ JoinTakes \/ JoinWaits \/ Spawn
  <2>1. /\ UNCHANGED <<reported, stacked, why>>
        /\ \/ coord = "next" /\ coord' \in {"next", "inline", "wait", "stop", "drop"}
           \/ coord \in {"stop", "drop"} /\ coord' \in {"drop", "join"}
    BY <1>5 DEF LoopEnds, RaiseStop, DropReceivers, JoinTakes, JoinWaits, Spawn
  <2>2. coord = "next" => why = ""
    BY <1>0 DEF LoopInv
  <2>3. CASE coord = "next"
    <3>1. phase = "stack" /\ phase' = "stack"
      BY <2>1, <2>2, <2>3, Phases, PhasesNext
    <3> QED BY <1>0, <2>1, <3>1, StackStays
  <2>4. CASE coord \in {"stop", "drop"}
    <3>1. coord' \in {"stop", "drop", "join"} /\ why' = why
      BY <2>1, <2>4
    <3>2. why = "" => phase' = phase
      BY <2>4, <3>1, Phases, PhasesNext
    <3>3. why # "" => phase' = phase
      BY <2>4, <3>1, Phases, PhasesNext
    <3>4. phase' = phase
      BY <3>2, <3>3
    <3> QED BY <1>0, <2>1, <3>4, StackStays
  <2> QED BY <2>1, <2>3, <2>4
<1>6. ASSUME UNCHANGED <<reported, stacked, why, coord>>,
             coord = "done" => (panicking' <=> panicking)
      PROVE  UNCHANGED Stack!vars
  <2>1. phase' = phase
    BY <1>6 DEF phase
  <2> QED BY <1>0, <1>6, <2>1, StackStays
<1>7. CASE DropTask
  BY <1>6, <1>7 DEF DropTask
<1>8. ASSUME NEW t \in Threads, FinishTask(t) PROVE UNCHANGED Stack!vars
  <2>1. busy[t] # <<>> /\ UNCHANGED <<reported, stacked, why, coord>>
    BY <1>8 DEF FinishTask
  <2>2. mode = "pool"
    BY <1>0, <2>1 DEF PipelineInv, ThreadsInv
  <2> QED BY <1>0, <1>6, <1>8, <2>1, <2>2, PoolPanics
<1>9. ASSUME NEW t \in Threads, NEW i \in Frames, TakeTask(t, i) PROVE UNCHANGED Stack!vars
  BY <1>6, <1>9 DEF TakeTask
<1>10. ASSUME NEW w \in Workers, Check(w) \/ Prepare(w) \/ Send(w) \/ SendFails(w)
       PROVE  UNCHANGED Stack!vars
  BY <1>6, <1>10 DEF Check, Prepare, Send, SendFails
<1>11. ASSUME (\E i \in Frames : ReadThrough(i)) \/ UNCHANGED vars PROVE UNCHANGED Stack!vars
  BY <1>6, <1>11 DEF vars, ReadThrough
<1> QED
  BY <1>0, <1>1, <1>2, <1>3, <1>4, <1>5, <1>7, <1>8, <1>9, <1>10, <1>11, StepsOfThreads,
     StepsOfPool

(* Whatever runs ahead and wherever, what the caller sees is a stack fed    *)
(* one frame at a time, in the order of the batch (pipeline.rs:386-393,    *)
(* 9-15).                                                                  *)
THEOREM RunsAreSequential == Spec => OneAtATime
BY StackInit, StackStep, PipelineInvariant, PTL DEF Spec, OneAtATime, Stack!Spec
=============================================================================
