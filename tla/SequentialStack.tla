--------------------------- MODULE SequentialStack ---------------------------
(***************************************************************************)
(* A live stack fed one batch of frames, one frame at a time: what         *)
(* `run_sequentially` of `seiza-stacking` does, and what the pipelined     *)
(* runs promise to look like from outside.  Every frame is offered in the  *)
(* order of the batch, a repeat is refused unread, the caller is told of   *)
(* each, and its answer decides whether the run goes on.                   *)
(*                                                                         *)
(* A run that prepares frames ahead may, once cancelled, still raise the   *)
(* panic of a frame it had begun: LatePanic is what it adds.               *)
(*                                                                         *)
(* seiza-stacking/src/pipeline.rs:739-758, 843-924.                        *)
(***************************************************************************)
EXTENDS Naturals, Sequences

VARIABLES
  batch,     \* the paths of the run, in order
  file,      \* what reading and preparing each path comes to: "good" (integrated
             \* or rejected), "unreadable" or "panics"
  taken,     \* the paths the stack has taken before the run
  reported,  \* the outcomes the caller was told, in order
  stacked,   \* the frames the accumulator was fed, in order
  phase      \* "stack": next frame, "callback": the caller has the last
             \* outcome, "cancelled", "broken": unwinding, "returned", "panicked"

run == <<batch, file, taken>>
vars == <<run, reported, stacked, phase>>

\* Decided by `plan_batch` before any file is opened: a path already taken, or
\* earlier in the batch, whatever came of it there.
Repeats(i) == batch[i] \in taken \/ \E j \in 1..(i - 1) : batch[j] = batch[i]

Outcome(i) == IF Repeats(i) THEN "duplicate" ELSE file[batch[i]]

Current == Len(reported) + 1

Init ==
  /\ reported = <<>> /\ stacked = <<>>
  /\ phase = "stack"

\* The next frame is read, prepared and integrated, or refused; the caller hears.
Push ==
  /\ phase = "stack" /\ Current <= Len(batch)
  /\ Outcome(Current) # "panics"
  /\ reported' = Append(reported, Outcome(Current))
  /\ stacked' = IF Outcome(Current) = "good" THEN Append(stacked, Current) ELSE stacked
  /\ phase' = "callback"
  /\ UNCHANGED run

\* Its preparation panics, and the panic is the run's.
Break ==
  /\ phase = "stack" /\ Current <= Len(batch)
  /\ Outcome(Current) = "panics"
  /\ phase' = "broken"
  /\ UNCHANGED <<run, reported, stacked>>

\* The caller answers Continue::Yes or Continue::No, or panics itself.
Answer ==
  /\ phase = "callback"
  /\ phase' \in {"stack", "cancelled", "broken"}
  /\ UNCHANGED <<run, reported, stacked>>

Return ==
  /\ phase = "cancelled" \/ (phase = "stack" /\ Current > Len(batch))
  /\ phase' = "returned"
  /\ UNCHANGED <<run, reported, stacked>>

Raise ==
  /\ phase = "broken"
  /\ phase' = "panicked"
  /\ UNCHANGED <<run, reported, stacked>>

LatePanic ==
  /\ phase = "cancelled"
  /\ \E i \in Current..Len(batch) : Outcome(i) = "panics"
  /\ phase' = "panicked"
  /\ UNCHANGED <<run, reported, stacked>>

Next == Push \/ Break \/ Answer \/ Return \/ Raise \/ LatePanic

Spec == Init /\ [][Next]_vars
=============================================================================
