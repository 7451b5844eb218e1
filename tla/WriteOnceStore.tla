---------------------------- MODULE WriteOnceStore ----------------------------
(***************************************************************************)
(* What `seiza-pipeline`'s step store promises its callers, before any     *)
(* temporary file, hard link or rename: each place (a step key and a file  *)
(* name) takes one copy, for good.  A writer asks for a place, and its put *)
(* is answered "ok" only once the place holds a copy, its own or another   *)
(* writer's of the same step; an "error" answer promises nothing.          *)
(*                                                                         *)
(* seiza-pipeline/src/store.rs:9-13, 59-66.                                *)
(***************************************************************************)

CONSTANTS
  Writers,  \* whoever puts files: processes and threads, on any machine
  Places,   \* a step key and a file name each
  Copies,   \* every file content a put may write
  StepOf(_),\* the place whose step made a copy
  None      \* no copy, no place asked for: a value of its own

VARIABLES
  held,     \* the copy each place holds, or None
  asked,    \* the place each writer is putting, or None
  answer    \* how each writer's last put ended: "none", "ok" or "error"

vars == <<held, asked, answer>>

\* A store is opened with what earlier writers left there.
Init ==
  /\ held \in [Places -> Copies \cup {None}]
  /\ asked = [w \in Writers |-> None]
  /\ answer = [w \in Writers |-> "none"]

\* A writer asks for the file at f to be kept.
Ask(w, f) ==
  /\ asked[w] = None
  /\ asked' = [asked EXCEPT ![w] = f]
  /\ answer' = [answer EXCEPT ![w] = "none"]
  /\ UNCHANGED held

\* An empty place takes a copy that its own step made.
Keep(f, c) ==
  /\ held[f] = None
  /\ StepOf(c) = f
  /\ held' = [held EXCEPT ![f] = c]
  /\ UNCHANGED <<asked, answer>>

\* The place holds a copy: the put succeeded.
AnswerOk(w) ==
  /\ asked[w] # None
  /\ held[asked[w]] # None
  /\ answer' = [answer EXCEPT ![w] = "ok"]
  /\ asked' = [asked EXCEPT ![w] = None]
  /\ UNCHANGED held

\* The put failed, or its process died.
GiveUp(w) ==
  /\ asked[w] # None
  /\ answer' = [answer EXCEPT ![w] = "error"]
  /\ asked' = [asked EXCEPT ![w] = None]
  /\ UNCHANGED held

Next ==
  \/ \E w \in Writers : AnswerOk(w) \/ GiveUp(w) \/ \E f \in Places : Ask(w, f)
  \/ \E f \in Places, c \in Copies : Keep(f, c)

Spec == Init /\ [][Next]_vars

-----------------------------------------------------------------------------
(* A copy once kept stays: the key's holder never changes. *)
WriteOnce == [][\A f \in Places : held[f] # None => held'[f] = held[f]]_vars
=============================================================================
