-------------------------------- MODULE Worker --------------------------------
(***************************************************************************)
(* `seiza worker`: a client writes request lines, a reader thread numbers  *)
(* each as it reads it and marks the latest cancel, and the main loop      *)
(* takes the lines in turn from a channel and answers them one at a time.  *)
(* A solve looks at the mark and at its time limit between its steps.      *)
(*                                                                         *)
(* The lines are kept in one sequence; what has been read, passed to the   *)
(* channel and taken from it are three counters over it.                   *)
(*                                                                         *)
(* seiza-cli/src/worker.rs; the checks of seiza/src/solve.rs.              *)
(***************************************************************************)
EXTENDS Naturals, Sequences

CONSTANTS
  Requests,   \* the lines a client may write: [kind, id, limited]
  Remotes,    \* the ways a worker may be set up: TRUE, for solving on a
              \* seiza-server, and FALSE, for solving here
  MaxLines    \* bound: lines a client writes

Kinds == {"initialize", "solve", "cancel", "other", "garbage", "blank", "shutdown"}

ASSUME WorkerAssumption ==
  /\ Requests \subseteq [kind : Kinds, id : BOOLEAN, limited : BOOLEAN]
  /\ Remotes \subseteq BOOLEAN
  /\ MaxLines \in Nat

VARIABLES
  remote,            \* whether it solves on a seiza-server
  lines,             \* every line the client has written
  closed,            \* whether it has closed stdin
  read,              \* how many lines the reader has read
  cancelled_through, \* the number of the last cancel it read
  passed,            \* how many lines it has sent down the channel
  ending,            \* the end of the input or the read error it has sent
  taken,             \* how many lines the main loop has received
  pc,                \* where the main loop is
  initialized,
  retried,           \* whether the solve is on its second detection
  expired,           \* whether its time limit has passed
  late,              \* whether a cancel had reached it before it was taken
                     \* (history: no step reads it)
  out                \* the responses written: [number, code]

given == <<remote, lines, closed>>
reader == <<read, cancelled_through, passed, ending>>
solving == <<retried, expired, late>>
vars == <<given, reader, taken, pc, initialized, solving, out>>

Codes == {"ok", "error", "not_initialized", "solved", "failed", "timed_out",
          "cancelled"}

TypeOK ==
  /\ remote \in Remotes
  /\ lines \in Seq(Requests)
  /\ closed \in BOOLEAN
  /\ read \in 0..Len(lines)
  /\ cancelled_through \in 0..read
  /\ passed \in 0..read
  /\ ending \in {"none", "eof", "error"}
  /\ taken \in 0..passed
  /\ pc \in {"receive", "load", "check", "search", "exited"}
  /\ initialized \in BOOLEAN
  /\ retried \in BOOLEAN
  /\ expired \in BOOLEAN
  /\ late \in BOOLEAN
  /\ out \in Seq([number : Nat, code : Codes])

Init ==
  /\ remote \in Remotes
  /\ lines = <<>> /\ closed = FALSE
  /\ read = 0 /\ cancelled_through = 0 /\ passed = 0 /\ ending = "none"
  /\ taken = 0 /\ pc = "receive" /\ initialized = FALSE
  /\ retried = FALSE /\ expired = FALSE /\ late = FALSE
  /\ out = <<>>
-----------------------------------------------------------------------------
(* The client. *)

WriteLine(r) ==
  /\ ~closed
  /\ Len(lines) < MaxLines
  /\ lines' = Append(lines, r)
  /\ UNCHANGED <<remote, closed, reader, taken, pc, initialized, solving, out>>

Close ==
  /\ ~closed
  /\ closed' = TRUE
  /\ UNCHANGED <<remote, lines, reader, taken, pc, initialized, solving, out>>
-----------------------------------------------------------------------------
(* The reader thread. *)

\* Mutant of ReadLine: the line after the cancel is marked.
ReadLineMarksNext ==
  /\ ending = "none"
  /\ read = passed
  /\ read < Len(lines)
  /\ read' = read + 1
  /\ cancelled_through' =
       IF lines[read'].kind = "cancel" THEN read' + 1 ELSE cancelled_through
  /\ UNCHANGED <<given, passed, ending, taken, pc, initialized, solving, out>>

\* Reads a line, once the last one is in the channel, and marks a cancel.
ReadLine ==
  /\ ending = "none"
  /\ read = passed
  /\ read < Len(lines)
  /\ read' = read + 1
  /\ cancelled_through' =
       IF lines[read'].kind = "cancel" /\ read' > cancelled_through
       THEN read' ELSE cancelled_through
  /\ UNCHANGED <<given, passed, ending, taken, pc, initialized, solving, out>>

PassLine ==
  /\ passed < read
  /\ passed' = passed + 1
  /\ UNCHANGED <<given, read, cancelled_through, ending, taken, pc, initialized,
                 solving, out>>

\* Mutant of PassEof: the end is taken for the last line.
PassEofEarly ==
  /\ closed /\ ending = "none"
  /\ passed + 1 = Len(lines)
  /\ ending' = "eof"
  /\ UNCHANGED <<given, read, cancelled_through, passed, taken, pc, initialized,
                 solving, out>>

PassEof ==
  /\ closed /\ ending = "none"
  /\ passed = Len(lines)
  /\ ending' = "eof"
  /\ UNCHANGED <<given, read, cancelled_through, passed, taken, pc, initialized,
                 solving, out>>

\* Reading fails, the input open or not: the error is passed on like a line,
\* a line begun before it is lost, and nothing more is read.
ReadFails ==
  /\ ending = "none"
  /\ read = passed
  /\ ending' = "error"
  /\ UNCHANGED <<given, read, cancelled_through, passed, taken, pc, initialized,
                 solving, out>>
-----------------------------------------------------------------------------
(* The main loop. *)

Line(n) == lines[n]

\* A line that holds no request is answered whatever it holds; a request
\* without an id is not answered.
Answered(n) == Line(n).kind = "garbage" \/ (Line(n).id /\ Line(n).kind # "blank")

\* Mutant of Respond: notifications are answered too.
RespondToAll(n, code) == out' = Append(out, [number |-> n, code |-> code])

Respond(n, code) ==
  out' = IF Answered(n) THEN Append(out, [number |-> n, code |-> code]) ELSE out

\* The next line, when it is answered without a solve: with an error or
\* not, and perhaps initialized, or shut down.
Handle ==
  /\ pc = "receive" /\ taken < passed
  /\ taken' = taken + 1
  /\ LET kind == Line(taken').kind IN
     \/ /\ kind \in {"cancel", "other"}
        /\ Respond(taken', "ok")
        /\ UNCHANGED <<pc, initialized>>
     \/ /\ kind \in {"other", "garbage", "blank"}
        /\ Respond(taken', "error")
        /\ UNCHANGED <<pc, initialized>>
     \/ /\ kind = "initialize"
        /\ Respond(taken', "ok")
        /\ initialized' = TRUE
        /\ UNCHANGED pc
     \/ /\ kind = "initialize"
        /\ Respond(taken', "error")
        /\ UNCHANGED <<pc, initialized>>
     \/ /\ kind = "shutdown"
        /\ Respond(taken', "ok")
        /\ pc' = "exited"
        /\ UNCHANGED initialized
     \/ /\ kind = "solve" /\ ~initialized
        /\ Respond(taken', "not_initialized")
        /\ UNCHANGED <<pc, initialized>>
  /\ UNCHANGED <<given, reader, solving>>

\* A solve the parameters of which are sound starts, and so does its limit.
StartSolve ==
  /\ pc = "receive" /\ taken < passed
  /\ Line(taken + 1).kind = "solve" /\ initialized
  /\ taken' = taken + 1
  /\ pc' = "load"
  /\ retried' = FALSE /\ expired' = FALSE
  /\ late' = (cancelled_through > taken')
  /\ UNCHANGED <<given, reader, initialized, out>>

\* The limit passes while the solve runs.
Expire ==
  /\ pc \in {"load", "check", "search"}
  /\ Line(taken).limited /\ ~expired
  /\ expired' = TRUE
  /\ UNCHANGED <<given, reader, taken, pc, initialized, retried, late, out>>

\* The solve is answered, and its limit and its mark are dropped with it.
End(code) ==
  /\ pc' = "receive"
  /\ Respond(taken, code)
  /\ retried' = FALSE /\ expired' = FALSE /\ late' = FALSE

\* Mutant of Load: the search starts before its limits are looked at.
LoadThenSearch ==
  /\ pc = "load"
  /\ pc' = "search"
  /\ UNCHANGED <<given, reader, taken, initialized, solving, out>>

\* Loading and detection are not interrupted. A local search looks at its
\* limits first; a remote one uploads first.
Load ==
  /\ pc = "load"
  /\ pc' = IF remote THEN "search" ELSE "check"
  /\ UNCHANGED <<given, reader, taken, initialized, solving, out>>

\* Mutant of LoadFails: the error is not answered.
LoadFailsSilently ==
  /\ pc = "load"
  /\ pc' = "receive"
  /\ UNCHANGED <<given, reader, taken, initialized, solving, out>>

LoadFails ==
  /\ pc = "load"
  /\ End("failed")
  /\ UNCHANGED <<given, reader, taken, initialized>>

\* Mutant of Cancelled: any cancel stops every solve.
CancelledAtAll == cancelled_through > 0

Cancelled == cancelled_through > taken

\* SolveLimits::check: a cancel before a deadline.
Stop ==
  /\ pc = "check"
  /\ Cancelled \/ expired
  /\ End(IF Cancelled THEN "cancelled" ELSE "timed_out")
  /\ UNCHANGED <<given, reader, taken, initialized>>

\* Mutant of Continue: only the limit is looked at.
ContinueUntilLimit ==
  /\ pc = "check"
  /\ ~expired
  /\ pc' = "search"
  /\ UNCHANGED <<given, reader, taken, initialized, solving, out>>

Continue ==
  /\ pc = "check"
  /\ ~(Cancelled \/ expired)
  /\ pc' = "search"
  /\ UNCHANGED <<given, reader, taken, initialized, solving, out>>

\* A step that settles nothing: a window or a batch without a match, or a poll
\* of a job still queued or solving.
Search ==
  /\ pc = "search"
  /\ pc' = "check"
  /\ UNCHANGED <<given, reader, taken, initialized, solving, out>>

Solve ==
  /\ pc = "search"
  /\ End("solved")
  /\ UNCHANGED <<given, reader, taken, initialized>>

\* A local search that found nothing starts over on a finer detection, once; a
\* remote one, and the second, fail.
Fail ==
  /\ pc = "search"
  /\ \/ /\ ~remote /\ ~retried
        /\ retried' = TRUE
        /\ pc' = "check"
        /\ UNCHANGED <<expired, late, out>>
     \/ End("failed")
  /\ UNCHANGED <<given, reader, taken, initialized>>

\* Mutant of Exit: lines still in the channel are dropped.
ExitAtOnce ==
  /\ pc = "receive"
  /\ ending # "none"
  /\ pc' = "exited"
  /\ UNCHANGED <<given, reader, taken, initialized, solving, out>>

\* The end of the input or its error, after every line before it.
Exit ==
  /\ pc = "receive"
  /\ ending # "none" /\ taken = passed
  /\ pc' = "exited"
  /\ UNCHANGED <<given, reader, taken, initialized, solving, out>>
-----------------------------------------------------------------------------
Reader == ReadLine \/ PassLine \/ PassEof
Main == Handle \/ StartSolve \/ Load \/ LoadFails \/ Stop \/ Continue \/ Search
        \/ Solve \/ Fail \/ Exit

Next ==
  \/ \E r \in Requests : WriteLine(r)
  \/ Close
  \/ Reader
  \/ ReadFails
  \/ Expire
  \/ Main

Spec == Init /\ [][Next]_vars

(* Both threads run on; the client owes nothing, no read need fail and no   *)
(* limit need pass.                                                         *)
FairSpec == Spec /\ WF_vars(Reader) /\ WF_vars(Main)

-----------------------------------------------------------------------------
(* "A cancel stops every solve that arrived before it, and none that        *)
(* arrives after": a cancelled solve has a cancel written after it          *)
(* (worker.rs:208-213; worker-protocol.md:40-41).                           *)
CancelStopsOnlyEarlier ==
  \A i \in DOMAIN out : out[i].code = "cancelled" =>
    \E n \in (out[i].number + 1)..Len(lines) : lines[n].kind = "cancel"

(* Every line the main loop is done with that calls for an answer has one,  *)
(* and one only, in the order the lines came; a solve's own comes before    *)
(* its cancel's (worker-protocol.md:26-45).                                 *)
AnswersInOrder ==
  LET done == IF pc \in {"receive", "exited"} THEN taken ELSE taken - 1
      due == {n \in 1..done : Answered(n)}
  IN /\ {out[i].number : i \in DOMAIN out} = due
     /\ \A i, j \in DOMAIN out : i < j => out[i].number < out[j].number

(* The worker ends having answered everything before the end of the input,  *)
(* everything read before its input failed, or everything before the        *)
(* shutdown, and never before one of them (worker-protocol.md:34-37;        *)
(* worker.rs:258-270).                                                      *)
ExitsHavingAnswered ==
  pc = "exited" =>
    \/ taken = Len(lines) /\ closed
    \/ taken = read /\ ending = "error"
    \/ taken > 0 /\ lines[taken].kind = "shutdown"

(* A local solve that a cancel had reached while it waited in the channel   *)
(* is not searched, on either detection (worker.rs:212, 530; solve.rs:179). *)
WaitingSolvesAreStopped == late /\ ~remote => pc # "search"

(* A remote solve "stops waiting for the server at the limit": no answer of *)
(* the server later than that decides the response (worker-protocol.md:180).*)
RemoteStopsAtLimit == [][remote /\ expired /\ pc = "search" => out' = out]_vars

(* A cancel or a limit ends the solve it reaches, however long the search   *)
(* would have gone on (worker.rs:38-39; solve.rs:57-61).                    *)
LimitsEndSolves ==
  pc \in {"load", "check", "search"} /\ (Cancelled \/ expired) ~> pc = "receive"

(* What a search has to try is finite: one that goes on taking steps comes  *)
(* to its last.                                                             *)
SearchesAreFinite == SF_vars(Solve \/ Fail)

(* Every request that calls for a response gets it, unless the worker was   *)
(* shut down or its input failed before (worker-protocol.md:29-37).         *)
RequestsAreAnswered ==
  SearchesAreFinite =>
    \A n \in 1..MaxLines :
      n <= Len(lines) /\ Answered(n) ~>
        \/ \E i \in DOMAIN out : out[i].number = n
        \/ pc = "exited" /\ n > taken

(* Once the client closes its end, or reading from it fails, the worker     *)
(* ends (worker-protocol.md:34; worker.rs:270).                             *)
ClosingEndsWorker ==
  SearchesAreFinite => (closed \/ ending = "error" ~> pc = "exited")
=============================================================================
