----------------------------- MODULE WorkerProofs -----------------------------
(***************************************************************************)
(* What holds of the worker for any lines a client may write, any number   *)
(* of them, solved here or on a server: the types, that a cancel stops     *)
(* only solves that came before it and every one it finds waiting, that    *)
(* each line that calls for an answer has one, in order, and that the      *)
(* worker exits with everything before the end of the input, or its        *)
(* failing, answered.                                                      *)
(***************************************************************************)
EXTENDS Worker, TLAPS

Solving == {"load", "check", "search"}

(* What the mark and the end of the input say of the lines.                *)
MarkIsACancel == cancelled_through > 0 => lines[cancelled_through].kind = "cancel"
EndIsLast ==
  /\ ending = "eof" => closed /\ passed = Len(lines)
  /\ ending = "error" => passed = read

(* A solve under way is a line taken, and one a cancel had reached before  *)
(* is still cancelled: the mark never goes back.                           *)
SolveUnderWay ==
  pc \in Solving =>
    /\ taken > 0
    /\ lines[taken].kind = "solve"
    /\ late => Cancelled

(* The lines the main loop is done with, and the answers written.          *)
Done == IF pc \in {"receive", "exited"} THEN taken ELSE taken - 1
Due(d) == {n \in 1..d : Answered(n)}
Numbers == {out[i].number : i \in DOMAIN out}
Ordered == \A i, j \in DOMAIN out : i < j => out[i].number < out[j].number

(* The inductive invariant. *)
WorkerInv ==
  /\ TypeOK
  /\ MarkIsACancel
  /\ EndIsLast
  /\ SolveUnderWay
  /\ CancelStopsOnlyEarlier
  /\ Numbers = Due(Done) /\ Ordered
  /\ ExitsHavingAnswered
  /\ WaitingSolvesAreStopped

LEMMA WorkerInvInit == Init => WorkerInv
<1> SUFFICES ASSUME Init PROVE WorkerInv
  OBVIOUS
<1> USE WorkerAssumption DEF Init
<1>1. TypeOK
  <2>1. lines \in Seq(Requests) /\ Len(lines) = 0
    OBVIOUS
  <2>2. out \in Seq([number : Nat, code : Codes])
    OBVIOUS
  <2>3. read \in 0..Len(lines) /\ cancelled_through \in 0..read
        /\ passed \in 0..read /\ taken \in 0..passed
    BY <2>1
  <2>4. /\ pc \in {"receive", "load", "check", "search", "exited"}
        /\ ending \in {"none", "eof", "error"}
    OBVIOUS
  <2>5. /\ {closed, initialized, retried, expired, late} \subseteq BOOLEAN
        /\ remote \in Remotes
    OBVIOUS
  <2> HIDE DEF Init
  <2> QED BY <2>1, <2>2, <2>3, <2>4, <2>5 DEF TypeOK
<1>2. DOMAIN out = {}
  OBVIOUS
<1>3. Numbers = {} /\ Ordered
  BY <1>2 DEF Numbers, Ordered
<1>4. Due(Done) = {}
  BY DEF Due, Done
<1> QED
  BY <1>1, <1>2, <1>3, <1>4 DEF WorkerInv, MarkIsACancel, EndIsLast, SolveUnderWay, Solving,
     CancelStopsOnlyEarlier, ExitsHavingAnswered, WaitingSolvesAreStopped

Answers == [number : Nat, code : Codes]

(* An answer is written at the end of what was written, if it is called    *)
(* for, and nothing else changes there.                                    *)
LEMMA Answering ==
  ASSUME out \in Seq(Answers), NEW n \in Nat, NEW code \in Codes, Respond(n, code)
  PROVE  /\ out' \in Seq(Answers)
         /\ Answered(n) =>
              /\ DOMAIN out' = (DOMAIN out) \cup {Len(out) + 1}
              /\ \A i \in DOMAIN out : out'[i] = out[i]
              /\ out'[Len(out) + 1] = [number |-> n, code |-> code]
         /\ ~Answered(n) => out' = out
<1> DEFINE answer == [number |-> n, code |-> code]
<1>1. answer \in Answers
  BY DEF Answers
<1>2. CASE Answered(n)
  <2>1. out' = Append(out, answer)
    BY <1>2 DEF Respond
  <2> HIDE DEF answer
  <2>2. /\ out' \in Seq(Answers)
        /\ DOMAIN out' = (DOMAIN out) \cup {Len(out) + 1}
        /\ \A i \in DOMAIN out : out'[i] = out[i]
        /\ out'[Len(out) + 1] = answer
    BY <1>1, <2>1
  <2> QED BY <1>2, <2>2 DEF answer
<1> QED BY <1>2 DEF Respond

LEMMA AnsweringNext ==
  ASSUME out \in Seq(Answers), NEW d \in Nat, NEW code \in Codes,
         Respond(d + 1, code), UNCHANGED lines, Numbers = Due(d), Ordered
  PROVE  /\ Numbers' = Due(d + 1)'
         /\ Ordered'
<1>3. d + 1 \in Nat
  OBVIOUS
<1>0. \A n : Answered(n)' <=> Answered(n)
  BY DEF Answered, Line
<1>1. CASE Answered(d + 1)
  <2>1. /\ DOMAIN out' = (DOMAIN out) \cup {Len(out) + 1}
        /\ \A i \in DOMAIN out : out'[i] = out[i]
        /\ out'[Len(out) + 1] = [number |-> d + 1, code |-> code]
    BY <1>1, <1>3, Answering
  <2>2. Numbers' = Numbers \cup {d + 1}
    <3>1. Numbers' = {out'[i].number : i \in DOMAIN out'}
      BY DEF Numbers
    <3>2. Numbers = {out[i].number : i \in DOMAIN out}
      BY DEF Numbers
    <3>3. \A i \in DOMAIN out : out'[i].number = out[i].number
      BY <2>1
    <3>4. out'[Len(out) + 1].number = d + 1
      BY <2>1
    <3> QED BY <2>1, <3>1, <3>2, <3>3, <3>4
  <2>3. Due(d + 1)' = Due(d) \cup {d + 1}
    BY <1>0, <1>1 DEF Due
  <2>4. \A i \in DOMAIN out : out[i].number \in Nat /\ out[i].number < d + 1
    <3>1. \A i \in DOMAIN out : out[i].number \in Numbers
      BY DEF Numbers
    <3> QED BY <3>1 DEF Due
  <2>5. DOMAIN out = 1..Len(out) /\ Len(out) \in Nat
    OBVIOUS
  <2> QED BY <2>1, <2>2, <2>3, <2>4, <2>5 DEF Ordered
<1>2. CASE ~Answered(d + 1)
  <2>1. out' = out
    BY <1>2, <1>3, Answering
  <2>2. Due(d + 1)' = Due(d)
    BY <1>0, <1>2 DEF Due
  <2> QED BY <2>1, <2>2 DEF Numbers, Ordered
<1> QED BY <1>1, <1>2

-----------------------------------------------------------------------------
(* A line once written stays what it is. *)
LEMMA LinesGrow ==
  ASSUME TypeOK, [Next]_vars
  PROVE  /\ lines' \in Seq(Requests)
         /\ Len(lines) \in Nat /\ Len(lines') \in Nat /\ Len(lines) <= Len(lines')
         /\ \A n \in 1..Len(lines) : lines'[n] = lines[n]
<1> USE DEF TypeOK
<1>1. CASE UNCHANGED lines
  BY <1>1
<1>2. ASSUME NEW r \in Requests, WriteLine(r)
      PROVE  lines' \in Seq(Requests) /\ Len(lines') = Len(lines) + 1
             /\ \A n \in 1..Len(lines) : lines'[n] = lines[n]
  BY <1>2 DEF WriteLine
<1>3. UNCHANGED lines \/ \E r \in Requests : WriteLine(r)
  BY DEF Next, vars, given, Close, Reader, ReadLine, PassLine, PassEof, ReadFails, Expire,
     Main, Handle, StartSolve, Load, LoadFails, Stop, Continue, Search, Solve, Fail,
     Exit
<1> QED BY <1>1, <1>2, <1>3

(* Types are kept by every step. *)
LEMMA TypeStep == WorkerInv /\ [Next]_vars => TypeOK'
<1> SUFFICES ASSUME WorkerInv, [Next]_vars PROVE TypeOK'
  OBVIOUS
<1>0. /\ TypeOK
      /\ lines' \in Seq(Requests)
      /\ Len(lines) \in Nat /\ Len(lines') \in Nat /\ Len(lines) <= Len(lines')
  BY LinesGrow DEF WorkerInv
<1> USE DEF TypeOK, given, reader, solving
<1>1. ASSUME NEW r \in Requests, WriteLine(r) PROVE TypeOK'
  BY <1>0, <1>1 DEF WriteLine
<1>2. CASE Close
  BY <1>0, <1>2 DEF Close
<1>3. CASE ReadLine
  BY <1>0, <1>3 DEF ReadLine
<1>4. CASE PassLine
  BY <1>0, <1>4 DEF PassLine
<1>5. CASE PassEof \/ ReadFails
  BY <1>0, <1>5 DEF PassEof, ReadFails
<1>6. CASE Expire
  BY <1>0, <1>6 DEF Expire
<1>7. ASSUME NEW n \in Nat, NEW code \in Codes, Respond(n, code)
      PROVE  out' \in Seq([number : Nat, code : Codes])
  BY <1>0, <1>7, Answering DEF Answers
<1>8. CASE Handle
  <2>1. taken + 1 \in Nat /\ {"ok", "error", "not_initialized"} \subseteq Codes
    BY <1>0 DEF Codes
  <2>2. out' \in Seq([number : Nat, code : Codes])
    BY <1>7, <1>8, <2>1 DEF Handle
  <2>3. taken' \in 0..passed
    BY <1>0, <1>8 DEF Handle
  <2>4. pc' \in {pc, "exited"} /\ initialized' \in {initialized, TRUE}
    BY <1>8 DEF Handle
  <2>5. UNCHANGED <<given, reader, solving>>
    BY <1>8 DEF Handle
  <2> QED BY <1>0, <2>2, <2>3, <2>4, <2>5
<1>9. CASE StartSolve
  <2>1. taken' \in 0..passed
    BY <1>0, <1>9 DEF StartSolve
  <2>2. late' \in BOOLEAN
    <3>1. late' = (cancelled_through > taken')
      BY <1>9 DEF StartSolve
    <3>2. CASE cancelled_through > taken'
      BY <3>1, <3>2
    <3>3. CASE ~(cancelled_through > taken')
      BY <3>1, <3>3
    <3> QED BY <3>2, <3>3
  <2>4. pc' = "load" /\ retried' = FALSE /\ expired' = FALSE
    BY <1>9 DEF StartSolve
  <2>3. UNCHANGED <<given, reader, initialized, out>>
    BY <1>9 DEF StartSolve
  <2> QED BY <1>0, <2>1, <2>2, <2>3, <2>4
<1>10. ASSUME NEW code \in Codes, End(code)
       PROVE  /\ pc' = "receive" /\ out' \in Seq([number : Nat, code : Codes])
              /\ retried' \in BOOLEAN /\ expired' \in BOOLEAN /\ late' \in BOOLEAN
  <2>1. taken \in Nat
    BY <1>0
  <2>2. /\ Respond(taken, code) /\ pc' = "receive"
        /\ retried' = FALSE /\ expired' = FALSE /\ late' = FALSE
    BY <1>10 DEF End
  <2> QED BY <1>7, <2>1, <2>2
<1>11. CASE Load
  BY <1>0, <1>11 DEF Load
<1>12. CASE LoadFails
  BY <1>0, <1>10, <1>12 DEF LoadFails, Codes
<1>13. CASE Stop
  BY <1>0, <1>10, <1>13 DEF Stop, Codes
<1>14. CASE Continue
  BY <1>0, <1>14 DEF Continue
<1>15. CASE Search
  BY <1>0, <1>15 DEF Search
<1>16. CASE Solve
  BY <1>0, <1>10, <1>16 DEF Solve, Codes
<1>17. CASE Fail
  BY <1>0, <1>10, <1>17 DEF Fail, Codes
<1>18. CASE Exit
  BY <1>0, <1>18 DEF Exit
<1>19. CASE UNCHANGED vars
  BY <1>0, <1>19 DEF vars
<1> QED
  BY <1>1, <1>2, <1>3, <1>4, <1>5, <1>6, <1>8, <1>9, <1>11, <1>12, <1>13, <1>14,
     <1>15, <1>16, <1>17, <1>18, <1>19 DEF Next, Reader, Main
-----------------------------------------------------------------------------
(* The client's steps and the reader's, and the passing of time: the main   *)
(* loop stays where it is, and the mark does not go back.                   *)
LEMMA Outside ==
  ASSUME WorkerInv,
         \/ \E r \in Requests : WriteLine(r)
         \/ Close \/ Reader \/ ReadFails \/ Expire \/ UNCHANGED vars
  PROVE  /\ UNCHANGED <<remote, taken, pc, late, out>>
         /\ cancelled_through \in Nat /\ cancelled_through' \in Nat
         /\ cancelled_through' >= cancelled_through
<1>1. TypeOK /\ read \in Nat /\ cancelled_through \in Nat
  BY DEF WorkerInv, TypeOK
<1> USE DEF given, reader, solving
<1>2. CASE \E r \in Requests : WriteLine(r)
  BY <1>1, <1>2 DEF WriteLine
<1>3. CASE Close
  BY <1>1, <1>3 DEF Close
<1>4. CASE Reader
  BY <1>1, <1>4 DEF Reader, ReadLine, PassLine, PassEof
<1>r. CASE ReadFails
  BY <1>1, <1>r DEF ReadFails
<1>5. CASE Expire
  BY <1>1, <1>5 DEF Expire
<1>6. CASE UNCHANGED vars
  BY <1>1, <1>6 DEF vars
<1> QED BY <1>2, <1>3, <1>4, <1>r, <1>5, <1>6

(* The main loop's steps leave the lines and the reader alone.              *)
LEMMA Inside ==
  ASSUME Main PROVE UNCHANGED <<given, reader>>
BY DEF Main, Handle, StartSolve, Load, LoadFails, Stop, Continue, Search, Solve, Fail,
   Exit

(* They take a line and are done with it, take a solve, go on with one, end *)
(* one with an answer, or stop at the end of the input.                     *)
GoesOn == pc \in Solving /\ pc' \in Solving /\ UNCHANGED <<taken, late, out>>
Ends(code) == pc \in Solving /\ pc' = "receive" /\ Respond(taken, code)
              /\ UNCHANGED taken

LEMMA MainSteps ==
  ASSUME Main
  PROVE  \/ Handle
         \/ StartSolve
         \/ GoesOn
         \/ \E code \in Codes \ {"cancelled"} : Ends(code)
         \/ Cancelled /\ Ends("cancelled")
         \/ Exit
<1> USE DEF solving, Solving, GoesOn, Ends, End
<1>1. CASE Load
  BY <1>1 DEF Load
<1>2. CASE LoadFails
  BY <1>2 DEF LoadFails, Codes
<1>3. CASE Stop
  <2>1. CASE Cancelled
    BY <1>3, <2>1 DEF Stop
  <2>2. CASE ~Cancelled
    BY <1>3, <2>2 DEF Stop, Codes
  <2> QED BY <2>1, <2>2
<1>4. CASE Continue
  BY <1>4 DEF Continue
<1>5. CASE Search
  BY <1>5 DEF Search
<1>6. CASE Solve
  BY <1>6 DEF Solve, Codes
<1>7. CASE Fail
  BY <1>7 DEF Fail, Codes
<1> QED BY <1>1, <1>2, <1>3, <1>4, <1>5, <1>6, <1>7 DEF Main

LEMMA MarkStep == WorkerInv /\ [Next]_vars => MarkIsACancel'
<1> SUFFICES ASSUME WorkerInv, [Next]_vars PROVE MarkIsACancel'
  OBVIOUS
<1>1. /\ TypeOK
      /\ Len(lines) \in Nat
      /\ \A n \in 1..Len(lines) : lines'[n] = lines[n]
  BY LinesGrow DEF WorkerInv
<1>2. read \in 0..Len(lines) /\ cancelled_through \in 0..read
  BY <1>1 DEF TypeOK
<1>3. CASE UNCHANGED cancelled_through
  BY <1>1, <1>2, <1>3 DEF WorkerInv, MarkIsACancel
<1>4. CASE ReadLine
  <2>1. UNCHANGED lines
    BY <1>4 DEF ReadLine, given
  <2> QED BY <1>2, <1>4, <2>1 DEF ReadLine, WorkerInv, MarkIsACancel
<1>5. UNCHANGED cancelled_through \/ ReadLine
  BY Inside DEF Next, vars, reader, WriteLine, Close, Reader, PassLine, PassEof, ReadFails, Expire
<1> QED BY <1>3, <1>4, <1>5

LEMMA EndStep == WorkerInv /\ [Next]_vars => EndIsLast'
<1> SUFFICES ASSUME WorkerInv, [Next]_vars PROVE EndIsLast'
  OBVIOUS
<1>1. /\ EndIsLast
      /\ passed \in 0..read /\ read \in 0..Len(lines) /\ Len(lines) \in Nat
  BY DEF WorkerInv, TypeOK
<1> USE DEF given, reader, EndIsLast
<1>2. CASE \E r \in Requests : WriteLine(r)
  BY <1>1, <1>2 DEF WriteLine
<1>3. CASE Close
  BY <1>1, <1>3 DEF Close
<1>4. CASE Reader
  <2>1. CASE PassEof
    BY <2>1 DEF PassEof
  <2>2. CASE ReadLine \/ PassLine
    <3>1. UNCHANGED <<ending, lines, closed>>
      BY <2>2 DEF ReadLine, PassLine
    <3>2. ending = "none"
      BY <1>1, <2>2 DEF ReadLine, PassLine, WorkerInv, TypeOK
    <3> QED BY <3>1, <3>2
  <2> QED BY <1>4, <2>1, <2>2 DEF Reader
<1>5. CASE ReadFails
  BY <1>5 DEF ReadFails
<1>6. CASE Expire \/ Main \/ UNCHANGED vars
  BY <1>1, <1>6, Inside DEF Expire, vars
<1> QED BY <1>2, <1>3, <1>4, <1>5, <1>6 DEF Next

LEMMA SolveStep == WorkerInv /\ [Next]_vars => SolveUnderWay'
<1> SUFFICES ASSUME WorkerInv, [Next]_vars, pc' \in Solving
             PROVE  /\ taken' > 0
                    /\ lines'[taken'].kind = "solve"
                    /\ late' => Cancelled'
  BY DEF SolveUnderWay
<1>1. /\ TypeOK
      /\ Len(lines) \in Nat
      /\ \A n \in 1..Len(lines) : lines'[n] = lines[n]
  BY LinesGrow DEF WorkerInv
<1>2. /\ taken \in 0..passed /\ passed \in 0..read /\ read \in 0..Len(lines)
      /\ cancelled_through \in Nat /\ taken \in Nat /\ read \in Nat /\ passed \in Nat
  BY <1>1 DEF TypeOK
\* A solve that was under way before is what it was.
<1>3. ASSUME pc \in Solving, UNCHANGED <<taken, late>>,
             cancelled_through' \in Nat, cancelled_through' >= cancelled_through
      PROVE  /\ taken' > 0
             /\ lines'[taken'].kind = "solve"
             /\ late' => Cancelled'
  <2>1. taken > 0 /\ lines[taken].kind = "solve" /\ (late => Cancelled)
    BY <1>3 DEF WorkerInv, SolveUnderWay
  <2>2. taken' > 0 /\ lines'[taken'].kind = "solve"
    BY <1>1, <1>2, <1>3, <2>1
  <2>3. Cancelled => Cancelled'
    BY <1>2, <1>3 DEF Cancelled
  <2> QED BY <1>3, <2>1, <2>2, <2>3
<1>4. CASE \/ \E r \in Requests : WriteLine(r)
           \/ Close \/ Reader \/ ReadFails \/ Expire \/ UNCHANGED vars
  BY <1>3, <1>4, Outside
<1>5. CASE Main
  <2>1. UNCHANGED <<lines, cancelled_through>>
    BY <1>5, Inside DEF given, reader
  <2>2. CASE StartSolve
    <3>1. taken' > 0 /\ taken' = taken + 1
      BY <1>2, <2>2 DEF StartSolve
    <3>2. lines'[taken'].kind = "solve"
      BY <2>1, <2>2 DEF StartSolve, Line
    <3>3. late' = Cancelled'
      BY <2>1, <2>2 DEF StartSolve, Cancelled
    <3> QED BY <3>1, <3>2, <3>3
  <2>3. CASE GoesOn
    BY <1>2, <1>3, <2>1, <2>3 DEF GoesOn
  <2>4. ~Handle /\ ~Exit /\ \A code : ~Ends(code)
    BY DEF Handle, Exit, Ends, Solving
  <2> QED BY <1>5, <2>2, <2>3, <2>4, MainSteps
<1> QED BY <1>4, <1>5 DEF Next

LEMMA WaitStep == WorkerInv /\ [Next]_vars => WaitingSolvesAreStopped'
<1> SUFFICES ASSUME WorkerInv, [Next]_vars, late', ~remote' PROVE pc' # "search"
  BY DEF WaitingSolvesAreStopped
<1>1. WaitingSolvesAreStopped /\ SolveUnderWay
  BY DEF WorkerInv
<1>2. CASE \/ \E r \in Requests : WriteLine(r)
           \/ Close \/ Reader \/ ReadFails \/ Expire \/ UNCHANGED vars
  BY <1>1, <1>2, Outside DEF WaitingSolvesAreStopped
<1>3. CASE Main
  <2>1. UNCHANGED remote
    BY <1>3, Inside DEF given
  <2>2. CASE Load
    BY <2>1, <2>2 DEF Load
  \* It is not cancelled, so no cancel had reached it.
  <2>3. ~Continue
    <3>1. SUFFICES ASSUME Continue PROVE FALSE
      OBVIOUS
    <3>2. pc \in Solving /\ late /\ ~Cancelled
      BY <3>1 DEF Continue, Solving, solving
    <3> QED BY <1>1, <3>2 DEF SolveUnderWay
  <2>4. CASE Handle
    BY <2>4 DEF Handle
  <2> QED BY <1>3, <2>2, <2>3, <2>4 DEF Main, StartSolve, LoadFails, Stop, Search, Solve,
             Fail, Exit, End
<1> QED BY <1>2, <1>3 DEF Next

(* Nothing is read past the end of the input or its error.                 *)
LEMMA EndReached ==
  ASSUME WorkerInv, ending = "error",
         \/ \E r \in Requests : WriteLine(r)
         \/ Close \/ Reader \/ ReadFails \/ Expire \/ UNCHANGED vars
  PROVE  UNCHANGED <<read, ending>>
BY DEF WorkerInv, EndIsLast, WriteLine, Close, Reader, ReadLine, PassLine, PassEof,
   ReadFails, Expire, vars, reader

LEMMA ExitStep == WorkerInv /\ [Next]_vars => ExitsHavingAnswered'
<1> SUFFICES ASSUME WorkerInv, [Next]_vars, pc' = "exited"
             PROVE  \/ taken' = Len(lines') /\ closed'
                    \/ taken' = read' /\ ending' = "error"
                    \/ taken' > 0 /\ lines'[taken'].kind = "shutdown"
  BY DEF ExitsHavingAnswered
<1>1. /\ TypeOK
      /\ Len(lines) \in Nat
      /\ \A n \in 1..Len(lines) : lines'[n] = lines[n]
  BY LinesGrow DEF WorkerInv
<1>2. /\ taken \in 0..passed /\ passed \in 0..read /\ read \in 0..Len(lines)
      /\ taken \in Nat /\ taken <= Len(lines)
  BY <1>1 DEF TypeOK
<1>3. CASE \/ \E r \in Requests : WriteLine(r)
           \/ Close \/ Reader \/ ReadFails \/ Expire \/ UNCHANGED vars
  <2>1. UNCHANGED <<taken, pc>>
    BY <1>3, Outside
  <2>2. CASE taken = Len(lines) /\ closed
    <3>1. UNCHANGED <<lines, closed>>
      BY <1>3, <2>2 DEF WriteLine, Close, Reader, ReadLine, PassLine, PassEof, ReadFails, Expire,
         vars, given
    <3> QED BY <2>1, <2>2, <3>1
  <2>3. CASE taken > 0 /\ lines[taken].kind = "shutdown"
    BY <1>1, <1>2, <2>1, <2>3
  <2>4. CASE taken = read /\ ending = "error"
    <3>1. UNCHANGED <<read, ending>>
      BY <1>2, <1>3, <2>4, EndReached
    <3> QED BY <2>1, <2>4, <3>1
  <2> QED BY <2>1, <2>2, <2>3, <2>4 DEF WorkerInv, ExitsHavingAnswered
<1>4. CASE Main
  <2>1. UNCHANGED <<lines, closed>>
    BY <1>4, Inside DEF given
  <2>2. CASE Handle
    <3>1. taken' > 0 /\ pc = "receive"
      BY <1>2, <2>2 DEF Handle
    <3>2. lines'[taken'].kind = "shutdown"
      BY <2>1, <2>2, <3>1 DEF Handle, Line
    <3> QED BY <3>1, <3>2
  <2>3. CASE Exit
    <3>1. UNCHANGED <<read, ending, taken>> /\ ending \in {"eof", "error"}
      BY <1>1, <2>3 DEF Exit, reader, TypeOK
    <3>2. taken = passed /\ EndIsLast
      BY <2>3 DEF Exit, WorkerInv
    <3> QED BY <2>1, <3>1, <3>2 DEF EndIsLast
  <2>4. ~StartSolve /\ ~GoesOn /\ \A code : ~Ends(code)
    BY DEF StartSolve, GoesOn, Ends, Solving
  <2> QED BY <1>4, <2>2, <2>3, <2>4, MainSteps
<1> QED BY <1>3, <1>4 DEF Next
(* A line handled at once is answered at once, and never as cancelled.      *)
LEMMA HandleAnswers ==
  ASSUME Handle
  PROVE  /\ pc = "receive" /\ pc' \in {"receive", "exited"}
         /\ taken' = taken + 1
         /\ \E code \in Codes \ {"cancelled"} : Respond(taken + 1, code)
<1>1. {"ok", "error", "not_initialized"} \subseteq Codes \ {"cancelled"}
  BY DEF Codes
<1>2. taken' = taken + 1 /\ pc = "receive" /\ pc' \in {"receive", "exited"}
  BY DEF Handle
<1>3. \/ Respond(taken', "ok")
      \/ Respond(taken', "error")
      \/ Respond(taken', "not_initialized")
  BY DEF Handle
<1>4. \/ Respond(taken + 1, "ok")
      \/ Respond(taken + 1, "error")
      \/ Respond(taken + 1, "not_initialized")
  BY <1>2, <1>3
<1> QED BY <1>1, <1>2, <1>4

LEMMA AnswerStep == WorkerInv /\ [Next]_vars => Numbers' = Due(Done)' /\ Ordered'
<1> SUFFICES ASSUME WorkerInv, [Next]_vars
             PROVE  Numbers' = Due(Done)' /\ Ordered'
  OBVIOUS
<1>1. /\ TypeOK
      /\ Len(lines) \in Nat
      /\ \A n \in 1..Len(lines) : lines'[n] = lines[n]
  BY LinesGrow DEF WorkerInv
<1>2. /\ Numbers = Due(Done) /\ Ordered
      /\ SolveUnderWay
  BY DEF WorkerInv
<1>3. /\ taken \in Nat /\ taken <= Len(lines)
      /\ out \in Seq(Answers)
  BY <1>1 DEF TypeOK, Answers
<1>4. Done \in Nat /\ Done <= Len(lines)
  BY <1>2, <1>3, <1>1 DEF Done, SolveUnderWay, Solving, TypeOK
\* Nothing is due that was not.
<1>5. ASSUME UNCHANGED out, Done' = Done PROVE Numbers' = Due(Done)' /\ Ordered'
  <2>1. \A n \in 1..Done : Answered(n)' <=> Answered(n)
    BY <1>1, <1>4 DEF Answered, Line
  <2>2. Due(Done)' = Due(Done)
    BY <1>5, <2>1 DEF Due
  <2>3. Numbers' = Numbers /\ (Ordered <=> Ordered')
    BY <1>5 DEF Numbers, Ordered
  <2> QED BY <1>2, <2>2, <2>3
\* One more is, and it is answered.
<1>6. ASSUME NEW code \in Codes, Respond(Done + 1, code), UNCHANGED lines,
             Done' = Done + 1
      PROVE  Numbers' = Due(Done)' /\ Ordered'
  <2>1. PICK d \in Nat : d = Done
    BY <1>4
  <2>2. Respond(d + 1, code) /\ Numbers = Due(d) /\ Done' = d + 1
    BY <1>2, <1>6, <2>1
  <2>3. Numbers' = Due(d + 1)' /\ Ordered'
    BY <1>2, <1>3, <1>6, <2>2, AnsweringNext
  <2>4. Due(Done)' = Due(d + 1)'
    BY <2>2 DEF Due
  <2> QED BY <2>3, <2>4
<1>7. CASE \/ \E r \in Requests : WriteLine(r)
           \/ Close \/ Reader \/ ReadFails \/ Expire \/ UNCHANGED vars
  BY <1>5, <1>7, Outside DEF Done
<1>8. CASE Main
  <2>1. UNCHANGED lines
    BY <1>8, Inside DEF given
  <2>2. CASE Handle
    <3>1. Done = taken /\ Done' = taken + 1
      BY <2>2, HandleAnswers DEF Done
    <3>2. PICK code \in Codes : Respond(taken + 1, code)
      BY <2>2, HandleAnswers
    <3> QED BY <1>6, <2>1, <3>1, <3>2
  <2>3. CASE StartSolve
    BY <1>3, <1>5, <2>3 DEF StartSolve, Done
  <2>4. CASE GoesOn
    BY <1>5, <2>4 DEF GoesOn, Done, Solving
  <2>5. ASSUME NEW code \in Codes, Ends(code) PROVE Numbers' = Due(Done)' /\ Ordered'
    <3>1. Done = taken - 1 /\ Done' = taken
      BY <2>5 DEF Ends, Solving, Done
    <3>2. Done + 1 = taken
      BY <1>3, <3>1
    <3> QED BY <1>6, <2>1, <2>5, <3>1, <3>2 DEF Ends
  <2>6. CASE Exit
    BY <1>5, <2>6 DEF Exit, Done
  <2>7. "cancelled" \in Codes
    BY DEF Codes
  <2> QED BY <1>8, <2>2, <2>3, <2>4, <2>5, <2>6, <2>7, MainSteps
<1> QED BY <1>7, <1>8 DEF Next

LEMMA CancelStep == WorkerInv /\ [Next]_vars => CancelStopsOnlyEarlier'
<1> SUFFICES ASSUME WorkerInv, [Next]_vars PROVE CancelStopsOnlyEarlier'
  OBVIOUS
<1>1. /\ TypeOK
      /\ Len(lines) \in Nat /\ Len(lines') \in Nat /\ Len(lines) <= Len(lines')
      /\ \A n \in 1..Len(lines) : lines'[n] = lines[n]
  BY LinesGrow DEF WorkerInv
<1>2. /\ taken \in Nat
      /\ cancelled_through \in Nat /\ cancelled_through <= Len(lines)
      /\ out \in Seq(Answers)
  BY <1>1 DEF TypeOK, Answers
<1> DEFINE StoppedBy(a, b, c) == \E n \in (a + 1)..b : c[n].kind = "cancel"
\* The answers there were are still accounted for.
<1>3. \A i \in DOMAIN out : out[i].code = "cancelled" =>
        StoppedBy(out[i].number, Len(lines'), lines')
  <2>1. SUFFICES ASSUME NEW i \in DOMAIN out, out[i].code = "cancelled"
                 PROVE  StoppedBy(out[i].number, Len(lines'), lines')
    OBVIOUS
  <2>2. out[i].number \in Nat
    <3>1. out[i] \in Answers
      BY <1>2, <2>1
    <3> QED BY <3>1 DEF Answers
  <2>3. PICK n \in (out[i].number + 1)..Len(lines) : lines[n].kind = "cancel"
    BY <2>1 DEF WorkerInv, CancelStopsOnlyEarlier
  <2> QED BY <1>1, <2>2, <2>3
<1>4. CASE UNCHANGED out
  BY <1>3, <1>4 DEF CancelStopsOnlyEarlier
<1>5. ASSUME NEW n \in Nat, NEW code \in Codes, Respond(n, code),
             code = "cancelled" => StoppedBy(n, Len(lines'), lines')
      PROVE  CancelStopsOnlyEarlier'
  <2>1. CASE Answered(n)
    <3>1. /\ DOMAIN out' = (DOMAIN out) \cup {Len(out) + 1}
          /\ \A i \in DOMAIN out : out'[i] = out[i]
          /\ out'[Len(out) + 1] = [number |-> n, code |-> code]
      BY <1>2, <1>5, <2>1, Answering
    <3>2. SUFFICES ASSUME NEW i \in DOMAIN out', out'[i].code = "cancelled"
                   PROVE  StoppedBy(out'[i].number, Len(lines'), lines')
      BY DEF CancelStopsOnlyEarlier
    <3>3. CASE i \in DOMAIN out
      BY <1>3, <3>1, <3>2, <3>3
    <3>4. CASE i = Len(out) + 1
      <4>1. out'[i] = [number |-> n, code |-> code]
        BY <3>1, <3>4
      <4>2. out'[i].number = n /\ out'[i].code = code
        BY <4>1
      <4> HIDE DEF StoppedBy
      <4> QED BY <1>5, <3>2, <4>2
    <3> QED BY <3>1, <3>3, <3>4
  <2>2. CASE ~Answered(n)
    BY <1>2, <1>4, <1>5, <2>2, Answering
  <2> QED BY <2>1, <2>2
<1>6. CASE \/ \E r \in Requests : WriteLine(r)
           \/ Close \/ Reader \/ ReadFails \/ Expire \/ UNCHANGED vars
  BY <1>4, <1>6, Outside
<1>7. CASE Main
  <2>1. UNCHANGED lines
    BY <1>7, Inside DEF given
  <2>2. CASE Handle
    <3>1. PICK code \in Codes \ {"cancelled"} : Respond(taken + 1, code)
      BY <2>2, HandleAnswers
    <3> QED BY <1>2, <1>5, <3>1
  <2>3. CASE StartSolve \/ GoesOn \/ Exit
    BY <1>4, <2>3 DEF StartSolve, GoesOn, Exit
  <2>4. ASSUME NEW code \in Codes \ {"cancelled"}, Ends(code)
        PROVE  CancelStopsOnlyEarlier'
    BY <1>2, <1>5, <2>4 DEF Ends
  \* The line marked is a cancel, and comes after the one that was taken.
  <2>5. ASSUME Cancelled, Ends("cancelled") PROVE CancelStopsOnlyEarlier'
    <3>1. cancelled_through > taken
      BY <2>5 DEF Cancelled
    <3>2. lines[cancelled_through].kind = "cancel"
      BY <1>2, <3>1 DEF WorkerInv, MarkIsACancel
    <3>3. StoppedBy(taken, Len(lines'), lines')
      BY <1>1, <1>2, <2>1, <3>1, <3>2
    <3>4. "cancelled" \in Codes /\ Respond(taken, "cancelled")
      BY <2>5 DEF Ends, Codes
    <3> HIDE DEF StoppedBy
    <3> QED BY <1>2, <1>5, <3>3, <3>4
  <2> QED BY <1>7, <2>2, <2>3, <2>4, <2>5, MainSteps
<1> QED BY <1>6, <1>7 DEF Next
LEMMA WorkerInvStep == WorkerInv /\ [Next]_vars => WorkerInv'
BY TypeStep, MarkStep, EndStep, SolveStep, CancelStep, AnswerStep, ExitStep, WaitStep
   DEF WorkerInv
-----------------------------------------------------------------------------
(* What is read, passed, taken, solved and answered fits together at every *)
(* moment between a line written by the client and the worker's end.       *)
THEOREM WorkerInvariant == Spec => []WorkerInv
BY WorkerInvInit, WorkerInvStep, PTL DEF Spec

(* The worker's variables keep to their types: the reader never gets ahead *)
(* of the lines, the channel of the reader, or the main loop of either.    *)
THEOREM TypeCorrect == Spec => []TypeOK
<1>1. WorkerInv => TypeOK
  BY DEF WorkerInv
<1> QED BY <1>1, WorkerInvariant, PTL

(* A cancel stops no solve that arrived after it, however late the main    *)
(* loop gets to either (worker.rs:208-213, 530).                           *)
THEOREM CancelsLookBack == Spec => []CancelStopsOnlyEarlier
<1>1. WorkerInv => CancelStopsOnlyEarlier
  BY DEF WorkerInv
<1> QED BY <1>1, WorkerInvariant, PTL

(* Every line the main loop is done with that calls for an answer has one, *)
(* only one, and in the order the lines came.                              *)
THEOREM OneAnswerEach == Spec => []AnswersInOrder
<1>1. WorkerInv => AnswersInOrder
  BY DEF WorkerInv, AnswersInOrder, Numbers, Due, Done, Ordered
<1> QED BY <1>1, WorkerInvariant, PTL

(* The worker exits at the end of the input or on an error reading it,     *)
(* with nothing left in the channel, or on a shutdown.                     *)
THEOREM NothingLeftAtExit == Spec => []ExitsHavingAnswered
<1>1. WorkerInv => ExitsHavingAnswered
  BY DEF WorkerInv
<1> QED BY <1>1, WorkerInvariant, PTL

(* A solve that a cancel reached in the channel is never searched here.    *)
THEOREM CancelsReachTheChannel == Spec => []WaitingSolvesAreStopped
<1>1. WorkerInv => WaitingSolvesAreStopped
  BY DEF WorkerInv
<1> QED BY <1>1, WorkerInvariant, PTL
=============================================================================
