------------------------------- MODULE MCWorker -------------------------------
(***************************************************************************)
(* Worker for TLC: one line of each kind a client mixes.                   *)
(***************************************************************************)
EXTENDS Worker

Request(kind, id, limited) == [kind |-> kind, id |-> id, limited |-> limited]

\* Solves with and without a limit, and what stops them; a line that holds no
\* request, and a shutdown without an id.
Client ==
  {Request("initialize", TRUE, FALSE), Request("solve", TRUE, TRUE),
   Request("solve", FALSE, FALSE), Request("cancel", TRUE, FALSE),
   Request("garbage", FALSE, FALSE), Request("shutdown", FALSE, FALSE)}
=============================================================================
