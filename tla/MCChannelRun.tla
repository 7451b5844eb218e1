----------------------------- MODULE MCChannelRun -----------------------------
(***************************************************************************)
(* ChannelRun for TLC: one channel's plans as its sessions grow.           *)
(***************************************************************************)
EXTENDS ChannelRun

CONSTANTS a, b

Plan(sessions, keep) == [sessions |-> sessions, keep |-> keep]

\* A session, the same grown by a light with and without its context kept, the
\* grown one given with another twice and with one that accepts nothing, and only
\* the latter.
GrowingPlans ==
  {Plan(<< <<a>> >>, TRUE), Plan(<< <<a, b>> >>, TRUE),
   Plan(<< <<a, b>>, <<b>>, <<a>>, <<a>> >>, FALSE), Plan(<< <<b>> >>, TRUE)}

\* A session combined with the same grown, or alone.
CombiningPlans ==
  {Plan(<< <<a>>, <<a, b>> >>, TRUE), Plan(<< <<a>>, <<b>> >>, FALSE)}
=============================================================================
