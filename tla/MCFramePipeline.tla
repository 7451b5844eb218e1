--------------------------- MODULE MCFramePipeline ---------------------------
(***************************************************************************)
(* FramePipeline for TLC: a batch of four files, and one with a repeat.    *)
(***************************************************************************)
EXTENDS FramePipeline

CONSTANTS a, b, c, d

MCPaths == {a, b, c, d}

MCBatches == {<<a, b, c, d>>, <<a, b, a, c>>}

MCTakenBefore == {{}, {b}}
=============================================================================
