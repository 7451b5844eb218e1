-------------------------- MODULE MCSatelliteCache --------------------------
(***************************************************************************)
(* SatelliteCache for TLC, where no liveness is checked: the loaders are   *)
(* alike, and so are the epochs.                                           *)
(***************************************************************************)
EXTENDS SatelliteCache, TLC

Symmetry == Permutations(Loaders) \cup Permutations(Epochs)
=============================================================================
