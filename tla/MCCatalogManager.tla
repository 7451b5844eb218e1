--------------------------- MODULE MCCatalogManager ---------------------------
(***************************************************************************)
(* CatalogManager for TLC: a bundle of two files, one of which a later     *)
(* version replaces by another of the same size, and a content of that     *)
(* size that is in no version, for a damaged file to hold.                 *)
(***************************************************************************)
EXTENDS CatalogManager, TLC

CONSTANTS stars, objects1, objects2, other

MCFiles == <<"stars-lite-tycho2.bin", "objects.bin">>

MCContents == {stars, objects1, objects2, other}

MCBundle == <<<<stars, objects1>>, <<stars, objects2>>>>

MCSizeOf == [c \in MCContents |-> IF c = stars THEN 2 ELSE 1]

MCFileIds == 1..12

Symmetry == Permutations(Managers)
=============================================================================
