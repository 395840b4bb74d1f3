-------------------------- MODULE MCCachedDownload --------------------------
(***************************************************************************)
(* CachedDownload with interchangeable downloads.                          *)
(***************************************************************************)
EXTENDS CachedDownload, TLC

Symmetry == Permutations(Downloads)
=============================================================================
