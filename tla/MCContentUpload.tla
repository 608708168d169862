---------------------------- MODULE MCContentUpload ----------------------------
(* Small instances of ContentUpload: the calls and the pools are alike.     *)
EXTENDS ContentUpload, TLC

Symmetry == Permutations(Sends) \cup Permutations(Pools)
================================================================================
