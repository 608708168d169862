-------------------------- MODULE MCContentPeerPool --------------------------
(* Small instances of ContentPeerPool.                                      *)
EXTENDS ContentPeerPool, TLC

\* Participants are interchangeable; connection ids are ordered.
Symmetry == Permutations(Participants)
===============================================================================
