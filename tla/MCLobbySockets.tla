---------------------------- MODULE MCLobbySockets ----------------------------
(* Small instances of LobbySockets.                                         *)
EXTENDS LobbySockets, TLC

===============================================================================
