----------------------------- MODULE MCGameFiles -----------------------------
(* Small instances of GameFiles.                                            *)
EXTENDS GameFiles
===============================================================================
