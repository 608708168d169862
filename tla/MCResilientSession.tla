-------------------------- MODULE MCResilientSession --------------------------
(* Small instances of ResilientSession.                                     *)
EXTENDS ResilientSession
===============================================================================
