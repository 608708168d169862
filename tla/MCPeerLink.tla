------------------------------ MODULE MCPeerLink ------------------------------
(* Small instances of PeerLink.                                             *)
EXTENDS PeerLink

\* Two faults of any kinds.
TwoFaults == faults.losses + faults.failures + faults.refusals <= 2
===============================================================================
