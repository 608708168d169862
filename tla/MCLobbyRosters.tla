---------------------------- MODULE MCLobbyRosters ----------------------------
(* Small instances of LobbyRosters.                                         *)
EXTENDS LobbyRosters, TLC

\* Participants are interchangeable, and so are sockets.
Symmetry == Permutations(ParticipantIds) \cup Permutations(Senders)
===============================================================================
