----------------------------- MODULE MCLobbyStore -----------------------------
(* Small instances of LobbyStore.                                           *)
EXTENDS LobbyStore, TLC

\* Codes, identifiers, references and requests are interchangeable.
Symmetry == Permutations(LobbyIds) \cup Permutations(ParticipantIds)
              \cup Permutations(References) \cup Permutations(Requests)
===============================================================================
