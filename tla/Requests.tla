------------------------------- MODULE Requests -------------------------------
(***************************************************************************)
(* What GameFiles.requestFile (src/web/game-files.ts) promises its caller: *)
(* a request that was asked is settled, once, by its file or an error.     *)
(***************************************************************************)
CONSTANT Ids

VARIABLE outcome

Init == outcome = [r \in Ids |-> "unasked"]

Becomes(r, from, to) == outcome[r] = from /\ outcome' = [outcome EXCEPT ![r] = to]

Ask(r) == Becomes(r, "unasked", "pending")

\* The request could not be sent.
Fail(r) == Becomes(r, "unasked", "rejected")

Settle(r) == Becomes(r, "pending", "resolved") \/ Becomes(r, "pending", "rejected")

\* A peer that goes and a close settle all that wait for them.
SettleAll(S) ==
  /\ \A r \in S : outcome[r] = "pending"
  /\ outcome' = [r \in Ids |-> IF r \in S THEN "rejected" ELSE outcome[r]]

Next ==
  \/ \E r \in Ids : Ask(r) \/ Fail(r) \/ Settle(r)
  \/ \E S \in SUBSET Ids : SettleAll(S)

Waiting(r) == outcome[r] = "pending"

\* A request is settled at most once.
SettledOnce == Init /\ [][Next]_outcome

\* And none waits for ever.
RequestSpec == SettledOnce /\ \A r \in Ids : []<>~Waiting(r)
===============================================================================
