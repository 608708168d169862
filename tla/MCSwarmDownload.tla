---------------------------- MODULE MCSwarmDownload ----------------------------
(* Small instances of SwarmDownload.                                        *)
EXTENDS SwarmDownload

CONSTANTS a, b

AdvertisedAB == <<a, b>>

\* The chunks differ only in their order: if the first seeder has only one,
\* let it be the one it is not asked for first.  What is held never changes.
LastHeld == holds[a].chunks # {0}
================================================================================
