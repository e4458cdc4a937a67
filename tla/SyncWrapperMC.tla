--------------------------- MODULE SyncWrapperMC ---------------------------
(***************************************************************************)
(* The synchronous wrapper on small instances.                             *)
(***************************************************************************)
EXTENDS SyncWrapper, TLC

CONSTANTS c1, c2, e1, e2, d0, depth, video, f1, f2

Req(c, d, s, F) == [client : {c}, ring : {<<d, s>>}, fmt : F]

\* One client that alternates between two formats of one ring
OneClientRequests == Req(c1, d0, depth, {f1, f2})

\* Two clients, each with its own ring of one device
OwnRequests == Req(c1, d0, depth, {f1}) \cup Req(c2, d0, video, {f1})

\* Two clients of one ring who do not agree on its format
RacesRequests == Req(c1, d0, depth, {f1, f2}) \cup Req(c2, d0, depth, {f1})

\* Event threads are interchangeable (used in safety runs only).
EventThreadSymmetry == Permutations(EventThreads)
=============================================================================
