---------------------------- MODULE MCSendBuffer ----------------------------
(* Instances of SendBuffer for TLC.                                         *)
EXTENDS SendBuffer, TLC

CONSTANT url

\* Callbacks of the server end make no requests to connect.
NoRequests == [c \in Callback |-> url]

Symmetric == Permutations(Callback) \cup Permutations(Wsi)
=============================================================================
