-------------------------- MODULE MCObjectDispatch --------------------------
(* Instances of ObjectDispatch for TLC.                                     *)
EXTENDS ObjectDispatch, TLC

CONSTANTS url, hello, unknown, greet, check

\* Callbacks of the server end make no requests to connect.
NoRequests == [c \in Callback |-> url]

\* An object with two handlers, and a name nobody has installed.
Chains == hello :> {greet, check} @@ unknown :> {}

\* check only looks at the request, and may end the chain.
Statuses == greet :> 200 @@ check :> 0
=============================================================================
