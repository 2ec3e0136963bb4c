----------------------------- MODULE MCWsClient -----------------------------
(* Instances of WsClient for TLC: which url each client is configured with. *)
EXTENDS WsClient, TLC

CONSTANTS c1, c2, c3, url1, url2, bad

\* Two clients with urls of their own.
OwnUrls == c1 :> url1 @@ c2 :> url2

\* The same, and a client that is configured without one.
OwnOrNoUrl == OwnUrls @@ c3 :> EmptyUrl

\* A client whose url parses, and one whose url does not.
MixedUrls == c1 :> url1 @@ c2 :> bad

OneUrl == c1 :> url1

Addresses == Permutations(Wsi)
=============================================================================
