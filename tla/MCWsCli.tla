------------------------------- MODULE MCWsCli -------------------------------
(* An instance of WsCli for TLC.                                            *)
EXTENDS WsCli, TLC

CONSTANT url1

OneUrl == cli :> url1
=============================================================================
