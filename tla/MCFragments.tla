---------------------------- MODULE MCFragments ----------------------------
(* Instances of Fragments for TLC.                                          *)
EXTENDS Fragments

\* No byte of a message: messages are numbered from 1.
NoByte == <<0, 0>>
=============================================================================
