------------------------------ MODULE Broadcast ------------------------------
(***************************************************************************)
(* What a server of frames promises its clients: one log of frames, of     *)
(* which each client is given those from the one after it came, one by     *)
(* one, whole and in order.  A client that is awake is given all there     *)
(* are, and stays awake once it has been given one.  One that has just     *)
(* come may have to wait to be woken, with a later frame.                  *)
(***************************************************************************)
EXTENDS Naturals, Sequences

CONSTANTS Callback, Frame

VARIABLES
    log,                \* the frames, the oldest first
    here,               \* the clients that are connected
    awake,              \* those of them that are sure of the frames there are
    since,              \* the first frame each may see
    given               \* the frames each has been given

vars == <<log, here, awake, since, given>>

Init ==
    /\ log = <<>>
    /\ here = {}
    /\ awake = {}
    /\ since = [c \in Callback |-> 0]
    /\ given = [c \in Callback |-> <<>>]

Publish(f) == log' = Append(log, f) /\ UNCHANGED <<here, awake, since, given>>

Join(c) ==
    /\ c \notin here
    /\ here' = here \cup {c}
    /\ awake' \in {awake, awake \cup {c}}
    /\ since' = [since EXCEPT ![c] = Len(log) + 1]
    /\ UNCHANGED <<log, given>>

Due(c) == since[c] + Len(given[c])

Wake(S) == awake' = awake \cup S /\ UNCHANGED <<log, here, since, given>>

Deliver(c) ==
    /\ c \in awake
    /\ Due(c) <= Len(log)
    /\ given' = [given EXCEPT ![c] = Append(@, log[Due(c)])]
    /\ UNCHANGED <<log, here, awake, since>>

\* There is nothing to give it, and never has been.
Doze(c) ==
    /\ Due(c) > Len(log)
    /\ given[c] = <<>>
    /\ awake' = awake \ {c}
    /\ UNCHANGED <<log, here, since, given>>

Leave(c) ==
    /\ c \in here
    /\ here' = here \ {c}
    /\ awake' = awake \ {c}
    /\ since' = [since EXCEPT ![c] = 0]
    /\ given' = [given EXCEPT ![c] = <<>>]
    /\ UNCHANGED log

Next ==
    \/ \E f \in Frame : Publish(f)
    \/ \E c \in Callback : Join(c) \/ Deliver(c) \/ Doze(c) \/ Leave(c)
    \/ \E S \in SUBSET here : Wake(S)

Spec == /\ Init
        /\ [][Next]_vars
        /\ \A c \in Callback : WF_vars(Deliver(c))
=============================================================================
