---------------------------- MODULE Conversation ----------------------------
(***************************************************************************)
(* What a server of requests promises its clients: as long as it is there, *)
(* each client is given the answers to its requests one by one, in the     *)
(* order it has asked, each with the number of its request and the verdict *)
(* on the object it names, and no request is left without its answer.      *)
(***************************************************************************)
EXTENDS Naturals, Sequences

CONSTANTS Callback, Object

VARIABLES
    over,               \* has the server gone?
    verdict,            \* the status that requests on each object end in
    asked,              \* what each client has asked
    answered            \* what it has been answered

vars == <<over, verdict, asked, answered>>

Init ==
    /\ over = FALSE
    /\ verdict \in [Object -> Nat]
    /\ asked = [c \in Callback |-> <<>>]
    /\ answered = [c \in Callback |-> <<>>]

Ask(c, o) ==
    /\ ~over
    /\ asked' = [asked EXCEPT ![c] = Append(@, o)]
    /\ UNCHANGED <<over, verdict, answered>>

Due(c) == Len(answered[c]) + 1

Answer(c) ==
    /\ ~over
    /\ Due(c) <= Len(asked[c])
    /\ answered' = [answered EXCEPT ![c] =
                      Append(@, [id |-> Due(c), status |-> verdict[asked[c][Due(c)]]])]
    /\ UNCHANGED <<over, verdict, asked>>

End == ~over /\ over' = TRUE /\ UNCHANGED <<verdict, asked, answered>>

Next ==
    \/ \E c \in Callback, o \in Object : Ask(c, o)
    \/ \E c \in Callback : Answer(c)
    \/ End

Spec == /\ Init
        /\ [][Next]_vars
        /\ \A c \in Callback : WF_vars(Answer(c))
=============================================================================
