----------------------------- MODULE ClientLink -----------------------------
(***************************************************************************)
(* What a websocket client promises whoever configured it: one link, which *)
(* is down, being tried, or up; a try that always comes to an end; and a   *)
(* client that is deleted only with its link down, and then for good.      *)
(***************************************************************************)
CONSTANT Callback

VARIABLE link

Init == link = [c \in Callback |-> "down"]

Move(c, from, to) ==
    /\ link[c] = from
    /\ link' = [link EXCEPT ![c] = to]

Try(c)     == Move(c, "down", "trying")
Connect(c) == Move(c, "trying", "up")
Fail(c)    == Move(c, "trying", "down")
Drop(c)    == Move(c, "up", "down")
Delete(c)  == Move(c, "down", "gone")

Next == \E c \in Callback :
           Try(c) \/ Connect(c) \/ Fail(c) \/ Drop(c) \/ Delete(c)

Spec == /\ Init
        /\ [][Next]_link
        /\ \A c \in Callback : WF_link(Connect(c) \/ Fail(c))
=============================================================================
