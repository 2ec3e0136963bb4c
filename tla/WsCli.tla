-------------------------------- MODULE WsCli --------------------------------
(***************************************************************************)
(* wscli (client/main.cpp): main() builds a request out of its options,    *)
(* starts the service and one ws-client task, and then puts the request in *)
(* the task's buffer, waits for a response in the other buffer for a       *)
(* limited time, and goes on or stops.                                     *)
(*                                                                         *)
(* The module composes the option tree, main()'s loop and the client with  *)
(* its service (WsClient).  Requests are numbered in the order they are    *)
(* put; main() cannot tell them apart, nor their responses.  The server    *)
(* answers the requests of a connection in order, each once, which is what *)
(* ObjectDispatch shows of it.                                             *)
(***************************************************************************)
EXTENDS WsClient, OptionTree

CONSTANT
    cli                 \* the ws-client task's callback

ASSUME WsCliAssumption ==
    /\ Callback = {cli}
    /\ Sender = {cli}

VARIABLES
    main,               \* where main() is
    loop,               \* was -l among the options?
    exit_flag,          \* has a SIGINT been caught?
    inflight,           \* requests sent, and not answered, on the connection
    inbox,              \* responses in the buffer that main() reads
    printed             \* what main() prints: in which round, which response

cliVars == <<main, loop, exit_flag, inflight, inbox, printed>>
allVars == <<vars, treeVars, cliVars>>

\* Requests put so far; the round main() is in.
Round == MaxFrames - toPut[cli]

CliInit ==
    /\ Init
    /\ TreeInit
    /\ main = "options"
    /\ loop = FALSE
    /\ exit_flag = FALSE
    /\ inflight = <<>>
    /\ inbox = <<>>
    /\ printed = <<>>

-----------------------------------------------------------------------------
(* main()                                                                  *)

ReadOption ==
    /\ main = "options"
    /\ Option
    /\ UNCHANGED <<vars, cliVars>>

\* An option that uses a node that is freed: what follows is anything.
ReadWild ==
    /\ main = "options"
    /\ UsesFreed
    /\ main' = "wild"
    /\ UNCHANGED <<vars, treeVars, loop, exit_flag, inflight, inbox, printed>>

\* The text of the request is written and the apps are started.  The tree is not
\* looked at again.
Start ==
    /\ main = "options"
    /\ main' = "loop"
    /\ loop' \in BOOLEAN
    /\ nodes' = SubSeq(nodes, 1, 1)
    /\ jcur' = 1
    /\ parent' = <<>>
    /\ key' = NoName
    /\ UNCHANGED <<vars, exit_flag, inflight, inbox, printed>>

PutRequest ==
    /\ main = "loop"
    /\ ~exit_flag
    /\ Put(cli)
    /\ main' = "reading"
    /\ UNCHANGED <<treeVars, loop, exit_flag, inflight, inbox, printed>>

NextRound == main' = IF loop THEN "loop" ELSE "stopping"

\* Mutant: the frame is not released.
PrintResponseKeep ==
    /\ main = "reading"
    /\ inbox # <<>>
    /\ printed' = Append(printed, [round |-> Round, response |-> Head(inbox)])
    /\ NextRound
    /\ UNCHANGED <<vars, treeVars, loop, exit_flag, inflight, inbox>>

PrintResponse ==
    /\ main = "reading"
    /\ inbox # <<>>
    /\ printed' = Append(printed, [round |-> Round, response |-> Head(inbox)])
    /\ inbox' = Tail(inbox)
    /\ NextRound
    /\ UNCHANGED <<vars, treeVars, loop, exit_flag, inflight>>

\* Mutant: the answer is waited for as long as it takes.
TimeoutNot == FALSE

Timeout ==
    /\ main = "reading"
    /\ inbox = <<>>
    /\ NextRound
    /\ UNCHANGED <<vars, treeVars, loop, exit_flag, inflight, inbox, printed>>

Leave ==
    /\ main = "loop"
    /\ exit_flag
    /\ main' = "stopping"
    /\ UNCHANGED <<vars, treeVars, loop, exit_flag, inflight, inbox, printed>>

\* stop() ends the client's task first, and then the service.
StopClient ==
    /\ main = "stopping"
    /\ Stop(cli)
    /\ UNCHANGED <<treeVars, cliVars>>

StopService ==
    /\ main = "stopping"
    /\ ServiceExit
    /\ UNCHANGED <<treeVars, cliVars>>

\* handler().  That the eleventh signal ends the process at once is left out.
Interrupt ==
    /\ main \notin {"wild", "stopping"}
    /\ ~exit_flag
    /\ exit_flag' = TRUE
    /\ UNCHANGED <<vars, treeVars, main, loop, inflight, inbox, printed>>

-----------------------------------------------------------------------------
(* The threads of the client and the service, and the server.              *)

\* The frames in the buffer are the requests put last.
NextToSend == Round - queued[cli] + 1

\* Mutant: on_send() sends whether there is a frame or not.
SendRequestAnyway(w) ==
    /\ ClientWriteableSend(w)
    /\ inflight' = Append(inflight, NextToSend)
    /\ UNCHANGED <<treeVars, main, loop, exit_flag, inbox, printed>>

SendRequest(w) ==
    /\ ClientWriteableSend(w)
    /\ inflight' = IF queued[cli] > 0 THEN Append(inflight, NextToSend) ELSE inflight
    /\ UNCHANGED <<treeVars, main, loop, exit_flag, inbox, printed>>

ReceiveResponse(w) ==
    /\ inflight # <<>>
    /\ ClientOnRecv(w)
    /\ inbox' = Append(inbox, Head(inflight))
    /\ inflight' = Tail(inflight)
    /\ UNCHANGED <<treeVars, main, loop, exit_flag, printed>>

\* What is under way is lost with the connection.
LoseConnection(w) ==
    /\ ClientOnClose(w)
    /\ inflight' = <<>>
    /\ UNCHANGED <<treeVars, main, loop, exit_flag, inbox, printed>>

OtherSteps ==
    /\ \/ ProcessStep(cli)
       \/ SendStep(cli)
       \/ ExitStep(cli)
       \/ ClientConnectFail(cli)
       \/ \E w \in Wsi : \/ ClientConnectionError(w)
                         \/ ClientEstablished(w)
                         \/ ClientWriteableDisconnect(w)
       \/ Prepare
       \/ Return
    /\ UNCHANGED <<treeVars, cliVars>>

Threads ==
    \/ \E w \in Wsi : SendRequest(w) \/ ReceiveResponse(w) \/ LoseConnection(w)
    \/ OtherSteps

-----------------------------------------------------------------------------

MainStep == PutRequest \/ PrintResponse \/ Timeout \/ Leave \/ StopClient

Alive == main \notin {"options", "wild"}

CliFinished ==
    /\ main = "wild" \/ Finished
    /\ UNCHANGED allVars

CliNext ==
    \/ ReadOption
    \/ ReadWild
    \/ Start
    \/ MainStep
    \/ Interrupt
    \/ Alive /\ (StopService \/ Threads)
    \/ CliFinished

CliSpec == CliInit /\ [][CliNext]_allVars

(***************************************************************************)
(* Fairness: that of the client and the service, and main() keeps running  *)
(* and comes to the end of its options.  A server need not answer.  Of a   *)
(* main() that has used freed memory nothing is said.                      *)
(***************************************************************************)
CliFairness ==
    /\ Fairness
    /\ WF_allVars(Start)
    /\ WF_allVars(PutRequest \/ PrintResponse \/ Timeout \/ Leave)

CliFairSpec == CliSpec /\ CliFairness

-----------------------------------------------------------------------------
(* Properties.                                                             *)

CliTypeOK ==
    /\ TreeTypeOK
    /\ main \in {"options", "wild", "loop", "reading", "stopping"}
    /\ loop \in BOOLEAN
    /\ exit_flag \in BOOLEAN
    /\ inflight \in Seq(1..MaxFrames)
    /\ inbox \in Seq(1..MaxFrames)
    /\ printed \in Seq([round : 1..MaxFrames, response : 1..MaxFrames])

\* A response that is printed in a round answers a request of that round or an
\* earlier one, none twice, and is late by no more rounds than have had no
\* answer: as long as none has timed out it is the right one
\* (main.cpp:353-376, ws-client.h:14-36).
AnswersOwnRound ==
    \A k \in DOMAIN printed :
       /\ printed[k].response \in k..printed[k].round
       /\ \A j \in 1..k - 1 : /\ printed[j].response < printed[k].response
                              /\ printed[j].round < printed[k].round

\* SIGINT ends the loop, whatever the server does, and without -l so does the
\* first round.
LoopEnds == Alive /\ (exit_flag \/ ~loop) ~> main = "stopping"
=============================================================================
