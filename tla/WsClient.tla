------------------------------ MODULE WsClient ------------------------------
(***************************************************************************)
(* The ws-client tasks (client_callback.h, ws-client.cpp, ws-client.h)     *)
(* together with the websocket service they use (WsApp).                   *)
(*                                                                         *)
(* A client is one callback object and three threads that touch it: the    *)
(* process() loop, the tsk_send() loop, and the service thread, which runs *)
(* its on_...() functions.  state_ has no lock.  tsk_exit() runs when both *)
(* loops have ended; it asks for a disconnect, waits until the client is   *)
(* no longer running() and deletes it.                                     *)
(*                                                                         *)
(* process() reads state_ in one step and acts in a later one, so that the *)
(* service thread may get in between.                                      *)
(***************************************************************************)
EXTENDS WsApp

CONSTANTS
    EmptyUrl,           \* the url of a client that is configured without one
    NoCall,             \* tsk_send() is not inside request_to_send()
    Sender,             \* clients whose buffer others put frames in
    MaxFrames           \* bound: frames that others put in a sender's buffer

ASSUME WsClientAssumption ==
    /\ EmptyUrl \notin GoodUrl
    /\ NoCall \notin Wsi \cup {Null}
    /\ Sender \subseteq Callback
    /\ MaxFrames \in Nat

VARIABLES
    state,              \* state_
    wsi_,               \* wsi_
    reconnect_,         \* reconnect_
    pc,                 \* where process(), and then tsk_exit(), is
    arg,                \* argument of tsk_exit's request_to_disconnect()
    sending,            \* argument of tsk_send's request_to_send(), or NoCall
    toPut,              \* frames still to be put in the buffer
    queued,             \* frames the reader of on_send() has not read
    notify              \* frames the reader of tsk_send() has not read

clientVars == <<state, wsi_, reconnect_, pc, arg>>
sendVars   == <<sending, toPut, queued, notify>>
vars       == <<appVars, clientVars, sendVars>>

State == {"idle", "connecting", "connected", "aborting", "closed"}

\* Places of process(): between two calls, in the branch of a state, in
\* request_to_connect(), and after JGB_ERR_END.
Branch  == {"idle", "aborting", "closed"}
Running == {"loop", "request", "ended"} \cup Branch
\* Places of tsk_exit().
Exiting == {"exit", "disconnect", "wait"}

TypeOK ==
    /\ AppTypeOK
    /\ state \in [Callback -> State]
    /\ wsi_ \in [Callback -> Wsi \cup {Null}]
    /\ reconnect_ \in [Callback -> BOOLEAN]
    /\ pc \in [Callback -> Running \cup Exiting \cup {"done"}]
    /\ arg \in [Callback -> Wsi \cup {Null}]
    /\ sending \in [Callback -> Wsi \cup {Null, NoCall}]
    /\ toPut \in [Callback -> 0..MaxFrames]
    /\ queued \in [Callback -> 0..MaxFrames]
    /\ notify \in [Callback -> 0..MaxFrames]

Init ==
    /\ AppInit
    /\ state = [c \in Callback |-> "idle"]
    /\ wsi_ = [c \in Callback |-> Null]
    /\ reconnect_ = [c \in Callback |-> TRUE]
    /\ pc = [c \in Callback |-> "loop"]
    /\ arg = [c \in Callback |-> Null]
    /\ sending = [c \in Callback |-> NoCall]
    /\ toPut = [c \in Callback |-> IF c \in Sender THEN MaxFrames ELSE 0]
    /\ queued = [c \in Callback |-> 0]
    /\ notify = [c \in Callback |-> 0]

ToState(c, s) == state' = [state EXCEPT ![c] = s]
Goto(c, p)    == pc' = [pc EXCEPT ![c] = p]

-----------------------------------------------------------------------------
(* process()                                                               *)

\* In the other two states process() only sleeps.  The code reads state_ for each
\* branch; one read stands for them, as the service thread takes state_ only to
\* states whose branch is further down.  There is one exception, under
\* SyncErrorCallback: the second on_error() may take closed back to aborting
\* between the last two of them.  The code then reaches jgb_assert(0) (:140) and,
\* should that return, has changed nothing: a round that does not happen here.
ProcessRead(c) ==
    /\ pc[c] = "loop"
    /\ state[c] \in Branch
    /\ Goto(c, state[c])
    /\ UNCHANGED <<appVars, state, wsi_, reconnect_, arg, sendVars>>

ProcessNoUrl(c) ==
    /\ pc[c] = "idle"
    /\ UrlOf[c] = EmptyUrl
    /\ Goto(c, "ended")
    /\ UNCHANGED <<appVars, state, wsi_, reconnect_, arg, sendVars>>

ProcessIdle(c) ==
    /\ pc[c] = "idle"
    /\ UrlOf[c] # EmptyUrl
    /\ ToState(c, "connecting")
    /\ Goto(c, "request")
    /\ UNCHANGED <<appVars, wsi_, reconnect_, arg, sendVars>>

ProcessRequest(c) ==
    /\ pc[c] = "request"
    /\ \/ /\ ConnectRefused
          /\ ToState(c, "idle")
       \/ /\ RequestToConnect(c)
          /\ UNCHANGED state
    /\ Goto(c, "loop")
    /\ UNCHANGED <<wsi_, reconnect_, arg, sendVars>>

ProcessAborting(c) ==
    /\ pc[c] = "aborting"
    /\ ToState(c, "closed")
    /\ Goto(c, "loop")
    /\ UNCHANGED <<appVars, wsi_, reconnect_, arg, sendVars>>

ProcessClosed(c) ==
    /\ pc[c] = "closed"
    /\ IF reconnect_[c]
         THEN ToState(c, "idle") /\ Goto(c, "loop")
         ELSE UNCHANGED state    /\ Goto(c, "ended")
    /\ UNCHANGED <<appVars, wsi_, reconnect_, arg, sendVars>>

-----------------------------------------------------------------------------
(* The buffer, tsk_send() and on_send().  Others write the buffer; on_send *)
(* and tsk_send have a reader each.                                        *)

Put(c) ==
    /\ toPut[c] > 0
    /\ pc[c] # "done"
    /\ toPut' = [toPut EXCEPT ![c] = @ - 1]
    /\ queued' = [queued EXCEPT ![c] = @ + 1]
    /\ notify' = [notify EXCEPT ![c] = @ + 1]
    /\ UNCHANGED <<appVars, clientVars, sending>>

\* A frame has arrived: wsi_ is read ...
TskSend(c) ==
    /\ pc[c] \in Running
    /\ sending[c] = NoCall
    /\ notify[c] > 0
    /\ sending' = [sending EXCEPT ![c] = wsi_[c]]
    /\ UNCHANGED <<appVars, clientVars, toPut, queued, notify>>

\* ... and used once the mutex has been got; then the frame is released.
TskSendRequest(c) ==
    /\ sending[c] # NoCall
    /\ RequestToSend(sending[c])
    /\ sending' = [sending EXCEPT ![c] = NoCall]
    /\ notify' = [notify EXCEPT ![c] = @ - 1]
    /\ UNCHANGED <<clientVars, toPut, queued>>

\* on_send() sends at most one frame.
OnSend(c) == queued' = [queued EXCEPT ![c] = IF @ > 0 THEN @ - 1 ELSE 0]

-----------------------------------------------------------------------------
(* tsk_exit()                                                              *)

\* The task is stopped: both loops end between two calls, then tsk_exit runs.
Stop(c) ==
    /\ pc[c] \in {"loop", "ended"}
    /\ sending[c] = NoCall
    /\ Goto(c, "exit")
    /\ UNCHANGED <<appVars, state, wsi_, reconnect_, arg, sendVars>>

\* Mutant: a client without a connection is declared closed.
DisconectForce(c) ==
    /\ pc[c] = "exit"
    /\ reconnect_' = [reconnect_ EXCEPT ![c] = FALSE]
    /\ IF state[c] = "connected"
         THEN arg' = [arg EXCEPT ![c] = wsi_[c]] /\ Goto(c, "disconnect") /\ UNCHANGED state
         ELSE UNCHANGED arg /\ Goto(c, "wait") /\ ToState(c, "closed")
    /\ UNCHANGED <<appVars, wsi_, sendVars>>

Disconect(c) ==
    /\ pc[c] = "exit"
    /\ reconnect_' = [reconnect_ EXCEPT ![c] = FALSE]
    /\ IF state[c] # "closed"
         THEN arg' = [arg EXCEPT ![c] = wsi_[c]] /\ Goto(c, "disconnect")
         ELSE UNCHANGED arg                      /\ Goto(c, "wait")
    /\ UNCHANGED <<appVars, state, wsi_, sendVars>>

DisconectRequest(c) ==
    /\ pc[c] = "disconnect"
    /\ RequestToDisconnect(arg[c])
    /\ Goto(c, "wait")
    /\ UNCHANGED <<state, wsi_, reconnect_, arg, sendVars>>

\* Mutant: only a connection counts.
IsRunningConnected(c) == state[c] \in {"connected", "aborting"}

IsRunning(c) == state[c] \notin {"closed", "idle"}

\* Mutant: tsk_exit() does not wait.
ExitDoneAtOnce(c) ==
    /\ pc[c] = "wait"
    /\ Goto(c, "done")
    /\ UNCHANGED <<appVars, state, wsi_, reconnect_, arg, sendVars>>

\* The wait is over, and the client is deleted.
ExitDone(c) ==
    /\ pc[c] = "wait"
    /\ ~IsRunning(c)
    /\ Goto(c, "done")
    /\ UNCHANGED <<appVars, state, wsi_, reconnect_, arg, sendVars>>

-----------------------------------------------------------------------------
(* The service thread, with the callbacks of the client.                   *)

OnError(c) == ToState(c, "aborting")
OnClose(c) == ToState(c, "closed")

ClientConnectFail(c) ==
    /\ \/ ConnectErrorCallback(c)
       \/ ConnectFail(c)
    /\ OnError(c)
    /\ UNCHANGED <<wsi_, reconnect_, pc, arg, sendVars>>

ClientConnectionError(w) ==
    /\ ConnectionError(w)
    /\ OnError(user[w])
    /\ UNCHANGED <<wsi_, reconnect_, pc, arg, sendVars>>

\* Mutant: wsi_ keeps the connection before.
ClientEstablishedOldWsi(w) ==
    /\ Established(w)
    /\ wsi_' = [wsi_ EXCEPT ![user[w]] = IF @ = Null THEN w ELSE @]
    /\ ToState(user[w], "connected")
    /\ UNCHANGED <<reconnect_, pc, arg, sendVars>>

ClientEstablished(w) ==
    /\ Established(w)
    /\ wsi_' = [wsi_ EXCEPT ![user[w]] = w]
    /\ ToState(user[w], "connected")
    /\ UNCHANGED <<reconnect_, pc, arg, sendVars>>

ClientWriteableDisconnect(w) ==
    /\ WriteableDisconnect(w)
    /\ UNCHANGED <<clientVars, sendVars>>

ClientWriteableSend(w) ==
    /\ WriteableSend(w, queued[user[w]] > 0)
    /\ OnSend(user[w])
    /\ UNCHANGED <<clientVars, sending, toPut, notify>>

\* on_recv() puts what has come in another buffer.
ClientOnRecv(w) ==
    /\ ClientReceive(w)
    /\ UNCHANGED <<clientVars, sendVars>>

ClientOnClose(w) ==
    /\ ClientClosed(w)
    /\ OnClose(user[w])
    /\ UNCHANGED <<wsi_, reconnect_, pc, arg, sendVars>>

\* Steps of the service thread that run no function of a client: those that
\* take it to the next lws_service(), and the return of that call.
Prepare ==
    /\ \/ TskInit
       \/ PrepareBegin
       \/ \E c \in Callback : ConnectDrop(c)
       \/ \E c \in Callback, w \in Wsi : ConnectStart(c, w)
       \/ PrepareEnd
       \/ CallbackReturn
    /\ UNCHANGED <<clientVars, sendVars>>

Return == ServiceReturn /\ UNCHANGED <<clientVars, sendVars>>

AllDone == \A c \in Callback : pc[c] = "done"

\* stop() in main.cpp stops the service after every client task.
ServiceExit ==
    /\ AllDone
    /\ TskExit
    /\ UNCHANGED <<clientVars, sendVars>>

ProcessStep(c) ==
    \/ ProcessRead(c)
    \/ ProcessNoUrl(c)
    \/ ProcessIdle(c)
    \/ ProcessRequest(c)
    \/ ProcessAborting(c)
    \/ ProcessClosed(c)

SendStep(c) == TskSend(c) \/ TskSendRequest(c)

ExitStep(c) == Disconect(c) \/ DisconectRequest(c) \/ ExitDone(c)

ClientStep(c) ==
    \/ ProcessStep(c)
    \/ Put(c)
    \/ SendStep(c)
    \/ Stop(c)
    \/ ExitStep(c)

ServiceEvent(w) ==
    \/ ClientConnectionError(w)
    \/ ClientEstablished(w)
    \/ ClientWriteableDisconnect(w)
    \/ ClientWriteableSend(w)
    \/ ClientOnRecv(w)
    \/ ClientOnClose(w)

\* The program has ended.
Finished == AllDone /\ service \in {"failed", "done"} /\ UNCHANGED vars

Next ==
    \/ \E c \in Callback : ClientStep(c) \/ ClientConnectFail(c)
    \/ \E w \in Wsi : ServiceEvent(w)
    \/ Prepare
    \/ Return
    \/ ServiceExit
    \/ Finished

Spec == Init /\ [][Next]_vars

(***************************************************************************)
(* Fairness.  Every thread keeps running.  A step that takes the mutex     *)
(* gets it in the end: the service thread leaves it free all through       *)
(* lws_service(), which returns once it has served an event or has been    *)
(* cancelled.  Every round of lws_service() serves each connection that is *)
(* ready, so a writeable event that keeps being due is delivered; an       *)
(* attempt to connect ends, by libwebsockets' own timeout if need be.      *)
(* Nothing obliges the peer to close, others to put frames in the buffer,  *)
(* or anybody to stop a task.                                              *)
(***************************************************************************)
Resolve(w)   == ClientConnectionError(w) \/ ClientEstablished(w)
Writeable(w) == ClientWriteableDisconnect(w) \/ ClientWriteableSend(w)

ServiceThread ==
    \/ Prepare
    \/ \E c \in Callback : ClientConnectFail(c)
    \/ \E w \in Wsi : phase[w] = "closing" /\ ClientOnClose(w)
    \/ wake /\ Return

Fairness ==
    /\ WF_vars(ServiceThread)
    /\ \A w \in Wsi : SF_vars(Resolve(w)) /\ SF_vars(Writeable(w))
    /\ \A c \in Callback : SF_vars(ProcessStep(c) \/ ExitStep(c)) /\ SF_vars(SendStep(c))

FairSpec == Spec /\ Fairness

-----------------------------------------------------------------------------
(* Safety.                                                                 *)

Has(c, w) == user[w] = c /\ phase[w] \in Held

Trying(c) ==
    \/ pc[c] = "request"
    \/ c \in to_connect_set
    \/ \E w \in Wsi : user[w] = c /\ phase[w] = "connecting"

\* A client whose url parses and is used by no other client.
Proper(c) == UrlOf[c] \in GoodUrl /\ \A d \in Callback \ {c} : UrlOf[d] # UrlOf[c]

\* A client has at most one attempt in hand: the request it is making or has
\* made, or one connection.  process(), the request set and libwebsockets each
\* keep a part of this (client_callback.h:82-116, wsapp.cpp:366-468).
SingleAttempt ==
    \A c \in Callback :
       /\ pc[c] = "request" => c \notin to_connect_set
       /\ pc[c] = "request" \/ c \in to_connect_set => \A w \in Wsi : ~Has(c, w)
       /\ \A w1, w2 \in Wsi : Has(c, w1) /\ Has(c, w2) => w1 = w2

\* state_ agrees with what libwebsockets thinks of the connection whenever one
\* of its events can reach the client, whatever process() is doing meanwhile;
\* in particular on_connected() finds the state it asserts
\* (client_callback.h:56), and send() writes to this connection.
ConnectionTracksState ==
    \A w \in Wsi :
       /\ phase[w] = "connecting" => state[user[w]] = "connecting"
       /\ phase[w] \in {"established", "closing"} =>
             state[user[w]] = "connected" /\ wsi_[user[w]] = w

\* Once tsk_exit() has deleted a client, no request and no connection that
\* libwebsockets will still report on points to it (ws-client.cpp:76-84).
NoDanglingUser ==
    \A c \in Callback : pc[c] = "done" =>
       /\ c \notin to_connect_set
       /\ \A w \in Wsi : ~Has(c, w)

\* live_set, by which to_ack() decides whether a connection may be touched,
\* holds the connections that were established and are not yet freed
\* (wsapp.cpp:98-110, 187-199, 326-340).
LiveSetExact ==
    \A w \in Wsi :
       /\ phase[w] \in {"established", "closing"} => w \in live_set
       /\ w \in live_set => phase[w] \in {"established", "closing", "closed"}

\* A client that waits for a connection of its own has one in the making: the
\* request it is about to make, one in the set, or libwebsockets' attempt
\* (client_callback.h:90-112, wsapp.cpp:44-65, 366-468).
ConnectingTried ==
    \A c \in Callback : Proper(c) /\ state[c] = "connecting" => Trying(c)

\* A frame in the buffer of a running client that is connected has not been
\* forgotten: its event is due or asked for, or tsk_send() is going to ask, though
\* a call it has in hand may be about an earlier connection or none
\* (ws-client.cpp:48-70, ws-client.h:14-28, wsapp.cpp:132-173).
NoFrameForgotten ==
    \A w \in Wsi : LET c == user[w] IN
       phase[w] = "established" /\ pc[c] \in Running /\ queued[c] > 0 =>
          \/ w \in writable \cup to_send_set
          \/ sending[c] = w
          \/ notify[c] > IF sending[c] = NoCall THEN 0 ELSE 1

\* The moves of state_ that the branches of process() and the callbacks make.
\* Two threads write state_ without a lock; no write of one is lost under a
\* stale decision of the other (client_callback.h:48-143).
Successors ==
    [idle       |-> {"connecting"},
     connecting |-> {"connected", "aborting", "idle"},
     connected  |-> {"closed"},
     aborting   |-> {"closed"},
     closed     |-> {"idle"}]

LegalMoves ==
    [][\A c \in Callback : state'[c] # state[c] => state'[c] \in Successors[state[c]]]_vars

\* The service disconnects a connection only when its own client has been told
\* to disconnect (wsapp.cpp:153, client_callback.h:145-152).
DisconnectOnOwnRequest ==
    [][\A w \in Wsi : phase[w] # "closing" /\ phase'[w] = "closing" => ~reconnect_[user[w]]]_vars

-----------------------------------------------------------------------------
(* The inductive invariant behind the safety properties, for a libwebsockets *)
(* that does not report a failure twice.                                     *)

NoConnection(c) == \A w \in Wsi : ~Has(c, w)

\* Every frame is still to be put, queued or sent; tsk_send holds one it reads.
FramesBounded ==
    \A c \in Callback :
       /\ toPut[c] + queued[c] <= MaxFrames
       /\ toPut[c] + notify[c] <= MaxFrames
       /\ sending[c] # NoCall => notify[c] > 0

\* A branch of process() still finds the state it was chosen for.
BranchFresh == \A c \in Callback : pc[c] \in Branch => state[c] = pc[c]

\* A client whose process() has ended for good, or that is deleted, is down.
EndedDown ==
    \A c \in Callback : pc[c] \in {"ended", "done"} => state[c] \in {"idle", "closed"}

Requesting ==
    \A c \in Callback : pc[c] = "request" =>
       /\ state[c] = "connecting"
       /\ c \notin to_connect_set
       /\ NoConnection(c)

Requested ==
    \A c \in to_connect_set : state[c] = "connecting" /\ NoConnection(c)

UserKnown == \A w \in Wsi : phase[w] # "free" => user[w] \in Callback

OneConnection ==
    \A w1, w2 \in Wsi :
       phase[w1] \in Held /\ phase[w2] \in Held /\ user[w1] = user[w2] => w1 = w2

IInv ==
    /\ BranchFresh
    /\ EndedDown
    /\ Requesting
    /\ Requested
    /\ UserKnown
    /\ OneConnection
    /\ ConnectionTracksState

-----------------------------------------------------------------------------
(* Liveness, under FairSpec.                                               *)

Up(c) == \E w \in Wsi : user[w] = c /\ phase[w] = "established"

\* A proper client does not wait for its connection for ever, whatever the other
\* clients do (client_callback.h:107-112).
ConnectResolves ==
    \A c \in Callback :
       Proper(c) => (state[c] = "connecting" ~> state[c] # "connecting")

\* A task that is told to stop while its connection is up does disconnect and
\* does end.
ExitFromConnected ==
    \A c \in Callback :
       pc[c] = "exit" /\ state[c] = "connected" ~> pc[c] = "done"

\* Every task that is told to stop ends.
ExitCompletes == \A c \in Callback : pc[c] = "exit" ~> pc[c] = "done"

\* Frames put in the buffer before, during or after the connection attempt are
\* all sent, as long as the connection stays up and the task is not stopped: no
\* wake-up is lost between tsk_send() reading wsi_, the service thread setting
\* it, and one frame per event (ws-client.cpp:48-70, wsapp.cpp:132-173).
FramesDrain ==
    \A c \in Callback :
       queued[c] > 0 /\ Up(c) ~> queued[c] = 0 \/ ~Up(c) \/ pc[c] \notin Running

-----------------------------------------------------------------------------
(* The link of ClientLink, as the requests and libwebsockets have it.      *)

Linked(c) == \E w \in Wsi : user[w] = c /\ phase[w] \in {"established", "closing"}

Link(c) ==
    IF pc[c] = "done" THEN "gone"
    ELSE IF Linked(c) THEN "up"
    ELSE IF Trying(c) THEN "trying"
    ELSE "down"

Links == [c \in Callback |-> Link(c)]

CL == INSTANCE ClientLink WITH link <- Links

\* The client, with its threads and the service, keeps what ClientLink promises:
\* it goes through "trying" each time, never has a second link, and is deleted
\* with its link down (client_callback.h:82-157, ws-client.cpp:72-85).
LinkSpec == CL!Spec
=============================================================================
