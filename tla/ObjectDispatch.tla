--------------------------- MODULE ObjectDispatch ---------------------------
(***************************************************************************)
(* The "ws-sync" protocol of the server end (protocol_dispatch_callback.h, *)
(* object_callback.h): a request names an object; the callbacks installed  *)
(* for the object are run on it, on the service thread, and the response   *)
(* is queued with the connection until its writeable event.                *)
(*                                                                         *)
(* Many clients come and send requests, each in one fragment.  A request   *)
(* is its id and its object; what an object's callback does with it is     *)
(* reduced to the status it sets (0: none) and whether it ends the chain.  *)
(*                                                                         *)
(* A connection_context is a member of Callback.  Nothing sets its         *)
(* factory_, so that the end of a connection, in remove(), is the end of   *)
(* the program: crashed.                                                   *)
(***************************************************************************)
EXTENDS WsApp, Sequences, FiniteSetsExt

CONSTANTS
    Object,             \* names of objects in requests
    Handler,            \* object callbacks
    Sets,               \* the status a handler sets, or 0
    Stops,              \* the handlers whose process() returns non-zero
    Handlers,           \* the handlers installed for each object
    Installs,           \* whether init() installs a factory: the cases to look at
    MaxRequests         \* bound: requests of one connection

ASSUME ObjectDispatchAssumption ==
    /\ Sets \in [Handler -> Nat]
    /\ Stops \subseteq Handler
    /\ Handlers \in [Object -> SUBSET Handler]
    /\ \A o \in Object : IsFiniteSet(Handlers[o])
    /\ Installs \subseteq BOOLEAN
    /\ MaxRequests \in Nat

VARIABLES
    installed,          \* has init() installed a factory for the protocol?
    callbacks_,         \* the handlers of each object, in the order of the list
    crashed,            \* has the program crashed?
    asked,              \* objects of the requests each connection's peer has sent
    received,           \* how many of them have been received
    resps_,             \* responses queued with each connection_context
    got                 \* responses its peer has got

peerVars     == <<asked, received>>
dispatchVars == <<installed, callbacks_, crashed>>
vars         == <<appVars, dispatchVars, peerVars, resps_, got>>

\* Clients number their requests from 1.
Response == [id : 1..MaxRequests, status : Nat]

\* install() appends to the list and sorts it by priority, which nobody
\* assigns: any order may come out.
Orders(s) == {q \in [1..Cardinality(s) -> s] : s = {q[i] : i \in DOMAIN q}}

Init ==
    /\ AppInit
    /\ installed \in Installs
    /\ callbacks_ \in {f \in [Object -> UNION {Orders(Handlers[o]) : o \in Object}] :
                          \A o \in Object : f[o] \in Orders(Handlers[o])}
    /\ crashed = FALSE
    /\ asked = [c \in Callback |-> <<>>]
    /\ received = [c \in Callback |-> 0]
    /\ resps_ = [c \in Callback |-> <<>>]
    /\ got = [c \in Callback |-> <<>>]

-----------------------------------------------------------------------------
(* Connections.                                                            *)

Unused(c) == c # active /\ \A w \in Wsi : user[w] # c

Create(w, c) ==
    /\ installed
    /\ Unused(c)
    /\ ServerEstablished(w, c)
    /\ asked' = [asked EXCEPT ![c] = <<>>]
    /\ received' = [received EXCEPT ![c] = 0]
    /\ resps_' = [resps_ EXCEPT ![c] = <<>>]
    /\ got' = [got EXCEPT ![c] = <<>>]
    /\ UNCHANGED dispatchVars

Refuse(w) ==
    /\ ~installed
    /\ ServerRefused(w)
    /\ UNCHANGED <<dispatchVars, peerVars, resps_, got>>

\* remove() goes through the factory_ of a callback that is null itself or has
\* none.
Close(w) ==
    /\ ServerClosed(w)
    /\ crashed' = TRUE
    /\ UNCHANGED <<installed, callbacks_, peerVars, resps_, got>>

-----------------------------------------------------------------------------
(* Requests and responses.                                                 *)

Ask(w, o) ==
    /\ phase[w] = "established"
    /\ Len(asked[user[w]]) < MaxRequests
    /\ asked' = [asked EXCEPT ![user[w]] = Append(@, o)]
    /\ UNCHANGED <<appVars, dispatchVars, received, resps_, got>>

\* How many of the handlers of the list are run: up to the first that stops.
Ran(list) ==
    LET stops == {i \in DOMAIN list : list[i] \in Stops}
    IN  IF stops = {} THEN Len(list) ELSE Min(stops)

\* The status the handlers leave.
Status(list) ==
    LET sets == {i \in 1..Ran(list) : Sets[list[i]] # 0}
    IN  IF sets = {} THEN 0 ELSE Sets[list[Max(sets)]]

\* Mutant: the id of the request is not taken over.
AnswerNoId(c, k) == [id |-> 0, status |-> Status(callbacks_[asked[c][k]])]

\* The response to request k of a connection.
Answer(c, k) == [id |-> k, status |-> Status(callbacks_[asked[c][k]])]

\* process(): run, queue the response, and ask for a writeable event.
Process(c) ==
    /\ resps_' = [resps_ EXCEPT ![c] = Append(@, Answer(c, received[c] + 1))]
    /\ \E w \in Wsi : user[w] = c /\ RequestToSend(w)

Receive(w) ==
    /\ InService
    /\ NoneClosing
    /\ phase[w] = "established"
    /\ received[user[w]] < Len(asked[user[w]])
    /\ received' = [received EXCEPT ![user[w]] = @ + 1]
    /\ Process(user[w])
    /\ UNCHANGED <<dispatchVars, asked, got>>

\* Mutant: the queue is taken from the wrong end.
OnSendLast(c) ==
    /\ got' = [got EXCEPT ![c] = Append(@, resps_[c][Len(resps_[c])])]
    /\ resps_' = [resps_ EXCEPT ![c] = SubSeq(@, 1, Len(@) - 1)]

\* on_send() sends the first response of the queue.
OnSend(c) ==
    /\ got' = [got EXCEPT ![c] = Append(@, Head(resps_[c]))]
    /\ resps_' = [resps_ EXCEPT ![c] = Tail(@)]

OnWriteable(w) ==
    /\ phase[w] = "established"
    /\ resps_[user[w]] # <<>>
    /\ ServerWriteable(w, TRUE)
    /\ OnSend(user[w])
    /\ UNCHANGED <<dispatchVars, peerVars>>

OnWriteableIdle(w) ==
    /\ phase[w] = "established"
    /\ resps_[user[w]] = <<>>
    /\ ServerWriteable(w, FALSE)
    /\ UNCHANGED <<dispatchVars, peerVars, resps_, got>>

Writeable(w) == OnWriteable(w) \/ OnWriteableIdle(w)

-----------------------------------------------------------------------------

\* The steps of the service thread that do not concern the dispatch.
Prepare ==
    /\ TskInit \/ PrepareBegin \/ PrepareEnd \/ CallbackReturn
    /\ UNCHANGED <<dispatchVars, peerVars, resps_, got>>

Return ==
    /\ ServiceReturn
    /\ UNCHANGED <<dispatchVars, peerVars, resps_, got>>

Step ==
    \/ \E w \in Wsi, c \in Callback : Create(w, c)
    \/ \E w \in Wsi, o \in Object : Ask(w, o)
    \/ \E w \in Wsi : Refuse(w) \/ Close(w) \/ Receive(w) \/ Writeable(w)
    \/ Prepare
    \/ Return

Ended == (crashed \/ service = "failed") /\ UNCHANGED vars

Next == (~crashed /\ Step) \/ Ended

Spec == Init /\ [][Next]_vars

(***************************************************************************)
(* Fairness: the service thread keeps running, lws_service() serves every  *)
(* connection that is ready, for reading or writing, and returns when it   *)
(* is cancelled or has served an event.  Clients come, ask and leave as    *)
(* they like.                                                              *)
(***************************************************************************)
Fairness ==
    /\ WF_vars(~crashed /\ Prepare)
    /\ SF_vars(~crashed /\ wake /\ Return)
    /\ \A w \in Wsi : SF_vars(~crashed /\ Receive(w)) /\ SF_vars(~crashed /\ Writeable(w))

FairSpec == Spec /\ Fairness

-----------------------------------------------------------------------------
(* Properties.                                                             *)

TypeOK ==
    /\ AppTypeOK
    /\ installed \in BOOLEAN
    /\ callbacks_ \in [Object -> Seq(Handler)]
    /\ crashed \in BOOLEAN
    /\ asked \in [Callback -> Seq(Object)]
    /\ \A c \in Callback : Len(asked[c]) <= MaxRequests
    /\ received \in [Callback -> 0..MaxRequests]
    /\ resps_ \in [Callback -> Seq(Response)]
    /\ got \in [Callback -> Seq(Response)]

\* The responses a client gets answer its requests, in their order, each once
\* and with its id, and those still queued are the next ones
\* (object_callback.h:24-34, 72-94).
AnswersInOrder ==
    \A c \in Callback :
       /\ received[c] <= Len(asked[c])
       /\ Len(got[c]) + Len(resps_[c]) = received[c]
       /\ \A k \in 1..received[c] :
             (got[c] \o resps_[c])[k] = [id |-> k, status |-> Status(callbacks_[asked[c][k]])]

\* A response that is queued on a connection has its event, or a request for it:
\* neither an event that sends one of several responses nor a request that finds
\* another one waiting loses it (object_callback.h:72-94, wsapp.cpp:226-231).
ResponseDue ==
    \A w \in Wsi :
       phase[w] = "established" /\ resps_[user[w]] # <<>> => w \in writable \cup to_send_set

\* The end of a connection leaves the program running.
ServerSurvives == ~crashed

-----------------------------------------------------------------------------
(* The conversations of the clients, as they see them.                     *)

Conv == INSTANCE Conversation WITH
            over <- crashed,
            verdict <- [o \in Object |-> Status(callbacks_[o])],
            answered <- got

\* The queue, the requests to send and the events are not seen by a client: it is
\* in a Conversation, in which every request is answered as long as the program
\* runs.  Several requests may share a request to send and a writeable event, and
\* the requests to send are made inside lws_service() (object_callback.h:24-94).
ConversationSpec == Conv!Spec
=============================================================================
