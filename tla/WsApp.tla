------------------------------- MODULE WsApp -------------------------------
(***************************************************************************)
(* The websocket service of wsapp.cpp: the request sets that other threads *)
(* fill under the mutex, and the service thread, which alternates          *)
(* prepare() -- under the mutex -- and lws_service(), in which             *)
(* libwebsockets calls callback_minimal(), for connections to servers and  *)
(* for connections from clients.                                           *)
(*                                                                         *)
(* The module has no next-state relation: it is composed with the          *)
(* connection callbacks it serves, which add the effect of their virtual   *)
(* on_...() functions to the actions below (WsClient, SendBuffer).  A      *)
(* critical section of a requesting thread is one step, taken while the    *)
(* service thread is outside prepare(); prepare() takes several steps.     *)
(*                                                                         *)
(* A struct lws* is a member of Wsi.  It is an address: once libwebsockets *)
(* has freed the connection, the next connection may get the same one.     *)
(***************************************************************************)
EXTENDS Naturals, FiniteSets

CONSTANTS
    Callback,           \* connection callback objects
    Wsi,                \* addresses of struct lws
    Null,               \* nullptr
    Url,                \* connection urls
    GoodUrl,            \* the urls that to_connect() can parse
    UrlOf,              \* the url of each callback's requests
    SyncErrorCallback   \* may lws_client_connect_via_info() call CONNECTION_ERROR
                        \* before it returns NULL?

ASSUME WsAppAssumption ==
    /\ Null \notin Wsi
    /\ Null \notin Callback
    /\ GoodUrl \subseteq Url
    /\ UrlOf \in [Callback -> Url]
    /\ SyncErrorCallback \in BOOLEAN

VARIABLES
    context,            \* has tsk_init() created the lws context?
    service,            \* where the service thread is
    active,             \* callback whose on_error() or on_close() is still running
    failing,            \* callback told of a failure inside the connect call
    to_connect_set,     \* callbacks with a request in the set of that name
    to_send_set,
    to_disconnect_set,
    live_set,
    phase,              \* life cycle of each lws connection
    user,               \* the user pointer libwebsockets keeps for it
    writable,           \* lws_callback_on_writable() called, event not delivered
    wake                \* lws_service() has a reason to return

serviceVars == <<context, service, active, failing, wake>>
setVars     == <<to_connect_set, to_send_set, to_disconnect_set, live_set>>
lwsVars     == <<phase, user, writable>>
appVars     == <<serviceVars, setVars, lwsVars>>

ServicePlace == {"init", "loop", "prepare", "service", "failed", "done"}
Phase        == {"free", "connecting", "established", "closing", "closed"}

\* The phases in which libwebsockets will still use the user pointer.
Held == {"connecting", "established", "closing"}

AppTypeOK ==
    /\ context \in BOOLEAN
    /\ service \in ServicePlace
    /\ active \in Callback \cup {Null}
    /\ failing \in Callback \cup {Null}
    /\ to_connect_set \subseteq Callback
    /\ to_send_set \subseteq Wsi
    /\ to_disconnect_set \subseteq Wsi
    /\ live_set \subseteq Wsi
    /\ phase \in [Wsi -> Phase]
    /\ user \in [Wsi -> Callback \cup {Null}]
    /\ writable \subseteq Wsi
    /\ wake \in BOOLEAN

AppInit ==
    /\ context = FALSE
    /\ service = "init"
    /\ active = Null
    /\ failing = Null
    /\ to_connect_set = {}
    /\ to_send_set = {}
    /\ to_disconnect_set = {}
    /\ live_set = {}
    /\ phase = [w \in Wsi |-> "free"]
    /\ user = [w \in Wsi |-> Null]
    /\ writable = {}
    /\ wake = FALSE

-----------------------------------------------------------------------------
(* Requests, called by any thread.                                         *)

\* prepare() holds the mutex from its first to its last step.
MutexFree == service # "prepare"

\* request_to_connect() fails, without the mutex, when there is no context.
ConnectRefused == /\ ~context
                  /\ UNCHANGED appVars

\* Mutant: lws_cancel_service() is not called.
RequestToConnectSilent(c) ==
    /\ context
    /\ MutexFree
    /\ to_connect_set' = IF \E r \in to_connect_set : UrlOf[r] = UrlOf[c]
                           THEN to_connect_set ELSE to_connect_set \cup {c}
    /\ UNCHANGED <<context, service, active, failing, wake, to_send_set,
                   to_disconnect_set, live_set, lwsVars>>

\* The set is ordered by url alone, so a second request for an url that is
\* already there is dropped; the caller is told that all is well.
RequestToConnect(c) ==
    /\ context
    /\ MutexFree
    /\ IF \E r \in to_connect_set : UrlOf[r] = UrlOf[c]
         THEN UNCHANGED <<to_connect_set, wake>>
         ELSE /\ to_connect_set' = to_connect_set \cup {c}
              /\ wake' = TRUE
    /\ UNCHANGED <<context, service, active, failing, to_send_set,
                   to_disconnect_set, live_set, lwsVars>>

\* Mutant: lws_cancel_service() is not called.
RequestToSendSilent(w) ==
    /\ IF context /\ w # Null
         THEN MutexFree /\ to_send_set' = to_send_set \cup {w}
         ELSE UNCHANGED to_send_set
    /\ UNCHANGED <<context, service, active, failing, wake, to_connect_set,
                   to_disconnect_set, live_set, lwsVars>>

RequestToSend(w) ==
    /\ IF context /\ w # Null
         THEN /\ MutexFree
              /\ to_send_set' = to_send_set \cup {w}
              /\ wake' = TRUE
         ELSE UNCHANGED <<to_send_set, wake>>
    /\ UNCHANGED <<context, service, active, failing, to_connect_set,
                   to_disconnect_set, live_set, lwsVars>>

\* Mutant: a client that has never been connected is not excepted.
RequestToDisconnectNull(w) ==
    /\ context
    /\ MutexFree
    /\ to_disconnect_set' = to_disconnect_set \cup {w}
    /\ wake' = TRUE
    /\ UNCHANGED <<context, service, active, failing, to_connect_set,
                   to_send_set, live_set, lwsVars>>

RequestToDisconnect(w) ==
    /\ IF context /\ w # Null
         THEN /\ MutexFree
              /\ to_disconnect_set' = to_disconnect_set \cup {w}
              /\ wake' = TRUE
         ELSE UNCHANGED <<to_disconnect_set, wake>>
    /\ UNCHANGED <<context, service, active, failing, to_connect_set,
                   to_send_set, live_set, lwsVars>>

-----------------------------------------------------------------------------
(* The service thread outside lws_service().                               *)

TskInit ==
    /\ service = "init"
    /\ \/ context' = TRUE  /\ service' = "loop"
       \/ context' = FALSE /\ service' = "failed"
    /\ UNCHANGED <<active, failing, wake, setVars, lwsVars>>

PrepareBegin ==
    /\ service = "loop"
    /\ service' = "prepare"
    /\ UNCHANGED <<context, active, failing, wake, setVars, lwsVars>>

\* The requests to_connect() may take up next.  A request leaves the set of
\* the model when it is taken up; the code clears the set after the last one,
\* still under the mutex, so no other thread can tell.
Taken(c) ==
    /\ service = "prepare"
    /\ active = Null
    /\ c \in to_connect_set
    /\ failing \in {Null, c}

\* Mutant: the loop over the requests is left, and they are cleared.
ConnectDropAll(c) ==
    /\ Taken(c)
    /\ UrlOf[c] \notin GoodUrl
    /\ to_connect_set' = {}
    /\ UNCHANGED <<serviceVars, to_send_set, to_disconnect_set, live_set, lwsVars>>

\* An url that does not parse: the request is logged and forgotten, and the
\* callback is not told.
ConnectDrop(c) ==
    /\ Taken(c)
    /\ UrlOf[c] \notin GoodUrl
    /\ to_connect_set' = to_connect_set \ {c}
    /\ UNCHANGED <<serviceVars, to_send_set, to_disconnect_set, live_set, lwsVars>>

\* Mutant: a request stays in the set.
ConnectStartKeep(c, w) ==
    /\ Taken(c)
    /\ failing = Null
    /\ UrlOf[c] \in GoodUrl
    /\ phase[w] = "free"
    /\ phase' = [phase EXCEPT ![w] = "connecting"]
    /\ user' = [user EXCEPT ![w] = c]
    /\ UNCHANGED <<serviceVars, setVars, writable>>

ConnectStart(c, w) ==
    /\ Taken(c)
    /\ failing = Null
    /\ UrlOf[c] \in GoodUrl
    /\ phase[w] = "free"
    /\ phase' = [phase EXCEPT ![w] = "connecting"]
    /\ user' = [user EXCEPT ![w] = c]
    /\ to_connect_set' = to_connect_set \ {c}
    /\ UNCHANGED <<serviceVars, to_send_set, to_disconnect_set, live_set, writable>>

\* CONNECTION_ERROR delivered inside lws_client_connect_via_info().
ConnectErrorCallback(c) ==
    /\ SyncErrorCallback
    /\ Taken(c)
    /\ failing = Null
    /\ UrlOf[c] \in GoodUrl
    /\ failing' = c
    /\ active' = c
    /\ UNCHANGED <<context, service, wake, setVars, lwsVars>>

\* lws_client_connect_via_info() returned NULL: to_connect() calls on_error().
ConnectFail(c) ==
    /\ Taken(c)
    /\ UrlOf[c] \in GoodUrl
    /\ failing' = Null
    /\ active' = c
    /\ to_connect_set' = to_connect_set \ {c}
    /\ UNCHANGED <<context, service, wake, to_send_set, to_disconnect_set,
                   live_set, lwsVars>>

\* Mutant: only the requests to send are acknowledged.
PrepareEndSendOnly ==
    /\ service = "prepare"
    /\ active = Null
    /\ to_connect_set = {}
    /\ writable' = writable \cup (to_send_set \cap live_set)
    /\ to_send_set' = {}
    /\ service' = "service"
    /\ UNCHANGED <<context, active, failing, wake, to_connect_set,
                   to_disconnect_set, live_set, phase, user>>

\* to_ack() on both sets.  A connection that is not live is only logged, and
\* to_disconnect_set keeps its entry.
PrepareEnd ==
    /\ service = "prepare"
    /\ active = Null
    /\ to_connect_set = {}
    /\ writable' = writable \cup ((to_disconnect_set \cup to_send_set) \cap live_set)
    /\ to_send_set' = {}
    /\ service' = "service"
    /\ UNCHANGED <<context, active, failing, wake, to_connect_set,
                   to_disconnect_set, live_set, phase, user>>

\* Mutant: remove_live() is left out.
CallbackReturnLive ==
    /\ active # Null
    /\ active' = Null
    /\ phase' = [w \in Wsi |-> IF phase[w] = "closed" THEN "free" ELSE phase[w]]
    /\ user' = [w \in Wsi |-> IF phase[w] = "closed" THEN Null ELSE user[w]]
    /\ UNCHANGED <<context, service, failing, wake, setVars, writable>>

\* The on_error() or on_close() called last returns.
CallbackReturn ==
    /\ active # Null
    /\ active' = Null
    /\ phase' = [w \in Wsi |-> IF phase[w] = "closed" THEN "free" ELSE phase[w]]
    /\ user' = [w \in Wsi |-> IF phase[w] = "closed" THEN Null ELSE user[w]]
    /\ live_set' = {w \in live_set : phase[w] # "closed"}
    /\ UNCHANGED <<context, service, failing, wake, to_connect_set, to_send_set,
                   to_disconnect_set, writable>>

\* lws_context_destroy() and the rest of tsk_exit(), once the loop has ended.
TskExit ==
    /\ service = "loop"
    /\ service' = "done"
    /\ phase' = [w \in Wsi |-> "free"]
    /\ user' = [w \in Wsi |-> Null]
    /\ to_connect_set' = {}
    /\ to_send_set' = {}
    /\ to_disconnect_set' = {}
    /\ live_set' = {}
    /\ writable' = {}
    /\ UNCHANGED <<context, active, failing, wake>>

-----------------------------------------------------------------------------
(* callback_minimal(), inside lws_service().                               *)

\* A connection that refused its writeable event is closed before any other
\* event is delivered.
InService == /\ service = "service"
             /\ active = Null

NoneClosing == \A w \in Wsi : phase[w] # "closing"

\* lws_service() returns after a round of events, after lws_cancel_service(),
\* or for a reason of its own.
ServiceReturn ==
    /\ InService
    /\ NoneClosing
    /\ service' = "loop"
    /\ wake' = FALSE
    /\ UNCHANGED <<context, active, failing, setVars, lwsVars>>

ConnectionError(w) ==
    /\ InService
    /\ NoneClosing
    /\ phase[w] = "connecting"
    /\ active' = user[w]
    /\ phase' = [phase EXCEPT ![w] = "closed"]
    /\ wake' = TRUE
    /\ UNCHANGED <<context, service, failing, setVars, user, writable>>

\* Mutant: no writeable event is asked for.
EstablishedSilent(w) ==
    /\ InService
    /\ NoneClosing
    /\ phase[w] = "connecting"
    /\ phase' = [phase EXCEPT ![w] = "established"]
    /\ live_set' = live_set \cup {w}
    /\ wake' = TRUE
    /\ UNCHANGED <<context, service, active, failing, to_connect_set, to_send_set,
                   to_disconnect_set, user, writable>>

Established(w) ==
    /\ InService
    /\ NoneClosing
    /\ phase[w] = "connecting"
    /\ phase' = [phase EXCEPT ![w] = "established"]
    /\ live_set' = live_set \cup {w}
    /\ writable' = writable \cup {w}
    /\ wake' = TRUE
    /\ UNCHANGED <<context, service, active, failing, to_connect_set, to_send_set,
                   to_disconnect_set, user>>

WriteableEvent(w) ==
    /\ InService
    /\ NoneClosing
    /\ phase[w] = "established"
    /\ w \in writable
    /\ wake' = TRUE

\* The event of a connection that somebody asked to disconnect: the callback
\* returns -1 and libwebsockets closes the connection.
WriteableDisconnect(w) ==
    /\ WriteableEvent(w)
    /\ w \in to_disconnect_set
    /\ to_disconnect_set' = to_disconnect_set \ {w}
    /\ writable' = writable \ {w}
    /\ phase' = [phase EXCEPT ![w] = "closing"]
    /\ UNCHANGED <<context, service, active, failing, to_connect_set, to_send_set,
                   live_set, user>>

\* Otherwise on_send() runs; if it sends something, send() asks for the next
\* event at once (rearm).
WriteableSend(w, rearm) ==
    /\ WriteableEvent(w)
    /\ w \notin to_disconnect_set
    /\ writable' = IF rearm THEN writable ELSE writable \ {w}
    /\ UNCHANGED <<context, service, active, failing, setVars, phase, user>>

\* CLIENT_RECEIVE: recv() touches nothing of the service.
ClientReceive(w) ==
    /\ InService
    /\ NoneClosing
    /\ phase[w] = "established"
    /\ wake' = TRUE
    /\ UNCHANGED <<context, service, active, failing, setVars, lwsVars>>

\* CLIENT_CLOSED, after a disconnect of ours or of the peer.
ClientClosed(w) ==
    /\ InService
    /\ \/ phase[w] = "closing"
       \/ phase[w] = "established" /\ NoneClosing
    /\ active' = user[w]
    /\ phase' = [phase EXCEPT ![w] = "closed"]
    /\ writable' = writable \ {w}
    /\ wake' = TRUE
    /\ UNCHANGED <<context, service, failing, setVars, user>>

-----------------------------------------------------------------------------
(* The same for the connections of the server end.                         *)

\* A client of ours has connected; the factory of the protocol makes callback
\* c, and stays active until it returns.  Nobody asks for a writeable event.
ServerEstablished(w, c) ==
    /\ InService
    /\ NoneClosing
    /\ phase[w] = "free"
    /\ active' = c
    /\ phase' = [phase EXCEPT ![w] = "established"]
    /\ user' = [user EXCEPT ![w] = c]
    /\ live_set' = live_set \cup {w}
    /\ wake' = TRUE
    /\ UNCHANGED <<context, service, failing, to_connect_set, to_send_set,
                   to_disconnect_set, writable>>

\* The protocol has no factory: the callback returns -1, and the connection is
\* closed.  It has no user.
ServerRefused(w) ==
    /\ InService
    /\ NoneClosing
    /\ phase[w] = "free"
    /\ phase' = [phase EXCEPT ![w] = "closing"]
    /\ live_set' = live_set \cup {w}
    /\ wake' = TRUE
    /\ UNCHANGED <<context, service, active, failing, to_connect_set, to_send_set,
                   to_disconnect_set, user, writable>>

\* Mutant: one event for each request to send.
ServerWriteableOnce(w, rearm) ==
    /\ WriteableEvent(w)
    /\ writable' = writable \ {w}
    /\ UNCHANGED <<context, service, active, failing, setVars, phase, user>>

\* to_disconnect_set is not looked at.
ServerWriteable(w, rearm) ==
    /\ WriteableEvent(w)
    /\ writable' = IF rearm THEN writable ELSE writable \ {w}
    /\ UNCHANGED <<context, service, active, failing, setVars, phase, user>>

\* CLOSED: protocol_dispatch_callback::remove() becomes active.
ServerClosed(w) ==
    /\ InService
    /\ \/ phase[w] = "closing"
       \/ phase[w] = "established" /\ NoneClosing
    /\ active' = user[w]
    /\ phase' = [phase EXCEPT ![w] = "closed"]
    /\ writable' = writable \ {w}
    /\ wake' = TRUE
    /\ UNCHANGED <<context, service, failing, setVars, user>>

-----------------------------------------------------------------------------
(* Safety of the service, whatever callbacks it serves.                    *)

\* lws_service() does not sleep on a request: when it is in progress it has been
\* woken since the request was made, or the event that will answer the request is
\* due already (wsapp.cpp:44-96, 329-340, 470-493).
NoRequestForgotten ==
    /\ to_connect_set # {} => service # "service" \/ wake
    /\ \A w \in to_send_set \cup to_disconnect_set :
          phase[w] = "established" => w \in writable \/ service # "service" \/ wake
=============================================================================
