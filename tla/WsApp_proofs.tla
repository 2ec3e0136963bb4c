----------------------------- MODULE WsApp_proofs -----------------------------
(***************************************************************************)
(* Lemmas about the operators of WsApp, for the modules it is composed     *)
(* with: each keeps the types of the service.                              *)
(***************************************************************************)
EXTENDS WsApp, TLAPS

LEMMA AppInitTyped == AppInit => AppTypeOK
  BY DEF AppInit, AppTypeOK, ServicePlace, Phase

\* The requests other threads make.
LEMMA RequestTyped ==
  ASSUME AppTypeOK, NEW w \in Wsi \cup {Null},
         RequestToSend(w) \/ RequestToDisconnect(w)
  PROVE  AppTypeOK'
<1>1. CASE RequestToSend(w)
  BY <1>1 DEF AppTypeOK, RequestToSend, lwsVars
<1>2. CASE RequestToDisconnect(w)
  BY <1>2 DEF AppTypeOK, RequestToDisconnect, lwsVars
<1>3. QED
  BY <1>1, <1>2

LEMMA ConnectTyped ==
  ASSUME AppTypeOK, NEW c \in Callback, RequestToConnect(c)
  PROVE  AppTypeOK'
<1>1. to_connect_set' \subseteq Callback /\ wake' \in BOOLEAN
  BY DEF RequestToConnect, AppTypeOK
<1>2. QED
  BY <1>1 DEF RequestToConnect, lwsVars, AppTypeOK

\* The service thread outside callback_minimal().
LEMMA ServiceTyped ==
  ASSUME AppTypeOK,
         TskInit \/ PrepareBegin \/ PrepareEnd \/ CallbackReturn \/ ServiceReturn
  PROVE  AppTypeOK'
<1> USE DEF AppTypeOK, ServicePlace, Phase, setVars, lwsVars
<1>1. CASE TskInit
  BY <1>1 DEF TskInit
<1>2. CASE PrepareBegin
  BY <1>2 DEF PrepareBegin
<1>3. CASE PrepareEnd
  BY <1>3 DEF PrepareEnd
<1>4. CASE CallbackReturn
  BY <1>4 DEF CallbackReturn
<1>5. CASE ServiceReturn
  BY <1>5 DEF ServiceReturn
<1>6. QED
  BY <1>1, <1>2, <1>3, <1>4, <1>5

\* The events of the connections of the server end.
LEMMA ServerEstablishedTyped ==
  ASSUME AppTypeOK, NEW w \in Wsi, NEW c \in Callback, ServerEstablished(w, c)
  PROVE  AppTypeOK'
  BY DEF AppTypeOK, Phase, ServerEstablished

LEMMA ServerEventTyped ==
  ASSUME AppTypeOK, NEW w \in Wsi, NEW rearm \in BOOLEAN,
         ServerRefused(w) \/ ServerWriteable(w, rearm) \/ ServerClosed(w)
  PROVE  AppTypeOK'
<1> USE DEF AppTypeOK, Phase, setVars
<1>1. CASE ServerRefused(w)
  BY <1>1 DEF ServerRefused
<1>2. CASE ServerWriteable(w, rearm)
  BY <1>2 DEF ServerWriteable, WriteableEvent
<1>3. CASE ServerClosed(w)
  BY <1>3 DEF ServerClosed
<1>4. QED
  BY <1>1, <1>2, <1>3

-----------------------------------------------------------------------------
(* The requests the service has taken.                                     *)

\* There is a context from tsk_init() on, connections are made with it, and one
\* that is established is live, so that to_ack() does not pass it over.
AppInv ==
    /\ context <=> service \notin {"init", "failed"}
    /\ \A w \in Wsi : phase[w] # "free" => context
    /\ \A w \in Wsi : phase[w] = "established" => w \in live_set
    /\ NoRequestForgotten

LEMMA AppInvInit == AppInit => AppInv
  BY DEF AppInit, AppInv, NoRequestForgotten

LEMMA AppInvStutter == AppInv /\ UNCHANGED appVars => AppInv'
  BY DEF AppInv, NoRequestForgotten, appVars, serviceVars, setVars, lwsVars

LEMMA AppInvRequest ==
  ASSUME AppTypeOK, AppInv,
         \/ \E c \in Callback : RequestToConnect(c)
         \/ \E w \in Wsi \cup {Null} : RequestToSend(w) \/ RequestToDisconnect(w)
  PROVE  AppInv'
<1> USE DEF AppTypeOK, AppInv, NoRequestForgotten, lwsVars
<1>1. CASE \E c \in Callback : RequestToConnect(c)
  BY <1>1 DEF RequestToConnect
<1>2. CASE \E w \in Wsi \cup {Null} : RequestToSend(w)
  BY <1>2 DEF RequestToSend
<1>3. CASE \E w \in Wsi \cup {Null} : RequestToDisconnect(w)
  BY <1>3 DEF RequestToDisconnect
<1>4. QED
  BY <1>1, <1>2, <1>3

\* prepare() acknowledges the requests it finds; what is asked during the next
\* lws_service() wakes it.
LEMMA AppInvService ==
  ASSUME AppTypeOK, AppInv,
         TskInit \/ PrepareBegin \/ PrepareEnd \/ CallbackReturn \/ ServiceReturn \/ TskExit
  PROVE  AppInv'
<1> USE DEF AppTypeOK, AppInv, NoRequestForgotten, setVars, lwsVars
<1>1. CASE TskInit
  BY <1>1 DEF TskInit
<1>2. CASE PrepareBegin
  BY <1>2 DEF PrepareBegin
<1>3. CASE PrepareEnd
  BY <1>3 DEF PrepareEnd
<1>4. CASE CallbackReturn
  BY <1>4 DEF CallbackReturn
<1>5. CASE ServiceReturn
  BY <1>5 DEF ServiceReturn, InService
<1>6. CASE TskExit
  BY <1>6 DEF TskExit
<1>7. QED
  BY <1>1, <1>2, <1>3, <1>4, <1>5, <1>6

LEMMA AppInvConnect ==
  ASSUME AppTypeOK, AppInv, NEW c \in Callback,
         \/ ConnectDrop(c) \/ ConnectErrorCallback(c) \/ ConnectFail(c)
         \/ \E w \in Wsi : ConnectStart(c, w)
  PROVE  AppInv'
<1> USE DEF AppTypeOK, AppInv, NoRequestForgotten, Taken, serviceVars, setVars, lwsVars
<1>1. CASE ConnectDrop(c)
  BY <1>1 DEF ConnectDrop
<1>2. CASE \E w \in Wsi : ConnectStart(c, w)
  BY <1>2 DEF ConnectStart
<1>3. CASE ConnectErrorCallback(c)
  BY <1>3 DEF ConnectErrorCallback
<1>4. CASE ConnectFail(c)
  BY <1>4 DEF ConnectFail
<1>5. QED
  BY <1>1, <1>2, <1>3, <1>4

\* An event wakes lws_service() itself: prepare() comes next.
LEMMA AppInvClientEvent ==
  ASSUME AppTypeOK, AppInv, NEW w \in Wsi, NEW rearm,
         \/ ConnectionError(w) \/ Established(w) \/ WriteableDisconnect(w)
         \/ WriteableSend(w, rearm) \/ ClientReceive(w) \/ ClientClosed(w)
  PROVE  AppInv'
<1> USE DEF AppTypeOK, AppInv, NoRequestForgotten, InService, setVars, lwsVars
<1>1. CASE ConnectionError(w)
  BY <1>1 DEF ConnectionError
<1>2. CASE Established(w)
  BY <1>2 DEF Established
<1>3. CASE WriteableDisconnect(w)
  BY <1>3 DEF WriteableDisconnect, WriteableEvent
<1>4. CASE WriteableSend(w, rearm)
  BY <1>4 DEF WriteableSend, WriteableEvent
<1>5. CASE ClientReceive(w)
  BY <1>5 DEF ClientReceive
<1>6. CASE ClientClosed(w)
  BY <1>6 DEF ClientClosed
<1>7. QED
  BY <1>1, <1>2, <1>3, <1>4, <1>5, <1>6

LEMMA AppInvServerEvent ==
  ASSUME AppTypeOK, AppInv, NEW w \in Wsi, NEW rearm,
         \/ (\E c \in Callback : ServerEstablished(w, c)) \/ ServerRefused(w)
         \/ ServerWriteable(w, rearm) \/ ServerClosed(w)
  PROVE  AppInv'
<1> USE DEF AppTypeOK, AppInv, NoRequestForgotten, InService, setVars
<1>1. CASE \E c \in Callback : ServerEstablished(w, c)
  BY <1>1 DEF ServerEstablished
<1>2. CASE ServerRefused(w)
  BY <1>2 DEF ServerRefused
<1>3. CASE ServerWriteable(w, rearm)
  BY <1>3 DEF ServerWriteable, WriteableEvent
<1>4. CASE ServerClosed(w)
  BY <1>4 DEF ServerClosed
<1>5. QED
  BY <1>1, <1>2, <1>3, <1>4
=============================================================================
