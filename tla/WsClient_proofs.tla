-------------------------- MODULE WsClient_proofs --------------------------
(***************************************************************************)
(* Theorems about WsClient, for any clients, connections, urls and frames. *)
(***************************************************************************)
EXTENDS WsClient, WsApp_proofs

USE DEF State, Branch, Running, Exiting, ServicePlace, Phase, Held

Typed == TypeOK /\ FramesBounded

LEMMA TypedInit == Init => Typed
<1> SUFFICES ASSUME Init
             PROVE  Typed
  OBVIOUS
<1>1. AppTypeOK
  BY DEF Init, AppInit, AppTypeOK
<1>2. TypeOK
  BY <1>1, WsClientAssumption DEF Init, TypeOK
<1>3. FramesBounded
  BY WsClientAssumption DEF Init, FramesBounded
<1>4. QED
  BY <1>2, <1>3 DEF Typed

LEMMA TypedNext == Typed /\ [Next]_vars => Typed'
<1> SUFFICES ASSUME Typed, [Next]_vars
             PROVE  Typed'
  OBVIOUS
<1> USE WsAppAssumption, WsClientAssumption
    DEF Typed, TypeOK, AppTypeOK, FramesBounded
<1>1. ASSUME NEW c \in Callback, ProcessStep(c)
      PROVE  Typed'
  <2>1. CASE ProcessRead(c)
    BY <2>1 DEF ProcessRead, Goto, appVars, serviceVars, setVars, lwsVars, sendVars
  <2>2. CASE ProcessNoUrl(c)
    BY <2>2 DEF ProcessNoUrl, Goto, appVars, serviceVars, setVars, lwsVars, sendVars
  <2>3. CASE ProcessIdle(c)
    BY <2>3 DEF ProcessIdle, Goto, ToState, appVars, serviceVars, setVars, lwsVars, sendVars
  <2>4. CASE ProcessRequest(c)
    <3>1. AppTypeOK'
      <4>1. CASE ConnectRefused
        BY <4>1 DEF ConnectRefused, appVars, serviceVars, setVars, lwsVars
      <4>2. CASE RequestToConnect(c)
        <5> HIDE DEF AppTypeOK
        <5>1. AppTypeOK
          BY DEF Typed, TypeOK
        <5>2. QED
          BY <4>2, <5>1, ConnectTyped
      <4>3. QED
        BY <2>4, <4>1, <4>2, Zenon DEF ProcessRequest
    <3>2. state' \in [Callback -> State] /\ pc' \in [Callback -> Running \cup Exiting \cup {"done"}]
      BY <2>4 DEF ProcessRequest, Goto, ToState
    <3>3. QED
      BY <2>4, <3>1, <3>2 DEF ProcessRequest, sendVars
  <2>5. CASE ProcessAborting(c)
    BY <2>5 DEF ProcessAborting, Goto, ToState, appVars, serviceVars, setVars, lwsVars, sendVars
  <2>6. CASE ProcessClosed(c)
    BY <2>6 DEF ProcessClosed, Goto, ToState, appVars, serviceVars, setVars, lwsVars, sendVars
  <2>7. QED
    BY <1>1, <2>1, <2>2, <2>3, <2>4, <2>5, <2>6 DEF ProcessStep
<1>2. ASSUME NEW c \in Callback, Put(c) \/ SendStep(c)
      PROVE  Typed'
  <2>1. CASE Put(c)
    BY <2>1 DEF Put, appVars, serviceVars, setVars, lwsVars, clientVars
  <2>2. CASE TskSend(c)
    BY <2>2 DEF TskSend, appVars, serviceVars, setVars, lwsVars, clientVars
  <2>3. CASE TskSendRequest(c)
    <3>1. sending[c] \in Wsi \cup {Null} /\ notify[c] > 0
      BY <2>3 DEF TskSendRequest
    <3>2. AppTypeOK'
      BY <2>3, <3>1, RequestTyped DEF TskSendRequest
    <3>3. QED
      BY <2>3, <3>1, <3>2 DEF TskSendRequest, clientVars
  <2>4. QED
    BY <1>2, <2>1, <2>2, <2>3 DEF SendStep
<1>3. ASSUME NEW c \in Callback, Stop(c) \/ ExitStep(c)
      PROVE  Typed'
  <2>1. CASE Stop(c)
    BY <2>1 DEF Stop, Goto, appVars, serviceVars, setVars, lwsVars, sendVars
  <2>2. CASE Disconect(c)
    BY <2>2 DEF Disconect, Goto, appVars, serviceVars, setVars, lwsVars, sendVars
  <2>3. CASE DisconectRequest(c)
    <3>1. AppTypeOK'
      BY <2>3, RequestTyped DEF DisconectRequest
    <3>2. QED
      BY <2>3, <3>1 DEF DisconectRequest, Goto, sendVars
  <2>4. CASE ExitDone(c)
    BY <2>4 DEF ExitDone, Goto, appVars, serviceVars, setVars, lwsVars, sendVars
  <2>5. QED
    BY <1>3, <2>1, <2>2, <2>3, <2>4 DEF ExitStep
<1>4. ASSUME NEW c \in Callback, ClientConnectFail(c)
      PROVE  Typed'
  BY <1>4 DEF ClientConnectFail, ConnectErrorCallback, ConnectFail, Taken, OnError, ToState,
              setVars, lwsVars, sendVars
<1>5. ASSUME NEW w \in Wsi, ServiceEvent(w)
      PROVE  Typed'
  <2>1. CASE ClientConnectionError(w)
    BY <2>1 DEF ClientConnectionError, ConnectionError, OnError, ToState, setVars, sendVars
  <2>2. CASE ClientEstablished(w)
    BY <2>2 DEF ClientEstablished, Established, ToState, sendVars
  <2>3. CASE ClientWriteableDisconnect(w)
    BY <2>3 DEF ClientWriteableDisconnect, WriteableDisconnect, WriteableEvent, clientVars, sendVars
  <2>4. CASE ClientWriteableSend(w)
    <3>1. \A d \in Callback : queued'[d] \in 0..MaxFrames /\ queued'[d] <= queued[d]
      BY <2>4 DEF ClientWriteableSend, OnSend
    <3>2. queued' \in [Callback -> 0..MaxFrames]
      <4>1. queued' = [d \in Callback |-> queued'[d]]
        BY <2>4 DEF ClientWriteableSend, OnSend
      <4>2. QED
        BY <3>1, <4>1
    <3>3. AppTypeOK'
      BY <2>4 DEF ClientWriteableSend, WriteableSend, WriteableEvent, setVars
    <3>4. TypeOK'
      BY <2>4, <3>2, <3>3 DEF ClientWriteableSend, clientVars
    <3>5. FramesBounded'
      BY <2>4, <3>1, <3>2 DEF ClientWriteableSend
    <3>6. QED
      BY <3>4, <3>5
  <2>5. CASE ClientOnClose(w)
    BY <2>5 DEF ClientOnClose, ClientClosed, OnClose, ToState, setVars, sendVars
  <2>6. CASE ClientOnRecv(w)
    BY <2>6 DEF ClientOnRecv, ClientReceive, setVars, lwsVars, clientVars, sendVars
  <2>7. QED
    BY <1>5, <2>1, <2>2, <2>3, <2>4, <2>5, <2>6 DEF ServiceEvent
<1>6. ASSUME Prepare
      PROVE  Typed'
  <2>1. CASE TskInit
    BY <1>6, <2>1 DEF Prepare, TskInit, setVars, lwsVars, clientVars, sendVars
  <2>2. CASE PrepareBegin
    BY <1>6, <2>2 DEF Prepare, PrepareBegin, setVars, lwsVars, clientVars, sendVars
  <2>3. CASE \E c \in Callback : ConnectDrop(c)
    BY <1>6, <2>3 DEF Prepare, ConnectDrop, serviceVars, lwsVars, clientVars, sendVars
  <2>4. CASE \E c \in Callback, w \in Wsi : ConnectStart(c, w)
    BY <1>6, <2>4 DEF Prepare, ConnectStart, serviceVars, clientVars, sendVars
  <2>5. CASE PrepareEnd
    BY <1>6, <2>5 DEF Prepare, PrepareEnd, clientVars, sendVars
  <2>6. CASE CallbackReturn
    BY <1>6, <2>6 DEF Prepare, CallbackReturn, clientVars, sendVars
  <2>7. QED
    BY <1>6, <2>1, <2>2, <2>3, <2>4, <2>5, <2>6 DEF Prepare
<1>7. CASE Return
  BY <1>7 DEF Return, ServiceReturn, setVars, lwsVars, clientVars, sendVars
<1>8. CASE ServiceExit
  BY <1>8 DEF ServiceExit, TskExit, clientVars, sendVars
<1>9. CASE UNCHANGED vars
  BY <1>9 DEF vars, appVars, serviceVars, setVars, lwsVars, clientVars, sendVars
<1>10. QED
  BY <1>1, <1>2, <1>3, <1>4, <1>5, <1>6, <1>7, <1>8, <1>9 DEF Next, ClientStep, Finished

\* In every execution every variable keeps its type, and no frame is counted
\* twice: tsk_send() releases only a frame it has read (ws-client.cpp:48-70).
THEOREM TypeCorrect == Spec => [](TypeOK /\ FramesBounded)
<1>1. Init => Typed
  BY TypedInit
<1>2. Typed /\ [Next]_vars => Typed'
  BY TypedNext
<1>3. Typed => TypeOK /\ FramesBounded
  BY DEF Typed
<1>4. QED
  BY <1>1, <1>2, <1>3, PTL DEF Spec

-----------------------------------------------------------------------------
(* The inductive invariant.                                                *)

\* What IInv speaks of.
coreVars == <<state, wsi_, pc, to_connect_set, phase, user>>

LEMMA IInvInit == Init => IInv
  BY DEF Init, AppInit, IInv, BranchFresh, EndedDown, Requesting, Requested, UserKnown,
         OneConnection, ConnectionTracksState, NoConnection, Has

LEMMA IInvStutter == IInv /\ UNCHANGED coreVars => IInv'
  BY DEF coreVars, IInv, BranchFresh, EndedDown, Requesting, Requested, UserKnown,
         OneConnection, ConnectionTracksState, NoConnection, Has

\* The steps of process() and tsk_exit().
LEMMA IInvClient ==
  ASSUME TypeOK, IInv, NEW c \in Callback, ProcessStep(c) \/ Stop(c) \/ ExitStep(c)
  PROVE  IInv'
<1> USE DEF TypeOK, AppTypeOK, IInv, BranchFresh, EndedDown, Requesting, Requested, UserKnown,
            OneConnection, ConnectionTracksState, NoConnection, Has, Goto, ToState,
            appVars, setVars, lwsVars
<1>1. CASE ProcessRead(c)
  BY <1>1 DEF ProcessRead
<1>2. CASE ProcessNoUrl(c)
  BY <1>2 DEF ProcessNoUrl
<1>3. CASE ProcessIdle(c)
  BY <1>3 DEF ProcessIdle
<1>4. CASE ProcessRequest(c)
  BY <1>4 DEF ProcessRequest, ConnectRefused, RequestToConnect
<1>5. CASE ProcessAborting(c)
  BY <1>5 DEF ProcessAborting
<1>6. CASE ProcessClosed(c)
  BY <1>6 DEF ProcessClosed
<1>7. CASE Stop(c)
  BY <1>7 DEF Stop
<1>8. CASE Disconect(c)
  BY <1>8 DEF Disconect
<1>9. CASE DisconectRequest(c)
  BY <1>9 DEF DisconectRequest, RequestToDisconnect
<1>10. CASE ExitDone(c)
  BY <1>10 DEF ExitDone, IsRunning
<1>11. QED
  BY <1>1, <1>2, <1>3, <1>4, <1>5, <1>6, <1>7, <1>8, <1>9, <1>10 DEF ProcessStep, ExitStep

\* The events libwebsockets delivers.
LEMMA IInvEvent ==
  ASSUME TypeOK, IInv, NEW w \in Wsi, ServiceEvent(w)
  PROVE  IInv'
<1> USE DEF TypeOK, AppTypeOK, IInv, BranchFresh, EndedDown, Requesting, Requested, UserKnown,
            OneConnection, ConnectionTracksState, NoConnection, Has, ToState, setVars
<1>1. CASE ClientConnectionError(w)
  BY <1>1 DEF ClientConnectionError, ConnectionError, OnError
<1>2. CASE ClientEstablished(w)
  BY <1>2 DEF ClientEstablished, Established
<1>3. CASE ClientWriteableDisconnect(w)
  BY <1>3 DEF ClientWriteableDisconnect, WriteableDisconnect, WriteableEvent, clientVars
<1>4. CASE ClientWriteableSend(w)
  BY <1>4 DEF ClientWriteableSend, WriteableSend, clientVars
<1>5. CASE ClientOnClose(w)
  BY <1>5 DEF ClientOnClose, ClientClosed, OnClose
<1>6. CASE ClientOnRecv(w)
  BY <1>6 DEF ClientOnRecv, ClientReceive, lwsVars, clientVars
<1>7. QED
  BY <1>1, <1>2, <1>3, <1>4, <1>5, <1>6 DEF ServiceEvent

\* The steps of the service thread outside libwebsockets.
LEMMA IInvService ==
  ASSUME TypeOK, IInv, Prepare
  PROVE  IInv'
<1> USE DEF TypeOK, AppTypeOK, IInv, BranchFresh, EndedDown, Requesting, Requested, UserKnown,
            OneConnection, ConnectionTracksState, NoConnection, Has, clientVars
<1>1. CASE TskInit \/ PrepareBegin \/ PrepareEnd
  BY <1>1 DEF Prepare, TskInit, PrepareBegin, PrepareEnd, setVars, lwsVars
<1>2. ASSUME NEW c \in Callback, ConnectDrop(c)
      PROVE  IInv'
  BY Prepare, <1>2 DEF Prepare, ConnectDrop, lwsVars
<1>3. ASSUME NEW c \in Callback, NEW w \in Wsi, ConnectStart(c, w)
      PROVE  IInv'
  BY Prepare, <1>3 DEF Prepare, ConnectStart, Taken
<1>4. CASE CallbackReturn
  BY <1>4 DEF Prepare, CallbackReturn
<1>5. QED
  BY <1>1, <1>2, <1>3, <1>4 DEF Prepare

LEMMA IInvNext ==
  ASSUME ~SyncErrorCallback, TypeOK, IInv, [Next]_vars
  PROVE  IInv'
<1>1. CASE \E c \in Callback : ProcessStep(c) \/ Stop(c) \/ ExitStep(c)
  BY <1>1, IInvClient
<1>2. CASE \E c \in Callback : Put(c) \/ SendStep(c)
  <2>1. UNCHANGED coreVars
    BY <1>2 DEF Put, SendStep, TskSend, TskSendRequest, RequestToSend, coreVars,
                appVars, setVars, lwsVars, clientVars
  <2>2. QED
    BY <2>1, IInvStutter
<1>3. ASSUME NEW c \in Callback, ClientConnectFail(c)
      PROVE  IInv'
  BY <1>3 DEF ClientConnectFail, ConnectErrorCallback, ConnectFail, Taken, OnError, ToState,
              lwsVars, TypeOK, AppTypeOK, IInv, BranchFresh, EndedDown, Requesting, Requested,
              UserKnown, OneConnection, ConnectionTracksState, NoConnection, Has
<1>4. CASE \E w \in Wsi : ServiceEvent(w)
  BY <1>4, IInvEvent
<1>5. CASE Prepare
  BY <1>5, IInvService
<1>6. CASE Return \/ UNCHANGED vars
  <2>1. UNCHANGED coreVars
    BY <1>6 DEF Return, ServiceReturn, coreVars, vars, appVars, setVars, lwsVars, clientVars
  <2>2. QED
    BY <2>1, IInvStutter
<1>7. CASE ServiceExit
  BY <1>7 DEF ServiceExit, TskExit, AllDone, clientVars, TypeOK, AppTypeOK, IInv, BranchFresh,
              EndedDown, Requesting, Requested, UserKnown, OneConnection,
              ConnectionTracksState, NoConnection, Has
<1>8. QED
  BY <1>1, <1>2, <1>3, <1>4, <1>5, <1>6, <1>7 DEF Next, ClientStep, Finished

LEMMA IInvAlways == ASSUME ~SyncErrorCallback PROVE Spec => [](TypeOK /\ IInv)
<1>1. Init => IInv
  BY IInvInit
<1>2. TypeOK /\ IInv /\ [Next]_vars => IInv'
  BY IInvNext
<1>3. Spec => [](TypeOK /\ FramesBounded)
  BY TypeCorrect
<1>4. QED
  BY <1>1, <1>2, <1>3, PTL DEF Spec

\* With a libwebsockets that reports a failed attempt once, a client has one
\* attempt at a time, its state_ agrees with every event that reaches it, and
\* nothing that will be used points to it after tsk_exit() has deleted it.
THEOREM Safety ==
  ASSUME ~SyncErrorCallback
  PROVE  Spec => [](SingleAttempt /\ ConnectionTracksState /\ NoDanglingUser)
<1>1. ASSUME TypeOK, IInv
      PROVE  SingleAttempt /\ ConnectionTracksState /\ NoDanglingUser
  <2> USE <1>1 DEF TypeOK, AppTypeOK, IInv
  <2>1. SingleAttempt
    BY DEF SingleAttempt, Requesting, Requested, OneConnection, NoConnection, Has
  <2>2. NoDanglingUser
    BY DEF NoDanglingUser, EndedDown, Requested, ConnectionTracksState, Has
  <2>3. QED
    BY <2>1, <2>2
<1>2. QED
  BY <1>1, IInvAlways, PTL

\* A client never has two attempts in hand (client_callback.h:82-116).
THEOREM OneAttempt == ASSUME ~SyncErrorCallback PROVE Spec => []SingleAttempt
  BY Safety, PTL

\* Nothing that will still be used points to a client that tsk_exit() has deleted
\* (ws-client.cpp:72-85).
THEOREM NoneDangling == ASSUME ~SyncErrorCallback PROVE Spec => []NoDanglingUser
  BY Safety, PTL

\* What the threads rely on between their steps, the inductive invariant, always
\* holds.
THEOREM Inductive == ASSUME ~SyncErrorCallback PROVE Spec => []IInv
  BY IInvAlways, PTL

\* live_set is exact whatever libwebsockets reports, and when.
THEOREM LiveSet == Spec => []LiveSetExact
<1>1. Init => LiveSetExact
  BY DEF Init, AppInit, LiveSetExact
<1>2. ASSUME TypeOK, LiveSetExact, [Next]_vars
      PROVE  LiveSetExact'
  <2> USE <1>2 DEF TypeOK, AppTypeOK, LiveSetExact
  <2>1. CASE \E c \in Callback : ClientStep(c)
    <3>1. UNCHANGED <<live_set, phase>>
      BY <2>1 DEF ClientStep, ProcessStep, ProcessRead, ProcessNoUrl, ProcessIdle, ProcessRequest,
                  ProcessAborting, ProcessClosed, ConnectRefused, RequestToConnect, Put, SendStep,
                  TskSend, TskSendRequest, RequestToSend, Stop, ExitStep, Disconect,
                  DisconectRequest, RequestToDisconnect, ExitDone, appVars, setVars, lwsVars
    <3>2. QED
      BY <3>1
  <2>2. CASE \E c \in Callback : ClientConnectFail(c)
    BY <2>2 DEF ClientConnectFail, ConnectErrorCallback, ConnectFail, setVars, lwsVars
  <2>3. ASSUME NEW w \in Wsi, ServiceEvent(w)
        PROVE  LiveSetExact'
    BY <2>3 DEF ServiceEvent, ClientConnectionError, ConnectionError, ClientEstablished, Established,
                ClientWriteableDisconnect, WriteableDisconnect, WriteableEvent, ClientWriteableSend,
                WriteableSend, ClientOnRecv, ClientReceive, ClientOnClose, ClientClosed,
                setVars, lwsVars
  <2>4. CASE Prepare
    BY <2>4 DEF Prepare, TskInit, PrepareBegin, ConnectDrop, ConnectStart, PrepareEnd,
                CallbackReturn, serviceVars, setVars, lwsVars
  <2>5. CASE Return \/ ServiceExit \/ UNCHANGED vars
    BY <2>5 DEF Return, ServiceReturn, ServiceExit, TskExit, vars, appVars, setVars, lwsVars
  <2>6. QED
    BY <2>1, <2>2, <2>3, <2>4, <2>5 DEF Next, Finished
<1>3. QED
  BY <1>1, <1>2, TypeCorrect, PTL DEF Spec

\* state_ makes only the moves that process() and the callbacks make, however
\* their reads and writes of it interleave.
THEOREM StateMoves == ASSUME ~SyncErrorCallback PROVE Spec => LegalMoves
<1> DEFINE Legal == \A c \in Callback : state'[c] # state[c] => state'[c] \in Successors[state[c]]
<1>1. ASSUME TypeOK, IInv, [Next]_vars
      PROVE  Legal
  <2> USE <1>1 DEF TypeOK, AppTypeOK, Successors, ToState
  <2>1. ASSUME NEW c \in Callback, ProcessStep(c)
        PROVE  Legal
    BY <2>1 DEF ProcessStep, ProcessRead, ProcessNoUrl, ProcessIdle, ProcessRequest,
                ProcessAborting, ProcessClosed, IInv, BranchFresh, Requesting
  <2>2. ASSUME NEW c \in Callback, ClientConnectFail(c)
        PROVE  Legal
    BY <2>2 DEF ClientConnectFail, ConnectErrorCallback, ConnectFail, Taken, OnError, IInv, Requested
  <2>3. ASSUME NEW w \in Wsi, ServiceEvent(w)
        PROVE  Legal
    <3>1. CASE ClientConnectionError(w)
      BY <3>1 DEF ClientConnectionError, ConnectionError, OnError, IInv, ConnectionTracksState
    <3>2. CASE ClientEstablished(w)
      BY <3>2 DEF ClientEstablished, Established, IInv, ConnectionTracksState
    <3>3. CASE ClientOnClose(w)
      BY <3>3 DEF ClientOnClose, ClientClosed, OnClose, IInv, ConnectionTracksState
    <3>4. CASE ClientWriteableDisconnect(w) \/ ClientWriteableSend(w) \/ ClientOnRecv(w)
      BY <3>4 DEF ClientWriteableDisconnect, ClientWriteableSend, ClientOnRecv, clientVars
    <3>5. QED
      BY <2>3, <3>1, <3>2, <3>3, <3>4 DEF ServiceEvent
  <2>4. CASE \E c \in Callback : Put(c) \/ SendStep(c) \/ Stop(c) \/ ExitStep(c)
    BY <2>4 DEF Put, SendStep, TskSend, TskSendRequest, Stop, ExitStep, Disconect,
                DisconectRequest, ExitDone, clientVars
  <2>5. CASE Prepare \/ Return \/ ServiceExit \/ UNCHANGED vars
    BY <2>5 DEF Prepare, Return, ServiceExit, vars, clientVars
  <2>6. QED
    BY <2>1, <2>2, <2>3, <2>4, <2>5 DEF Next, ClientStep, Finished
<1>2. TypeOK /\ IInv /\ [Next]_vars => [Legal]_vars
  BY <1>1
<1>3. QED
  BY <1>2, IInvAlways, PTL DEF Spec, LegalMoves

-----------------------------------------------------------------------------
(* Requests and frames that are not forgotten.                             *)

LEMMA AppInvNext == TypeOK /\ AppInv /\ [Next]_vars => AppInv'
<1> SUFFICES ASSUME TypeOK, AppInv, [Next]_vars
             PROVE  AppInv'
  OBVIOUS
<1>1. AppTypeOK
  BY DEF TypeOK
<1>2. ASSUME NEW c \in Callback, ClientStep(c)
      PROVE  AppInv'
  <2>1. CASE UNCHANGED appVars
    BY <2>1, AppInvStutter
  <2>2. CASE RequestToConnect(c)
    BY <1>1, <2>2, AppInvRequest
  <2>3. CASE TskSendRequest(c)
    <3>1. sending[c] \in Wsi \cup {Null} /\ RequestToSend(sending[c])
      BY <2>3 DEF TypeOK, TskSendRequest
    <3>2. QED
      BY <1>1, <3>1, AppInvRequest
  <2>4. CASE DisconectRequest(c)
    <3>1. arg[c] \in Wsi \cup {Null} /\ RequestToDisconnect(arg[c])
      BY <2>4 DEF TypeOK, DisconectRequest
    <3>2. QED
      BY <1>1, <3>1, AppInvRequest
  <2>5. \/ UNCHANGED appVars \/ RequestToConnect(c)
        \/ TskSendRequest(c) \/ DisconectRequest(c)
    BY <1>2 DEF ClientStep, ProcessStep, ProcessRead, ProcessNoUrl, ProcessIdle, ProcessRequest,
                ConnectRefused, ProcessAborting, ProcessClosed, Put, SendStep, TskSend, Stop,
                ExitStep, Disconect, ExitDone
  <2>6. QED
    BY <2>1, <2>2, <2>3, <2>4, <2>5
<1>3. ASSUME NEW c \in Callback, ClientConnectFail(c)
      PROVE  AppInv'
  <2>1. ConnectErrorCallback(c) \/ ConnectFail(c)
    BY <1>3 DEF ClientConnectFail
  <2>2. QED
    BY <1>1, <2>1, AppInvConnect
<1>4. ASSUME NEW w \in Wsi, ServiceEvent(w)
      PROVE  AppInv'
  <2>1. \E rearm : \/ ConnectionError(w) \/ Established(w) \/ WriteableDisconnect(w)
                   \/ WriteableSend(w, rearm) \/ ClientReceive(w) \/ ClientClosed(w)
    BY <1>4 DEF ServiceEvent, ClientConnectionError, ClientEstablished,
                ClientWriteableDisconnect, ClientWriteableSend, ClientOnRecv, ClientOnClose
  <2>2. QED
    BY <1>1, <2>1, AppInvClientEvent
<1>5. CASE Prepare
  <2>1. CASE \E c \in Callback : ConnectDrop(c) \/ \E w \in Wsi : ConnectStart(c, w)
    BY <1>1, <2>1, AppInvConnect
  <2>2. CASE TskInit \/ PrepareBegin \/ PrepareEnd \/ CallbackReturn
    BY <1>1, <2>2, AppInvService
  <2>3. QED
    BY <1>5, <2>1, <2>2 DEF Prepare
<1>6. CASE Return \/ ServiceExit
  <2>1. ServiceReturn \/ TskExit
    BY <1>6 DEF Return, ServiceExit
  <2>2. QED
    BY <1>1, <2>1, AppInvService
<1>7. CASE UNCHANGED vars
  BY <1>7, AppInvStutter DEF vars
<1>8. QED
  BY <1>2, <1>3, <1>4, <1>5, <1>6, <1>7 DEF Next, Finished

\* The service does not sleep on a request of any thread, for connections that
\* come, go and leave requests behind (wsapp.cpp:44-96, 329-340, 470-493).
THEOREM RequestsHeard == Spec => []NoRequestForgotten
<1>1. Init => AppInv
  BY AppInvInit DEF Init
<1>2. AppInv => NoRequestForgotten
  BY DEF AppInv
<1>3. QED
  BY <1>1, <1>2, AppInvNext, TypeCorrect, PTL DEF Spec

\* With ConnectingTried: a client that has been deleted waits for nothing.
DoneDown == \A c \in Callback : pc[c] = "done" => state[c] # "connecting"

\* What both speak of.
tryVars == <<state, pc, to_connect_set, phase, user>>

LEMMA TriedNext ==
  TypeOK /\ DoneDown /\ ConnectingTried /\ [Next]_vars => (DoneDown /\ ConnectingTried)'
<1> SUFFICES ASSUME TypeOK, DoneDown, ConnectingTried, [Next]_vars
             PROVE  (DoneDown /\ ConnectingTried)'
  OBVIOUS
<1> USE WsAppAssumption
    DEF TypeOK, AppTypeOK, DoneDown, ConnectingTried, Trying, Proper, ToState, Goto
<1>1. ASSUME NEW c \in Callback, ProcessStep(c)
      PROVE  (DoneDown /\ ConnectingTried)'
  <2> USE DEF appVars, setVars, lwsVars
  <2>1. CASE ProcessRead(c) \/ ProcessNoUrl(c)
    BY <2>1 DEF ProcessRead, ProcessNoUrl
  <2>2. CASE ProcessIdle(c)
    BY <2>2 DEF ProcessIdle
  <2>3. CASE ProcessRequest(c) /\ ConnectRefused /\ ToState(c, "idle")
    BY <2>3 DEF ProcessRequest, ConnectRefused
  <2>4. CASE ProcessRequest(c) /\ RequestToConnect(c) /\ UNCHANGED state
    BY <2>4 DEF ProcessRequest, RequestToConnect
  <2>5. CASE ProcessAborting(c)
    BY <2>5 DEF ProcessAborting
  <2>6. CASE ProcessClosed(c)
    BY <2>6 DEF ProcessClosed
  <2>7. QED
    BY <1>1, <2>1, <2>2, <2>3, <2>4, <2>5, <2>6 DEF ProcessStep, ProcessRequest
<1>2. ASSUME NEW c \in Callback, Put(c) \/ SendStep(c)
      PROVE  (DoneDown /\ ConnectingTried)'
  <2>1. UNCHANGED tryVars
    BY <1>2 DEF Put, SendStep, TskSend, TskSendRequest, RequestToSend, clientVars, tryVars,
                appVars, setVars, lwsVars
  <2>2. QED
    BY <2>1 DEF tryVars
<1>3. ASSUME NEW c \in Callback, Stop(c) \/ ExitStep(c)
      PROVE  (DoneDown /\ ConnectingTried)'
  <2> USE DEF appVars, setVars, lwsVars
  <2>1. CASE Stop(c)
    BY <2>1 DEF Stop
  <2>2. CASE Disconect(c)
    BY <2>2 DEF Disconect
  <2>3. CASE DisconectRequest(c)
    BY <2>3 DEF DisconectRequest, RequestToDisconnect
  <2>4. CASE ExitDone(c)
    BY <2>4 DEF ExitDone, IsRunning
  <2>5. QED
    BY <1>3, <2>1, <2>2, <2>3, <2>4 DEF ExitStep
<1>4. ASSUME NEW c \in Callback, ClientConnectFail(c)
      PROVE  (DoneDown /\ ConnectingTried)'
  BY <1>4 DEF ClientConnectFail, ConnectErrorCallback, ConnectFail, OnError, setVars, lwsVars
<1>5. ASSUME NEW w \in Wsi, ServiceEvent(w)
      PROVE  (DoneDown /\ ConnectingTried)'
  <2> USE DEF setVars, lwsVars
  <2>1. CASE ClientConnectionError(w)
    BY <2>1 DEF ClientConnectionError, ConnectionError, OnError
  <2>2. CASE ClientEstablished(w)
    BY <2>2 DEF ClientEstablished, Established
  <2>3. CASE ClientWriteableDisconnect(w)
    BY <2>3 DEF ClientWriteableDisconnect, WriteableDisconnect, WriteableEvent, clientVars
  <2>4. CASE ClientWriteableSend(w) \/ ClientOnRecv(w)
    BY <2>4 DEF ClientWriteableSend, WriteableSend, ClientOnRecv, ClientReceive, clientVars
  <2>5. CASE ClientOnClose(w)
    BY <2>5 DEF ClientOnClose, ClientClosed, OnClose
  <2>6. QED
    BY <1>5, <2>1, <2>2, <2>3, <2>4, <2>5 DEF ServiceEvent
<1>6. CASE Prepare
  <2> USE DEF clientVars, serviceVars, setVars, lwsVars
  <2>1. CASE TskInit \/ PrepareBegin \/ PrepareEnd
    BY <1>6, <2>1 DEF Prepare, TskInit, PrepareBegin, PrepareEnd
  <2>2. ASSUME NEW c \in Callback, ConnectDrop(c)
        PROVE  (DoneDown /\ ConnectingTried)'
    BY <1>6, <2>2 DEF Prepare, ConnectDrop
  <2>3. ASSUME NEW c \in Callback, NEW w \in Wsi, ConnectStart(c, w)
        PROVE  (DoneDown /\ ConnectingTried)'
    BY <1>6, <2>3 DEF Prepare, ConnectStart
  <2>4. CASE CallbackReturn
    BY <1>6, <2>4 DEF Prepare, CallbackReturn
  <2>5. QED
    BY <1>6, <2>1, <2>2, <2>3, <2>4 DEF Prepare
<1>7. CASE ServiceExit
  BY <1>7 DEF ServiceExit, AllDone, clientVars
<1>8. CASE Return \/ UNCHANGED vars
  BY <1>8 DEF Return, ServiceReturn, vars, appVars, setVars, lwsVars, clientVars
<1>9. QED
  BY <1>1, <1>2, <1>3, <1>4, <1>5, <1>6, <1>7, <1>8 DEF Next, ClientStep, Finished

\* A client that waits for a connection of its own has one in the making,
\* whatever the others ask for and however often libwebsockets reports a failure
\* (client_callback.h:90-112, wsapp.cpp:44-65, 366-468).
THEOREM WaitsForAttempt == Spec => []ConnectingTried
<1>1. Init => DoneDown /\ ConnectingTried
  BY DEF Init, DoneDown, ConnectingTried
<1>2. TypeOK /\ DoneDown /\ ConnectingTried /\ [Next]_vars => DoneDown' /\ ConnectingTried'
  BY TriedNext
<1>3. QED
  BY <1>1, <1>2, TypeCorrect, PTL DEF Spec

\* Everything NoFrameForgotten speaks of.
frameVars == <<sending, queued, notify, to_send_set, phase, user, writable>>

\* It is kept if frames, requests and connections are, and no task is started again.
LEMMA FrameStutter ==
  ASSUME IInv, NoFrameForgotten, UNCHANGED frameVars,
         \A c \in Callback : pc'[c] \in Running => pc[c] \in Running
  PROVE  NoFrameForgotten'
<1> HIDE DEF Running
<1>1. \A w \in Wsi : phase[w] = "established" => user[w] \in Callback
  BY DEF IInv, UserKnown
<1>2. QED
  BY <1>1 DEF NoFrameForgotten, frameVars

LEMMA FrameSend ==
  ASSUME Typed, IInv, AppInv, NoFrameForgotten, NEW c \in Callback, Put(c) \/ SendStep(c)
  PROVE  NoFrameForgotten'
<1> USE WsAppAssumption, WsClientAssumption
<1> SUFFICES ASSUME NEW w \in Wsi, phase'[w] = "established",
                    pc'[user'[w]] \in Running, queued'[user'[w]] > 0,
                    w \notin writable' \cup to_send_set', sending'[user'[w]] # w
             PROVE  notify'[user'[w]] > IF sending'[user'[w]] = NoCall THEN 0 ELSE 1
  BY DEF NoFrameForgotten
<1>1. /\ UNCHANGED <<phase, user, pc, wsi_, writable>>
      /\ to_send_set \subseteq to_send_set'
  BY DEF Put, SendStep, TskSend, TskSendRequest, RequestToSend, clientVars, appVars, setVars, lwsVars
<1>2. phase[w] = "established" /\ w \notin writable \cup to_send_set /\ user[w] \in Callback
  BY <1>1 DEF IInv, UserKnown
<1>3. /\ notify \in [Callback -> 0..MaxFrames] /\ queued \in [Callback -> 0..MaxFrames]
      /\ sending \in [Callback -> Wsi \cup {Null, NoCall}]
  BY DEF Typed, TypeOK
<1>4. CASE user[w] # c
  <2>1. /\ notify'[user[w]] = notify[user[w]] /\ queued'[user[w]] = queued[user[w]]
        /\ sending'[user[w]] = sending[user[w]]
    BY <1>2, <1>3, <1>4 DEF Put, SendStep, TskSend, TskSendRequest
  <2>2. QED
    BY <1>1, <1>2, <2>1 DEF NoFrameForgotten
<1>5. CASE user[w] = c
  <2>1. CASE Put(c)
    <3>1. sending' = sending /\ notify'[c] = notify[c] + 1
      BY <1>3, <2>1 DEF Put
    <3>2. notify[c] \in Nat /\ (sending[c] # NoCall => notify[c] > 0)
      BY <1>3 DEF Typed, FramesBounded
    <3>3. QED
      BY <1>1, <1>5, <3>1, <3>2
  <2>2. CASE TskSend(c)
    <3>1. sending'[c] = wsi_[c] /\ wsi_[c] = w
      BY <1>2, <1>3, <1>5, <2>2 DEF TskSend, IInv, ConnectionTracksState
    <3>2. QED
      BY <1>1, <1>5, <3>1
  <2>3. CASE TskSendRequest(c)
    <3>1. /\ sending[c] # NoCall /\ sending'[c] = NoCall
          /\ notify'[c] = notify[c] - 1 /\ queued' = queued /\ notify[c] \in Nat
      BY <1>3, <2>3 DEF TskSendRequest
    <3>2. sending[c] # w
      BY <1>1, <1>2, <2>3 DEF TskSendRequest, RequestToSend, AppInv
    <3>3. notify[c] > 1
      BY <1>1, <1>2, <1>5, <3>1, <3>2 DEF NoFrameForgotten
    <3>4. QED
      BY <1>1, <1>5, <3>1, <3>3
  <2>4. QED
    BY <2>1, <2>2, <2>3 DEF SendStep
<1>6. QED
  BY <1>4, <1>5

\* The events: the one of a connection that is made is due at once, and one that
\* sends a frame asks for the next.
LEMMA FrameEvent ==
  ASSUME Typed, IInv, NoFrameForgotten, NEW w \in Wsi, ServiceEvent(w)
  PROVE  NoFrameForgotten'
<1> USE DEF Typed, TypeOK, AppTypeOK
<1>1. pc' = pc /\ sending' = sending /\ notify' = notify /\ user' = user /\ to_send_set' = to_send_set
  BY DEF ServiceEvent, ClientConnectionError, ConnectionError, ClientEstablished, Established,
         ClientWriteableDisconnect, WriteableDisconnect, ClientWriteableSend, WriteableSend,
         ClientOnRecv, ClientReceive, ClientOnClose, ClientClosed, clientVars, sendVars, setVars, lwsVars
<1>2. ASSUME queued' = queued,
             \A v \in Wsi : phase'[v] = "established" =>
                \/ v \in writable'
                \/ phase[v] = "established" /\ (v \in writable => v \in writable')
      PROVE  NoFrameForgotten'
  BY <1>1, <1>2 DEF NoFrameForgotten
<1>3. CASE ClientConnectionError(w)
  BY <1>2, <1>3 DEF ClientConnectionError, ConnectionError, sendVars
<1>4. CASE ClientEstablished(w)
  BY <1>2, <1>4 DEF ClientEstablished, Established, sendVars
<1>5. CASE ClientWriteableDisconnect(w)
  BY <1>2, <1>5 DEF ClientWriteableDisconnect, WriteableDisconnect, sendVars
<1>6. CASE ClientWriteableSend(w)
  <2>1. phase' = phase /\ phase[w] = "established"
    BY <1>6 DEF ClientWriteableSend, WriteableSend, WriteableEvent
  <2>2. user[w] \in Callback /\ \A v \in Wsi \ {w} : phase[v] = "established" => user[v] # user[w]
    BY <2>1 DEF IInv, UserKnown, OneConnection
  <2>3. ASSUME NEW v \in Wsi, v # w, phase[v] = "established"
        PROVE  queued'[user[v]] = queued[user[v]] /\ (v \in writable => v \in writable')
    BY <1>6, <2>2, <2>3 DEF ClientWriteableSend, WriteableSend, OnSend
  <2>4. CASE queued[user[w]] > 0
    <3>1. w \in writable'
      BY <1>6, <2>4 DEF ClientWriteableSend, WriteableSend, WriteableEvent
    <3>2. QED
      BY <1>1, <2>1, <2>3, <3>1 DEF NoFrameForgotten
  <2>5. CASE ~(queued[user[w]] > 0)
    <3>1. ~(queued'[user[w]] > 0)
      BY <1>6, <2>2, <2>5 DEF ClientWriteableSend, OnSend
    <3>2. QED
      BY <1>1, <2>1, <2>3, <3>1 DEF NoFrameForgotten
  <2>6. QED
    BY <2>4, <2>5
<1>7. CASE ClientOnRecv(w)
  BY <1>2, <1>7 DEF ClientOnRecv, ClientReceive, sendVars, lwsVars
<1>8. CASE ClientOnClose(w)
  BY <1>2, <1>8 DEF ClientOnClose, ClientClosed, sendVars
<1>9. QED
  BY <1>3, <1>4, <1>5, <1>6, <1>7, <1>8 DEF ServiceEvent

LEMMA FrameNext ==
  ASSUME ~SyncErrorCallback, Typed, IInv, AppInv, NoFrameForgotten, [Next]_vars
  PROVE  NoFrameForgotten'
<1>1. ASSUME NEW c \in Callback, ProcessStep(c) \/ Stop(c) \/ ExitStep(c)
      PROVE  NoFrameForgotten'
  <2>1. UNCHANGED frameVars
    BY <1>1 DEF ProcessStep, ProcessRead, ProcessNoUrl, ProcessIdle, ProcessRequest, ConnectRefused,
                RequestToConnect, ProcessAborting, ProcessClosed, Stop, ExitStep, Disconect,
                DisconectRequest, RequestToDisconnect, ExitDone, appVars, setVars, lwsVars,
                sendVars, frameVars
  <2>2. pc \in [Callback -> Running \cup Exiting \cup {"done"}]
    BY DEF Typed, TypeOK
  <2>3. \A d \in Callback : pc'[d] \in Running => pc[d] \in Running
    <3>1. CASE ProcessStep(c)
      BY <2>2, <3>1 DEF ProcessStep, ProcessRead, ProcessNoUrl, ProcessIdle, ProcessRequest,
                        ProcessAborting, ProcessClosed, Goto
    <3>2. CASE Stop(c) \/ ExitStep(c)
      BY <2>2, <3>2 DEF Stop, ExitStep, Disconect, DisconectRequest, ExitDone, Goto
    <3>3. QED
      BY <1>1, <3>1, <3>2
  <2>4. QED
    BY <2>1, <2>3, FrameStutter
<1>2. CASE \E c \in Callback : Put(c) \/ SendStep(c)
  BY <1>2, FrameSend
<1>3. CASE \E w \in Wsi : ServiceEvent(w)
  BY <1>3, FrameEvent
<1>4. CASE \/ \E c \in Callback : ClientConnectFail(c)
           \/ \E c \in Callback : ConnectDrop(c) /\ Prepare
           \/ (TskInit \/ PrepareBegin) /\ Prepare
           \/ Return \/ UNCHANGED vars
  <2>1. UNCHANGED frameVars /\ pc' = pc
    BY <1>4 DEF ClientConnectFail, ConnectErrorCallback, ConnectFail, ConnectDrop, Prepare, TskInit,
                PrepareBegin, Return, ServiceReturn, vars, appVars, serviceVars, setVars, lwsVars,
                clientVars, sendVars, frameVars
  <2>2. QED
    BY <2>1, FrameStutter
<1>5. ASSUME Prepare, PrepareEnd \/ CallbackReturn \/ \E c \in Callback, w \in Wsi : ConnectStart(c, w)
      PROVE  NoFrameForgotten'
  <2> USE DEF Typed, TypeOK, AppTypeOK, clientVars, sendVars, serviceVars
  <2>1. CASE PrepareEnd
    BY <1>5, <2>1 DEF Prepare, PrepareEnd, AppInv, NoFrameForgotten
  <2>2. CASE CallbackReturn
    BY <1>5, <2>2 DEF Prepare, CallbackReturn, NoFrameForgotten
  <2>3. CASE \E c \in Callback, w \in Wsi : ConnectStart(c, w)
    BY <1>5, <2>3 DEF Prepare, ConnectStart, NoFrameForgotten
  <2>4. QED
    BY <1>5, <2>1, <2>2, <2>3
<1>6. CASE ServiceExit
  BY <1>6 DEF ServiceExit, TskExit, NoFrameForgotten
<1>7. CASE Prepare
  BY <1>4, <1>5, <1>7 DEF Prepare
<1>8. QED
  BY <1>1, <1>2, <1>3, <1>4, <1>6, <1>7 DEF Next, ClientStep, Finished

\* A frame in the buffer of a client that is connected is not forgotten, though
\* tsk_send() reads wsi_ in one step and uses it in a later one
\* (ws-client.cpp:48-70, ws-client.h:14-28, wsapp.cpp:132-173).
THEOREM FramesRemembered == ASSUME ~SyncErrorCallback PROVE Spec => []NoFrameForgotten
<1>1. Init => AppInv /\ NoFrameForgotten
  BY AppInvInit DEF Init, AppInit, NoFrameForgotten
<1>2. Typed /\ IInv /\ AppInv /\ NoFrameForgotten /\ [Next]_vars => AppInv' /\ NoFrameForgotten'
  BY AppInvNext, FrameNext DEF Typed
<1>3. Typed <=> TypeOK /\ FramesBounded
  BY DEF Typed
<1>4. QED
  BY <1>1, <1>2, <1>3, TypeCorrect, IInvAlways, PTL DEF Spec

-----------------------------------------------------------------------------
(* The steps of ClientLink.                                                *)

Moves == {<<"down", "trying">>, <<"trying", "up">>, <<"trying", "down">>,
          <<"up", "down">>, <<"down", "gone">>}

\* A step that moves the link of one client, if any, is a step of ClientLink.
LEMMA LinkMove ==
  ASSUME NEW c \in Callback,
         \A d \in Callback \ {c} : Link(d)' = Link(d),
         Link(c)' = Link(c) \/ <<Link(c), Link(c)'>> \in Moves
  PROVE  [CL!Next]_Links
<1>1. CASE Link(c)' = Link(c)
  BY <1>1 DEF Links
<1>2. CASE <<Link(c), Link(c)'>> \in Moves
  <2>1. Links[c] = Link(c) /\ Links' = [Links EXCEPT ![c] = Link(c)']
    BY DEF Links
  <2>2. CL!Move(c, Link(c), Link(c)')
    BY <2>1 DEF CL!Move
  <2>3. QED
    BY <1>2, <2>2 DEF Moves, CL!Next, CL!Try, CL!Connect, CL!Fail, CL!Drop, CL!Delete
<1>3. QED
  BY <1>1, <1>2

\* Nothing that a link depends on.
LEMMA LinkStutter ==
  ASSUME \A c \in Callback : (pc'[c] = "done" <=> pc[c] = "done") /\ (pc'[c] = "request" <=> pc[c] = "request"),
         UNCHANGED <<to_connect_set, phase, user>>
  PROVE  [CL!Next]_Links
  BY DEF Links, Link, Linked, Trying

\* The steps of process() and tsk_exit().
LEMMA LinkClient ==
  ASSUME TypeOK, IInv, NEW c \in Callback, ProcessStep(c) \/ Stop(c) \/ ExitStep(c)
  PROVE  [CL!Next]_Links
<1> DEFINE Still == \A d \in Callback \ {c} : Link(d)' = Link(d)
<1> USE DEF TypeOK, AppTypeOK
<1>1. CASE ProcessRead(c) \/ ProcessNoUrl(c) \/ ProcessAborting(c) \/ ProcessClosed(c)
           \/ Stop(c) \/ Disconect(c) \/ DisconectRequest(c)
  <2>1. UNCHANGED <<to_connect_set, phase, user>>
    BY <1>1 DEF ProcessRead, ProcessNoUrl, ProcessAborting, ProcessClosed, Stop, Disconect,
                DisconectRequest, RequestToDisconnect, appVars, setVars, lwsVars
  <2>2. \A d \in Callback : (pc'[d] = "done" <=> pc[d] = "done") /\ (pc'[d] = "request" <=> pc[d] = "request")
    BY <1>1 DEF ProcessRead, ProcessNoUrl, ProcessAborting, ProcessClosed, Stop, Disconect,
                DisconectRequest, Goto
  <2>3. QED
    BY <2>1, <2>2, LinkStutter
<1>2. CASE ProcessIdle(c)
  <2>1. Still
    BY <1>2 DEF ProcessIdle, Goto, appVars, setVars, lwsVars, Link, Linked, Trying
  <2>2. Link(c) = "down"
    BY <1>2 DEF ProcessIdle, IInv, BranchFresh, Requested, ConnectionTracksState, Link, Linked, Trying
  <2>3. Link(c)' = "trying"
    BY <1>2, <2>2 DEF ProcessIdle, Goto, appVars, setVars, lwsVars, Link, Linked, Trying
  <2>4. QED
    BY <2>1, <2>2, <2>3, LinkMove DEF Moves
<1>3. CASE ProcessRequest(c)
  <2>1. Still
    BY <1>3 DEF ProcessRequest, ConnectRefused, RequestToConnect, Goto, appVars, setVars, lwsVars,
                Link, Linked, Trying
  <2>2. Link(c) = "trying"
    BY <1>3 DEF ProcessRequest, IInv, Requesting, NoConnection, Has, Link, Linked, Trying
  <2>3. Link(c)' \in {"trying", "down"}
    BY <1>3, <2>2 DEF ProcessRequest, ConnectRefused, RequestToConnect, Goto, appVars, setVars, lwsVars,
                      Link, Linked, Trying
  <2>4. QED
    BY <2>1, <2>2, <2>3, LinkMove DEF Moves
<1>4. CASE ExitDone(c)
  <2>1. Still
    BY <1>4 DEF ExitDone, Goto, appVars, setVars, lwsVars, Link, Linked, Trying
  <2>2. Link(c) = "down"
    BY <1>4 DEF ExitDone, IsRunning, IInv, Requested, ConnectionTracksState, Link, Linked, Trying
  <2>3. Link(c)' = "gone"
    BY <1>4 DEF ExitDone, Goto, Link
  <2>4. QED
    BY <2>1, <2>2, <2>3, LinkMove DEF Moves
<1>5. QED
  BY <1>1, <1>2, <1>3, <1>4 DEF ProcessStep, ExitStep

\* A request that is forgotten or fails.
LEMMA LinkFail ==
  ASSUME TypeOK, IInv, NEW c \in to_connect_set,
         to_connect_set' = to_connect_set \ {c}, UNCHANGED <<pc, phase, user>>
  PROVE  [CL!Next]_Links
<1> USE DEF TypeOK, AppTypeOK
<1>1. \A d \in Callback \ {c} : Link(d)' = Link(d)
  BY DEF Link, Linked, Trying
<1>2. Link(c) = "trying"
  BY DEF IInv, EndedDown, Requested, NoConnection, Has, Link, Linked, Trying
<1>3. Link(c)' = "down"
  BY <1>2 DEF IInv, Requesting, Requested, NoConnection, Has, Link, Linked, Trying
<1>4. QED
  BY <1>1, <1>2, <1>3, LinkMove DEF Moves

\* The events of libwebsockets.
LEMMA LinkEvent ==
  ASSUME TypeOK, IInv, NEW w \in Wsi, ServiceEvent(w)
  PROVE  [CL!Next]_Links
<1> USE DEF TypeOK, AppTypeOK, setVars
<1> DEFINE c == user[w]
<1>1. CASE ClientConnectionError(w)
  <2>1. /\ c \in Callback /\ phase[w] = "connecting" /\ phase' = [phase EXCEPT ![w] = "closed"]
        /\ UNCHANGED <<pc, to_connect_set, user>>
    BY <1>1 DEF ClientConnectionError, ConnectionError, IInv, UserKnown
  <2>2. \A d \in Callback \ {c} : Link(d)' = Link(d)
    BY <2>1 DEF Link, Linked, Trying
  <2>3. state[c] = "connecting" /\ pc[c] # "done" /\ pc[c] # "request" /\ c \notin to_connect_set
    BY <2>1 DEF IInv, ConnectionTracksState, EndedDown, Requesting, Requested, NoConnection, Has
  <2>4. \A v \in Wsi \ {w} : ~Has(c, v)
    BY <2>1 DEF IInv, OneConnection, Has
  <2>5. Link(c) = "trying" /\ Link(c)' = "down"
    BY <2>1, <2>3, <2>4 DEF Has, Link, Linked, Trying
  <2>6. QED
    BY <2>1, <2>2, <2>5, LinkMove DEF Moves
<1>2. CASE ClientEstablished(w)
  <2>1. /\ c \in Callback /\ phase[w] = "connecting" /\ phase' = [phase EXCEPT ![w] = "established"]
        /\ UNCHANGED <<pc, to_connect_set, user>>
    BY <1>2 DEF ClientEstablished, Established, IInv, UserKnown
  <2>2. \A d \in Callback \ {c} : Link(d)' = Link(d)
    BY <2>1 DEF Link, Linked, Trying
  <2>3. state[c] = "connecting" /\ pc[c] # "done"
    BY <2>1 DEF IInv, ConnectionTracksState, EndedDown
  <2>4. Link(c) = "trying" /\ Link(c)' = "up"
    BY <2>1, <2>3 DEF IInv, ConnectionTracksState, Link, Linked, Trying
  <2>5. QED
    BY <2>1, <2>2, <2>4, LinkMove DEF Moves
<1>3. CASE ClientOnClose(w)
  <2>1. /\ c \in Callback /\ phase[w] \in {"established", "closing"}
        /\ phase' = [phase EXCEPT ![w] = "closed"]
        /\ UNCHANGED <<pc, to_connect_set, user>>
    BY <1>3 DEF ClientOnClose, ClientClosed, IInv, UserKnown
  <2>2. \A d \in Callback \ {c} : Link(d)' = Link(d)
    BY <2>1 DEF Link, Linked, Trying
  <2>3. state[c] = "connected" /\ pc[c] # "done" /\ pc[c] # "request" /\ c \notin to_connect_set
    BY <2>1 DEF IInv, ConnectionTracksState, EndedDown, Requesting, Requested
  <2>4. \A v \in Wsi \ {w} : ~Has(c, v)
    BY <2>1 DEF IInv, OneConnection, Has
  <2>5. Link(c) = "up" /\ Link(c)' = "down"
    BY <2>1, <2>3, <2>4 DEF Has, Link, Linked, Trying
  <2>6. QED
    BY <2>1, <2>2, <2>5, LinkMove DEF Moves
<1>4. CASE ClientWriteableDisconnect(w)
  BY <1>4 DEF ClientWriteableDisconnect, WriteableDisconnect, WriteableEvent, clientVars,
              Links, Link, Linked, Trying
<1>5. CASE ClientWriteableSend(w) \/ ClientOnRecv(w)
  BY <1>5, LinkStutter DEF ClientWriteableSend, WriteableSend, ClientOnRecv, ClientReceive,
                           lwsVars, clientVars
<1>6. QED
  BY <1>1, <1>2, <1>3, <1>4, <1>5 DEF ServiceEvent

\* The steps of the service thread outside libwebsockets, and its end.
LEMMA LinkService ==
  ASSUME TypeOK, IInv, Prepare \/ ServiceExit
  PROVE  [CL!Next]_Links
<1> USE DEF TypeOK, AppTypeOK
<1>1. CASE TskInit \/ PrepareBegin \/ PrepareEnd
  BY Prepare \/ ServiceExit, <1>1, LinkStutter
     DEF Prepare, ServiceExit, TskInit, PrepareBegin, PrepareEnd, setVars, lwsVars, clientVars
<1>2. ASSUME NEW c \in Callback, ConnectDrop(c), UNCHANGED clientVars
      PROVE  [CL!Next]_Links
  BY <1>2, LinkFail DEF ConnectDrop, Taken, lwsVars, clientVars
<1>3. ASSUME NEW c \in Callback, NEW w \in Wsi, ConnectStart(c, w), UNCHANGED clientVars
      PROVE  [CL!Next]_Links
  <2>1. /\ c \in to_connect_set /\ phase[w] = "free"
        /\ phase' = [phase EXCEPT ![w] = "connecting"] /\ user' = [user EXCEPT ![w] = c]
        /\ to_connect_set' = to_connect_set \ {c} /\ pc' = pc
    BY <1>3 DEF ConnectStart, Taken, clientVars
  <2>2. \A d \in Callback : Link(d)' = Link(d)
    BY <2>1 DEF Link, Linked, Trying
  <2>3. QED
    BY <2>2 DEF Links
<1>4. CASE CallbackReturn /\ UNCHANGED clientVars
  BY <1>4 DEF CallbackReturn, clientVars, Links, Link, Linked, Trying
<1>5. CASE ServiceExit
  BY <1>5 DEF ServiceExit, AllDone, clientVars, Links, Link
<1>6. QED
  BY <1>1, <1>2, <1>3, <1>4, <1>5 DEF Prepare

LEMMA LinkNext ==
  ASSUME ~SyncErrorCallback, TypeOK, IInv, [Next]_vars
  PROVE  [CL!Next]_Links
<1>1. CASE \E c \in Callback : ProcessStep(c) \/ Stop(c) \/ ExitStep(c)
  BY <1>1, LinkClient
<1>2. CASE (\E c \in Callback : Put(c) \/ SendStep(c)) \/ Return \/ UNCHANGED vars
  BY <1>2, LinkStutter DEF Put, SendStep, TskSend, TskSendRequest, RequestToSend, Return, ServiceReturn,
                           vars, appVars, setVars, lwsVars, clientVars
<1>3. ASSUME NEW c \in Callback, ClientConnectFail(c)
      PROVE  [CL!Next]_Links
  BY <1>3, LinkFail DEF ClientConnectFail, ConnectErrorCallback, ConnectFail, Taken, lwsVars
<1>4. CASE \E w \in Wsi : ServiceEvent(w)
  BY <1>4, LinkEvent
<1>5. CASE Prepare \/ ServiceExit
  BY <1>5, LinkService
<1>6. QED
  BY <1>1, <1>2, <1>3, <1>4, <1>5 DEF Next, ClientStep, Finished

\* The clients, with their threads and the service they share, take only the steps
\* of ClientLink: all of LinkSpec but that an attempt comes to an end
\* (client_callback.h:82-157, ws-client.cpp:72-85).
THEOREM LinksKept == ASSUME ~SyncErrorCallback PROVE Spec => CL!Init /\ [][CL!Next]_Links
<1>1. Init => CL!Init
  BY DEF Init, AppInit, CL!Init, Links, Link, Linked, Trying
<1>2. TypeOK /\ IInv /\ [Next]_vars => [CL!Next]_Links
  BY LinkNext
<1>3. QED
  BY <1>1, <1>2, IInvAlways, PTL DEF Spec
=============================================================================
