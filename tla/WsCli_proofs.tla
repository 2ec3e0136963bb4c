---------------------------- MODULE WsCli_proofs ----------------------------
(***************************************************************************)
(* Theorems about WsCli, for any number of rounds, names, nodes and        *)
(* connections.                                                            *)
(***************************************************************************)
EXTENDS WsCli, WsClient_proofs, OptionTree_proofs

USE WsCliAssumption

\* wscli puts its client and the service through nothing that WsClient does not
\* allow, so that what is true of WsClient is true of wscli
\* (main.cpp:46-55, 339-376).
THEOREM UsesClient == CliSpec => Spec
<1>1. CliInit => Init
  BY DEF CliInit
<1>2. ASSUME [CliNext]_allVars
      PROVE  [Next]_vars
  <2>1. CASE ReadOption \/ ReadWild \/ Start \/ PrintResponse \/ Timeout \/ Leave \/ Interrupt
             \/ CliFinished \/ UNCHANGED allVars
    BY <2>1 DEF ReadOption, ReadWild, Start, PrintResponse, Timeout, Leave, Interrupt, CliFinished, allVars
  <2>2. CASE PutRequest \/ StopClient \/ StopService
    BY <2>2 DEF PutRequest, StopClient, StopService, Next, ClientStep
  <2>3. CASE \E w \in Wsi : SendRequest(w) \/ ReceiveResponse(w) \/ LoseConnection(w)
    BY <2>3 DEF SendRequest, ReceiveResponse, LoseConnection, Next, ServiceEvent
  <2>4. CASE OtherSteps
    BY <2>4 DEF OtherSteps, Next, ClientStep, ServiceEvent
  <2>5. QED
    BY <1>2, <2>1, <2>2, <2>3, <2>4 DEF CliNext, MainStep, Threads
<1>3. QED
  BY <1>1, <1>2, PTL DEF CliSpec, Spec

-----------------------------------------------------------------------------
(* Whose answer is printed.                                                *)

Pos == Nat \ {0}

Line == [round : Pos, response : Pos]

Increasing(s) == \A i, j \in DOMAIN s : i < j => s[i] < s[j]

Below(s, n) == \A i \in DOMAIN s : s[i] < n

Before(s, t) == \A i \in DOMAIN s, j \in DOMAIN t : s[i] < t[j]

\* What is in the buffer and what is under way: all of it in the order of the
\* requests, and sent.
InOrder ==
    /\ inflight \in Seq(Pos) /\ Increasing(inflight) /\ Below(inflight, NextToSend)
    /\ inbox \in Seq(Pos) /\ Increasing(inbox) /\ Below(inbox, NextToSend)
    /\ Before(inbox, inflight)

\* What has been printed comes before, in earlier rounds than the one whose answer
\* is waited for.
PrintedBefore ==
    \A k \in DOMAIN printed :
       /\ printed[k].round < Round + (IF main = "reading" THEN 0 ELSE 1)
       /\ printed[k].response < NextToSend
       /\ \A i \in DOMAIN inbox : printed[k].response < inbox[i]
       /\ \A i \in DOMAIN inflight : printed[k].response < inflight[i]

OrderInv ==
    /\ InOrder
    /\ printed \in Seq(Line)
    /\ PrintedBefore
    /\ AnswersOwnRound
    /\ main = "reading" => Round > 0

LEMMA PrintedTyped ==
  ASSUME printed \in Seq(Line)
  PROVE  /\ DOMAIN printed = 1..Len(printed) /\ Len(printed) \in Nat
         /\ \A k \in 1..Len(printed) : printed[k].round \in Pos /\ printed[k].response \in Pos
<1>1. /\ DOMAIN printed = 1..Len(printed) /\ Len(printed) \in Nat
      /\ printed \in [1..Len(printed) -> Line]
  BY LenProperties
<1>2. \A k \in 1..Len(printed) : printed[k] \in Line
  BY <1>1
<1>3. QED
  BY <1>1, <1>2 DEF Line

\* What is under way is appended to and taken from at the other end.
LEMMA AppendIncreasing ==
  ASSUME NEW s \in Seq(Pos), NEW x \in Pos, Increasing(s), Below(s, x)
  PROVE  /\ Append(s, x) \in Seq(Pos)
         /\ Increasing(Append(s, x))
         /\ Below(Append(s, x), x + 1)
<1>1. /\ Append(s, x) \in Seq(Pos)
      /\ DOMAIN Append(s, x) = 1..Len(s) + 1
      /\ \A i \in 1..Len(s) : Append(s, x)[i] = s[i]
      /\ Append(s, x)[Len(s) + 1] = x
  BY AppendProperties DEF Pos
<1>2. DOMAIN s = 1..Len(s) /\ Len(s) \in Nat /\ \A i \in 1..Len(s) : s[i] \in Pos
  BY LenProperties, ElementOfSeq
<1>3. QED
  BY <1>1, <1>2 DEF Increasing, Below, Pos

LEMMA TailIncreasing ==
  ASSUME NEW s \in Seq(Pos), Increasing(s), s # <<>>
  PROVE  /\ Head(s) \in Pos /\ 1 \in DOMAIN s /\ Head(s) = s[1]
         /\ Tail(s) \in Seq(Pos)
         /\ Increasing(Tail(s))
         /\ \A i \in DOMAIN Tail(s) : i + 1 \in DOMAIN s /\ Tail(s)[i] = s[i + 1] /\ s[1] < Tail(s)[i]
<1>1. /\ Head(s) \in Pos /\ Head(s) = s[1]
      /\ Tail(s) \in Seq(Pos)
      /\ Len(s) \in Pos
      /\ DOMAIN s = 1..Len(s)
      /\ DOMAIN Tail(s) = 1..Len(s) - 1
      /\ \A i \in 1..Len(s) - 1 : Tail(s)[i] = s[i + 1]
  BY HeadTailProperties, LenProperties, EmptySeq DEF Pos
<1>2. Len(s) \in Nat /\ 1 \in DOMAIN s
  BY <1>1 DEF Pos
<1>3. \A i \in DOMAIN Tail(s) :
         i \in Nat /\ i \in DOMAIN s /\ i + 1 \in DOMAIN s /\ Tail(s)[i] = s[i + 1]
  BY <1>1, <1>2
<1>4. Increasing(Tail(s))
  <2> SUFFICES ASSUME NEW i \in DOMAIN Tail(s), NEW j \in DOMAIN Tail(s), i < j
               PROVE  Tail(s)[i] < Tail(s)[j]
    BY DEF Increasing
  <2>1. i \in Nat /\ j \in Nat /\ i + 1 < j + 1
    BY <1>3
  <2>2. s[i + 1] < s[j + 1]
    BY <2>1, <1>3 DEF Increasing
  <2>3. QED
    BY <2>2, <1>3
<1>5. \A i \in DOMAIN Tail(s) : s[1] < Tail(s)[i]
  <2> SUFFICES ASSUME NEW i \in DOMAIN Tail(s)
               PROVE  s[1] < s[i + 1]
    BY <1>3
  <2>1. i \in Nat \ {0} /\ 1 < i + 1
    BY <1>1, <1>2, <1>3
  <2>2. QED
    BY <2>1, <1>2, <1>3 DEF Increasing
<1>6. QED
  BY <1>1, <1>2, <1>3, <1>4, <1>5

LEMMA RoundTyped ==
  ASSUME Typed
  PROVE  /\ toPut[cli] \in Nat /\ queued[cli] \in Nat
         /\ toPut[cli] + queued[cli] <= MaxFrames
         /\ MaxFrames \in Nat /\ Round \in Nat /\ NextToSend \in Pos /\ NextToSend <= Round + 1
<1>1. toPut[cli] \in 0..MaxFrames /\ queued[cli] \in 0..MaxFrames
  BY DEF Typed, TypeOK
<1>2. toPut[cli] + queued[cli] <= MaxFrames /\ MaxFrames \in Nat
  BY WsClientAssumption DEF Typed, FramesBounded
<1>3. QED
  BY <1>1, <1>2 DEF Round, NextToSend, Pos

LEMMA OrderKept ==
  ASSUME Typed, OrderInv, UNCHANGED <<toPut, queued, inflight, inbox, printed>>,
         main' = main \/ main' # "reading"
  PROVE  OrderInv'
<1>1. Round' = Round /\ NextToSend' = NextToSend /\ Round \in Nat
  BY RoundTyped DEF Round, NextToSend
<1>2. InOrder' /\ AnswersOwnRound'
  BY <1>1 DEF OrderInv, InOrder, Increasing, Below, Before, AnswersOwnRound
<1>3. \A k \in DOMAIN printed : printed[k].round \in Pos
  BY PrintedTyped DEF OrderInv
<1>4. PrintedBefore'
  <2> SUFFICES ASSUME NEW k \in DOMAIN printed
               PROVE  printed[k].round < Round + (IF main' = "reading" THEN 0 ELSE 1)
    BY <1>1 DEF OrderInv, PrintedBefore
  <2>1. printed[k].round < Round + (IF main = "reading" THEN 0 ELSE 1)
    BY DEF OrderInv, PrintedBefore
  <2>2. QED
    BY <2>1, <1>1, <1>3 DEF Pos
<1>5. QED
  BY <1>1, <1>2, <1>4 DEF OrderInv

LEMMA OrderPut ==
  ASSUME Typed, OrderInv, PutRequest
  PROVE  OrderInv'
<1>1. /\ Round' = Round + 1 /\ NextToSend' = NextToSend
      /\ UNCHANGED <<inflight, inbox, printed>> /\ main' = "reading" /\ main = "loop"
      /\ Round \in Nat
  BY RoundTyped DEF PutRequest, Put, Round, NextToSend, Typed, TypeOK
<1>2. InOrder' /\ AnswersOwnRound'
  BY <1>1 DEF OrderInv, InOrder, Increasing, Below, Before, AnswersOwnRound
<1>3. PrintedBefore'
  BY <1>1 DEF OrderInv, PrintedBefore
<1>4. QED
  BY <1>1, <1>2, <1>3 DEF OrderInv

LEMMA OrderSend ==
  ASSUME Typed, OrderInv, NEW w \in Wsi, user[w] = cli, SendRequest(w)
  PROVE  OrderInv'
<1>1. UNCHANGED <<toPut, inbox, printed, main>>
  BY DEF SendRequest, ClientWriteableSend
<1>2. CASE queued[cli] = 0
  <2>1. UNCHANGED <<queued, inflight>>
    BY <1>2 DEF SendRequest, ClientWriteableSend, OnSend, Typed, TypeOK
  <2>2. QED
    BY <1>1, <2>1, OrderKept
<1>3. CASE queued[cli] > 0
  <2>1. /\ inflight' = Append(inflight, NextToSend)
        /\ Round' = Round /\ NextToSend' = NextToSend + 1
        /\ Round \in Nat /\ NextToSend \in Pos
    BY <1>1, <1>3, RoundTyped DEF SendRequest, ClientWriteableSend, OnSend, Typed, TypeOK, Round, NextToSend
  <2>2. /\ inflight \in Seq(Pos) /\ Increasing(inflight) /\ Below(inflight, NextToSend)
        /\ inbox \in Seq(Pos)
    BY DEF OrderInv, InOrder
  <2>3. /\ DOMAIN inflight' = 1..Len(inflight) + 1
        /\ \A i \in 1..Len(inflight) : inflight'[i] = inflight[i]
        /\ inflight'[Len(inflight) + 1] = NextToSend
        /\ DOMAIN inflight = 1..Len(inflight) /\ Len(inflight) \in Nat
    BY <2>1, <2>2, AppendProperties, LenProperties
  <2>4. inflight' \in Seq(Pos) /\ Increasing(inflight') /\ Below(inflight', NextToSend')
    BY <2>1, <2>2, AppendIncreasing
  <2>5. \A i \in DOMAIN inbox : inbox[i] \in Pos
    BY <2>2, ElementOfSeq, LenProperties
  <2>6. InOrder'
    <3>1. Below(inbox, NextToSend + 1)
      BY <2>5, <2>1 DEF OrderInv, InOrder, Below, Pos
    <3>2. Before(inbox, inflight')
      BY <2>3 DEF OrderInv, InOrder, Before, Below
    <3>3. QED
      BY <1>1, <2>1, <2>2, <2>4, <3>1, <3>2 DEF OrderInv, InOrder
  <2>7. \A k \in DOMAIN printed : printed[k].response \in Pos
    BY PrintedTyped DEF OrderInv
  <2>8. PrintedBefore'
    <3> SUFFICES ASSUME NEW k \in DOMAIN printed
                 PROVE  /\ printed[k].response < NextToSend + 1
                        /\ \A i \in DOMAIN inflight' : printed[k].response < inflight'[i]
      BY <1>1, <2>1 DEF OrderInv, PrintedBefore
    <3>1. /\ printed[k].response < NextToSend
          /\ \A i \in DOMAIN inflight : printed[k].response < inflight[i]
      BY DEF OrderInv, PrintedBefore
    <3>2. QED
      BY <3>1, <2>1, <2>3, <2>7 DEF Pos
  <2>9. QED
    BY <1>1, <2>1, <2>6, <2>8 DEF OrderInv, AnswersOwnRound
<1>4. QED
  BY <1>2, <1>3, RoundTyped

LEMMA OrderReceive ==
  ASSUME Typed, OrderInv, NEW w \in Wsi, ReceiveResponse(w)
  PROVE  OrderInv'
<1>1. /\ UNCHANGED <<toPut, queued, printed, main>> /\ inflight # <<>>
      /\ inbox' = Append(inbox, Head(inflight)) /\ inflight' = Tail(inflight)
  BY DEF ReceiveResponse, ClientOnRecv, sendVars
<1>2. Round' = Round /\ NextToSend' = NextToSend /\ NextToSend \in Pos
  BY <1>1, RoundTyped DEF Round, NextToSend
<1> DEFINE x == Head(inflight)
<1>3. /\ inflight \in Seq(Pos) /\ Increasing(inflight) /\ Below(inflight, NextToSend)
      /\ inbox \in Seq(Pos) /\ Increasing(inbox) /\ Below(inbox, NextToSend)
      /\ Before(inbox, inflight)
  BY DEF OrderInv, InOrder
<1>4. /\ x \in Pos /\ 1 \in DOMAIN inflight /\ x = inflight[1]
      /\ inflight' \in Seq(Pos) /\ Increasing(inflight')
      /\ \A i \in DOMAIN inflight' : /\ i + 1 \in DOMAIN inflight /\ inflight'[i] = inflight[i + 1]
                                     /\ x < inflight'[i]
  BY <1>1, <1>3, TailIncreasing
<1>5. Below(inbox, x)
  BY <1>3, <1>4 DEF Before, Below
<1>6. inbox' \in Seq(Pos) /\ Increasing(inbox')
  BY <1>1, <1>3, <1>4, <1>5, AppendIncreasing
<1>7. /\ DOMAIN inbox' = 1..Len(inbox) + 1
      /\ \A i \in 1..Len(inbox) : inbox'[i] = inbox[i]
      /\ inbox'[Len(inbox) + 1] = x
      /\ DOMAIN inbox = 1..Len(inbox) /\ Len(inbox) \in Nat
  BY <1>1, <1>3, <1>4, AppendProperties, LenProperties
<1>8. InOrder'
  <2>1. Below(inflight', NextToSend) /\ Below(inbox', NextToSend)
    BY <1>3, <1>4, <1>7 DEF Below
  <2>2. Before(inbox', inflight')
    <3> SUFFICES ASSUME NEW i \in 1..Len(inbox) + 1, NEW j \in DOMAIN inflight'
                 PROVE  inbox'[i] < inflight'[j]
      BY <1>7 DEF Before
    <3>1. CASE i \in 1..Len(inbox)
      <4>1. inbox'[i] = inbox[i] /\ i \in DOMAIN inbox
        BY <3>1, <1>7
      <4>2. QED
        BY <4>1, <1>3, <1>4 DEF Before
    <3>2. CASE i = Len(inbox) + 1
      BY <3>2, <1>4, <1>7
    <3>3. QED
      BY <3>1, <3>2, <1>7
  <2>3. QED
    BY <1>2, <1>4, <1>6, <2>1, <2>2 DEF InOrder
<1>9. PrintedBefore'
  BY <1>1, <1>2, <1>4, <1>7 DEF OrderInv, PrintedBefore
<1>10. QED
  BY <1>1, <1>2, <1>8, <1>9 DEF OrderInv, AnswersOwnRound

LEMMA OrderPrint ==
  ASSUME Typed, OrderInv, PrintResponse
  PROVE  OrderInv'
<1>1. /\ UNCHANGED <<toPut, queued, inflight>> /\ inbox # <<>> /\ main = "reading" /\ main' # "reading"
      /\ inbox' = Tail(inbox)
      /\ printed' = Append(printed, [round |-> Round, response |-> Head(inbox)])
  BY DEF PrintResponse, NextRound, vars, sendVars
<1>2. Round' = Round /\ NextToSend' = NextToSend /\ NextToSend \in Pos /\ Round \in Pos /\ NextToSend <= Round + 1
  BY <1>1, RoundTyped DEF Round, NextToSend, OrderInv, Pos
<1> DEFINE x == Head(inbox)
           n == Len(printed)
<1>3. /\ inflight \in Seq(Pos) /\ Increasing(inflight) /\ Below(inflight, NextToSend)
      /\ inbox \in Seq(Pos) /\ Increasing(inbox) /\ Below(inbox, NextToSend)
      /\ Before(inbox, inflight)
  BY DEF OrderInv, InOrder
<1>4. /\ x \in Pos /\ 1 \in DOMAIN inbox /\ x = inbox[1]
      /\ inbox' \in Seq(Pos) /\ Increasing(inbox')
      /\ \A i \in DOMAIN inbox' : i + 1 \in DOMAIN inbox /\ inbox'[i] = inbox[i + 1] /\ x < inbox'[i]
  BY <1>1, <1>3, TailIncreasing
<1>5. x < NextToSend /\ x <= Round
  BY <1>2, <1>3, <1>4 DEF Below, Pos
<1>6. /\ printed' \in Seq(Line)
      /\ DOMAIN printed' = 1..n + 1 /\ DOMAIN printed = 1..n /\ n \in Nat
      /\ \A i \in 1..n : printed'[i] = printed[i]
      /\ printed'[n + 1] = [round |-> Round, response |-> x]
      /\ \A i \in 1..n : printed[i].round \in Pos /\ printed[i].response \in Pos
  <2>1. printed \in Seq(Line)
    BY DEF OrderInv
  <2>2. [round |-> Round, response |-> x] \in Line
    BY <1>2, <1>4 DEF Line
  <2>3. /\ printed' \in Seq(Line) /\ Len(printed') = n + 1
        /\ \A i \in 1..n : printed'[i] = printed[i]
        /\ printed'[n + 1] = [round |-> Round, response |-> x]
    BY <1>1, <2>1, <2>2, AppendProperties
  <2>4. DOMAIN printed' = 1..Len(printed')
    BY <2>3, LenProperties
  <2>5. QED
    BY <2>1, <2>3, <2>4, PrintedTyped
<1>7. InOrder'
  BY <1>1, <1>2, <1>3, <1>4 DEF InOrder, Below, Before
<1>8. \A k \in 1..n : printed[k].response < x /\ printed[k].round < Round
  <2> SUFFICES ASSUME NEW k \in DOMAIN printed
               PROVE  printed[k].response < x /\ printed[k].round < Round
    BY <1>6
  <2>1. printed[k].round < Round + (IF main = "reading" THEN 0 ELSE 1)
    BY DEF OrderInv, PrintedBefore
  <2>2. printed[k].round < Round
    BY <2>1, <1>1, <1>2, <1>6 DEF Pos
  <2>3. printed[k].response < x
    BY <1>4 DEF OrderInv, PrintedBefore
  <2>4. QED
    BY <2>2, <2>3
<1>9. PrintedBefore'
  <2> SUFFICES ASSUME NEW k \in 1..n + 1
               PROVE  /\ printed'[k].round < Round + 1
                      /\ printed'[k].response < NextToSend
                      /\ \A i \in DOMAIN inbox' : printed'[k].response < inbox'[i]
                      /\ \A i \in DOMAIN inflight : printed'[k].response < inflight[i]
    BY <1>1, <1>2, <1>6 DEF PrintedBefore
  <2>1. CASE k = n + 1
    BY <2>1, <1>2, <1>3, <1>4, <1>5, <1>6 DEF Before, Pos
  <2>2. CASE k \in 1..n
    <3>1. printed'[k] = printed[k] /\ printed[k].round \in Pos /\ printed[k].round < Round
      BY <2>2, <1>6, <1>8
    <3>2. /\ printed[k].response < NextToSend
          /\ \A i \in DOMAIN inbox : printed[k].response < inbox[i]
          /\ \A i \in DOMAIN inflight : printed[k].response < inflight[i]
      BY <2>2, <1>6 DEF OrderInv, PrintedBefore
    <3>3. QED
      BY <3>1, <3>2, <1>2, <1>4 DEF Pos
  <2>3. QED
    BY <2>1, <2>2, <1>6
<1>10. AnswersOwnRound'
  <2>1. \A k \in 1..n : /\ printed[k].response \in k..printed[k].round
                        /\ \A j \in 1..k - 1 : /\ printed[j].response < printed[k].response
                                               /\ printed[j].round < printed[k].round
    BY <1>6 DEF OrderInv, AnswersOwnRound
  <2>2. n + 1 <= x
    <3>1. CASE n = 0
      BY <3>1, <1>4 DEF Pos
    <3>2. CASE n # 0
      <4>1. n \in 1..n /\ printed[n].response \in Pos
        BY <3>2, <1>6
      <4>2. n <= printed[n].response /\ printed[n].response < x
        BY <4>1, <2>1, <1>8, <1>6 DEF Pos
      <4>3. QED
        BY <4>1, <4>2, <1>4, <1>6 DEF Pos
    <3>3. QED
      BY <3>1, <3>2
  <2>3. ASSUME NEW k \in 1..n + 1
        PROVE  /\ printed'[k].response \in k..printed'[k].round
               /\ \A j \in 1..k - 1 : /\ printed'[j].response < printed'[k].response
                                      /\ printed'[j].round < printed'[k].round
    <3>1. CASE k = n + 1
      BY <3>1, <2>2, <1>2, <1>4, <1>5, <1>6, <1>8 DEF Pos
    <3>2. CASE k \in 1..n
      <4>1. \A j \in 1..k - 1 : j \in 1..n
        BY <3>2, <1>6
      <4>2. QED
        BY <3>2, <4>1, <2>1, <1>6
    <3>3. QED
      BY <3>1, <3>2, <1>6
  <2>4. QED
    BY <2>3, <1>6 DEF AnswersOwnRound
<1>11. QED
  BY <1>1, <1>6, <1>7, <1>9, <1>10 DEF OrderInv

LEMMA OrderLose ==
  ASSUME Typed, OrderInv, NEW w \in Wsi, LoseConnection(w)
  PROVE  OrderInv'
<1>1. UNCHANGED <<toPut, queued, inbox, printed, main>> /\ inflight' = <<>>
  BY DEF LoseConnection, ClientOnClose, sendVars
<1>2. Round' = Round /\ NextToSend' = NextToSend
  BY <1>1 DEF Round, NextToSend
<1>3. inflight' \in Seq(Pos) /\ DOMAIN inflight' = {}
  BY <1>1
<1>4. QED
  BY <1>1, <1>2, <1>3 DEF OrderInv, InOrder, PrintedBefore, AnswersOwnRound, Increasing, Below, Before

LEMMA OrderNext ==
  ASSUME Typed, UserKnown, OrderInv, [CliNext]_allVars
  PROVE  OrderInv'
<1>1. CASE PutRequest
  BY <1>1, OrderPut
<1>2. CASE PrintResponse
  BY <1>2, OrderPrint
<1>3. ASSUME NEW w \in Wsi, SendRequest(w)
      PROVE  OrderInv'
  <2>1. phase[w] = "established"
    BY <1>3 DEF SendRequest, ClientWriteableSend, WriteableSend, WriteableEvent
  <2>2. QED
    BY <1>3, <2>1, OrderSend DEF UserKnown
<1>4. ASSUME NEW w \in Wsi, ReceiveResponse(w) \/ LoseConnection(w)
      PROVE  OrderInv'
  BY <1>4, OrderReceive, OrderLose
<1>5. CASE ReadOption \/ ReadWild \/ Start \/ Timeout \/ Leave \/ Interrupt
           \/ CliFinished \/ UNCHANGED allVars
  <2>1. UNCHANGED <<toPut, queued, inflight, inbox, printed>> /\ (main' = main \/ main' # "reading")
    BY <1>5 DEF ReadOption, ReadWild, Start, Timeout, NextRound, Leave, Interrupt, CliFinished,
                allVars, vars, sendVars, cliVars
  <2>2. QED
    BY <2>1, OrderKept
<1>6. CASE StopClient \/ StopService \/ OtherSteps
  <2>1. UNCHANGED cliVars
    BY <1>6 DEF StopClient, StopService, OtherSteps
  <2>2. UNCHANGED <<toPut, queued>>
    BY <1>6 DEF StopClient, StopService, OtherSteps, Stop, ServiceExit, ProcessStep, ProcessRead,
                ProcessNoUrl, ProcessIdle, ProcessRequest, ProcessAborting, ProcessClosed, SendStep,
                TskSend, TskSendRequest, ExitStep, Disconect, DisconectRequest, ExitDone,
                ClientConnectFail, ClientConnectionError, ClientEstablished,
                ClientWriteableDisconnect, Prepare, Return, sendVars
  <2>3. QED
    BY <2>1, <2>2, OrderKept DEF cliVars
<1>7. QED
  BY <1>1, <1>2, <1>3, <1>4, <1>5, <1>6 DEF CliNext, MainStep, Threads

LEMMA OrderAlways == ASSUME ~SyncErrorCallback PROVE CliSpec => [](Typed /\ OrderInv)
<1>1. CliInit => OrderInv
  <2>1. CliInit => <<>> \in Seq(Pos) /\ DOMAIN <<>> = {}
    OBVIOUS
  <2>2. QED
    BY <2>1 DEF CliInit, OrderInv, InOrder, PrintedBefore, AnswersOwnRound, Increasing, Below, Before
<1>2. Spec => [](Typed /\ UserKnown)
  BY TypeCorrect, IInvAlways, PTL DEF Typed, IInv
<1>3. Typed /\ UserKnown /\ OrderInv /\ [CliNext]_allVars => OrderInv'
  BY OrderNext
<1>4. QED
  BY <1>1, <1>2, <1>3, UsesClient, PTL DEF CliSpec

\* Whatever times out and however often the connection is lost, a response is
\* printed in the round of its request or later, never twice and never out of order
\* (main.cpp:353-376).  libwebsockets is taken to report a failed attempt once.
THEOREM OwnAnswers == ASSUME ~SyncErrorCallback PROVE CliSpec => []AnswersOwnRound
<1>1. OrderInv => AnswersOwnRound
  BY DEF OrderInv
<1>2. QED
  BY <1>1, OrderAlways, PTL

-----------------------------------------------------------------------------
(* The request that the options build.                                     *)

LEMMA TreeStep == TreeInv /\ [CliNext]_allVars => TreeInv'
<1> SUFFICES ASSUME TreeInv, [CliNext]_allVars
             PROVE  TreeInv'
  OBVIOUS
<1>1. CASE ReadOption
  BY <1>1, OptionKept DEF ReadOption
<1>2. CASE Start
  <2>1. Tree(SubSeq(nodes, 1, 1)) /\ At(SubSeq(nodes, 1, 1), 1, <<>>)
    BY RootOnly
  <2>2. nodes' = SubSeq(nodes, 1, 1) /\ jcur' = 1 /\ parent' = <<>> /\ key' = NoName
    BY <1>2 DEF Start
  <2>3. QED
    BY <2>1, <2>2 DEF TreeInv, Tree, At, Paths, AliveAbove, Named, Names
<1>3. CASE UNCHANGED treeVars
  BY <1>3 DEF treeVars, TreeInv, Tree, At, Paths, AliveAbove, Named
<1>4. ~ReadOption /\ ~Start => UNCHANGED treeVars
  BY DEF CliNext, ReadWild, MainStep, PutRequest, PrintResponse, Timeout, Leave, StopClient,
         Interrupt, StopService, Threads, SendRequest, ReceiveResponse, LoseConnection,
         OtherSteps, CliFinished, allVars
<1>5. QED
  BY <1>1, <1>2, <1>3, <1>4

LEMMA TreeAlways == CliSpec => []TreeInv
<1>1. CliInit => TreeInv
  BY TreeInvInit DEF CliInit
<1>2. QED
  BY <1>1, TreeStep, PTL DEF CliSpec

\* Whatever options come in whatever order, the cursor and its stack are the way
\* from the root of the request, and no node on it but the cursor is ever freed
\* (main.cpp:85-297).
THEOREM CursorKept == CliSpec => []CursorOnPath
  BY TreeAlways, TreeInvSays, PTL

\* What the options make is always a tree, without two members of one name
\* (main.cpp:118-292).
THEOREM TreeKept == CliSpec => []RequestIsTree
  BY TreeAlways, TreeInvSays, PTL

-----------------------------------------------------------------------------
(* Types.                                                                  *)

MainTyped ==
    /\ main \in {"options", "wild", "loop", "reading", "stopping"}
    /\ loop \in BOOLEAN
    /\ exit_flag \in BOOLEAN

LEMMA MainStepTyped == MainTyped /\ [CliNext]_allVars => MainTyped'
<1> SUFFICES ASSUME MainTyped, [CliNext]_allVars
             PROVE  MainTyped'
  OBVIOUS
<1> USE DEF MainTyped
<1>1. CASE ReadOption \/ ReadWild \/ Start \/ Interrupt \/ Leave
  BY <1>1 DEF ReadOption, ReadWild, Start, Interrupt, Leave, cliVars
<1>2. CASE PutRequest \/ PrintResponse \/ Timeout
  BY <1>2 DEF PutRequest, PrintResponse, Timeout, NextRound
<1>3. CASE StopClient \/ StopService \/ Threads \/ CliFinished \/ UNCHANGED allVars
  BY <1>3 DEF StopClient, StopService, Threads, SendRequest, ReceiveResponse, LoseConnection,
              OtherSteps, CliFinished, allVars, cliVars
<1>4. QED
  BY <1>1, <1>2, <1>3 DEF CliNext, MainStep

\* A sequence whose elements all lie in a set is a sequence over that set.
LEMMA Bounded ==
  ASSUME NEW S, NEW T, NEW s \in Seq(S), \A i \in DOMAIN s : s[i] \in T
  PROVE  s \in Seq(T)
<1>1. Len(s) \in Nat /\ DOMAIN s = 1..Len(s) /\ s \in [1..Len(s) -> S]
  BY LenProperties
<1>2. s = [i \in 1..Len(s) |-> s[i]]
  BY <1>1
<1>3. \A i \in 1..Len(s) : s[i] \in T
  BY <1>1
<1>4. s \in [1..Len(s) -> T]
  BY <1>2, <1>3, Zenon
<1>5. QED
  BY <1>1, <1>4

LEMMA OrderBounds ==
  ASSUME Typed, OrderInv
  PROVE  /\ inflight \in Seq(1..MaxFrames) /\ inbox \in Seq(1..MaxFrames)
         /\ printed \in Seq([round : 1..MaxFrames, response : 1..MaxFrames])
<1>1. /\ MaxFrames \in Nat /\ Round \in Nat /\ NextToSend \in Pos
      /\ NextToSend <= Round + 1 /\ Round <= MaxFrames
  <2>1. toPut[cli] \in Nat /\ MaxFrames \in Nat
    BY RoundTyped
  <2>2. QED
    BY <2>1, RoundTyped DEF Round
<1>2. inflight \in Seq(Pos) /\ inbox \in Seq(Pos)
  BY DEF OrderInv, InOrder
<1>3. \A x \in Pos : x < NextToSend => x <= MaxFrames
  BY <1>1 DEF Pos
<1>4. /\ \A i \in DOMAIN inflight : inflight[i] \in 1..MaxFrames
      /\ \A i \in DOMAIN inbox : inbox[i] \in 1..MaxFrames
  <2>1. /\ \A i \in DOMAIN inflight : inflight[i] \in Pos
        /\ \A i \in DOMAIN inbox : inbox[i] \in Pos
    BY <1>2, LenProperties, ElementOfSeq
  <2>2. /\ \A i \in DOMAIN inflight : inflight[i] <= MaxFrames
        /\ \A i \in DOMAIN inbox : inbox[i] <= MaxFrames
    BY <1>3, <2>1 DEF OrderInv, InOrder, Below
  <2>3. QED
    BY <1>1, <2>1, <2>2 DEF Pos
<1>5. inflight \in Seq(1..MaxFrames) /\ inbox \in Seq(1..MaxFrames)
  BY <1>2, <1>4, Bounded
<1>6. /\ DOMAIN printed = 1..Len(printed) /\ Len(printed) \in Nat
      /\ printed \in [1..Len(printed) -> Line]
  BY LenProperties DEF OrderInv
<1>7. \A k \in 1..Len(printed) : printed[k] \in [round : 1..MaxFrames, response : 1..MaxFrames]
  <2> SUFFICES ASSUME NEW k \in 1..Len(printed)
               PROVE  printed[k] \in [round : 1..MaxFrames, response : 1..MaxFrames]
    OBVIOUS
  <2>1. printed[k] \in Line /\ printed[k].round \in Pos /\ printed[k].response \in Pos
    BY <1>6 DEF Line
  <2>2. /\ printed[k].round < Round + (IF main = "reading" THEN 0 ELSE 1)
        /\ printed[k].response < NextToSend
    BY <1>6 DEF OrderInv, PrintedBefore
  <2>3. printed[k].round \in 1..MaxFrames /\ printed[k].response \in 1..MaxFrames
    BY <1>1, <1>3, <2>1, <2>2 DEF Pos
  <2>4. QED
    BY <2>1, <2>3 DEF Line
<1>8. printed \in Seq(Line)
  BY DEF OrderInv
<1>9. printed \in Seq([round : 1..MaxFrames, response : 1..MaxFrames])
  <2>1. \A k \in DOMAIN printed :
          printed[k] \in [round : 1..MaxFrames, response : 1..MaxFrames]
    BY <1>6, <1>7, Zenon
  <2>2. QED
    BY <1>8, <2>1, Bounded, Zenon
<1>10. QED
  BY <1>5, <1>9, Zenon

\* Types: what is under way, in the buffer or printed is a request that has been
\* put, and the cursor a node there is (main.cpp:57-391).
THEOREM CliTypeCorrect == ASSUME ~SyncErrorCallback PROVE CliSpec => []CliTypeOK
<1>1. CliInit => MainTyped
  BY DEF CliInit, MainTyped
<1>2. CliSpec => []MainTyped
  BY <1>1, MainStepTyped, PTL DEF CliSpec
<1>3. Typed /\ OrderInv /\ MainTyped /\ TreeInv => CliTypeOK
  BY OrderBounds, TreeInvSays DEF CliTypeOK, MainTyped
<1>4. QED
  BY <1>2, <1>3, OrderAlways, TreeAlways, PTL
=============================================================================
