----------------------- MODULE ObjectDispatch_proofs -----------------------
(***************************************************************************)
(* Theorems about ObjectDispatch: for any objects, handlers and requests.  *)
(***************************************************************************)
EXTENDS ObjectDispatch, WsApp_proofs, SequenceTheorems, FiniteSetTheorems, WellFoundedInduction

\* The responses there can be; callbacks_ does not change after init().
Answers == [id : Nat, status : {Status(callbacks_[o]) : o \in Object}]

Queues ==
    /\ asked \in [Callback -> Seq(Object)]
    /\ received \in [Callback -> Nat]
    /\ resps_ \in [Callback -> Seq(Answers)]
    /\ got \in [Callback -> Seq(Answers)]

\* What a client has got are the answers to its first requests, and what is
\* queued for it are those to the next ones.
InOrder(c) ==
    /\ received[c] <= Len(asked[c])
    /\ Len(got[c]) + Len(resps_[c]) = received[c]
    /\ \A k \in 1..Len(got[c]) : got[c][k] = Answer(c, k)
    /\ \A k \in 1..Len(resps_[c]) : resps_[c][k] = Answer(c, Len(got[c]) + k)

AnswerInv == Queues /\ \A c \in Callback : InOrder(c)

LEMMA AnswersSame == callbacks_' = callbacks_ => Answers' = Answers
  BY DEF Answers

\* The first n answers of a connection.
LEMMA AnswerSame ==
  ASSUME NEW c \in Callback, NEW k, callbacks_' = callbacks_, asked'[c][k] = asked[c][k]
  PROVE  Answer(c, k)' = Answer(c, k)
  BY DEF Answer

LEMMA AnswerInvInit == Init => AnswerInv
<1> SUFFICES ASSUME Init
             PROVE  AnswerInv
  OBVIOUS
<1>1. Queues
  BY DEF Init, Queues
<1>2. ASSUME NEW c \in Callback
      PROVE  InOrder(c)
  <2>1. asked[c] = <<>> /\ received[c] = 0 /\ resps_[c] = <<>> /\ got[c] = <<>>
    BY DEF Init
  <2>2. QED
    BY <2>1 DEF InOrder
<1>3. QED
  BY <1>1, <1>2 DEF AnswerInv

\* A step leaves a connection in order if it leaves its queues alone.
LEMMA InOrderFrame ==
  ASSUME NEW c \in Callback, InOrder(c), callbacks_' = callbacks_,
         asked'[c] = asked[c], received'[c] = received[c],
         resps_'[c] = resps_[c], got'[c] = got[c]
  PROVE  InOrder(c)'
  BY DEF InOrder, Answer

LEMMA AnswerInvFrame ==
  AnswerInv /\ UNCHANGED <<callbacks_, asked, received, resps_, got>> => AnswerInv'
<1> SUFFICES ASSUME AnswerInv, UNCHANGED <<callbacks_, asked, received, resps_, got>>
             PROVE  AnswerInv'
  OBVIOUS
<1>1. Queues'
  BY AnswersSame DEF AnswerInv, Queues
<1>2. \A c \in Callback : InOrder(c)'
  BY InOrderFrame DEF AnswerInv
<1>3. QED
  BY <1>1, <1>2 DEF AnswerInv

\* A new connection has asked nothing.
LEMMA AnswerInvCreate ==
  ASSUME AnswerInv, NEW w \in Wsi, NEW c \in Callback, Create(w, c)
  PROVE  AnswerInv'
<1>1. /\ asked' = [asked EXCEPT ![c] = <<>>]
      /\ received' = [received EXCEPT ![c] = 0]
      /\ resps_' = [resps_ EXCEPT ![c] = <<>>]
      /\ got' = [got EXCEPT ![c] = <<>>]
      /\ callbacks_' = callbacks_
  BY DEF Create, dispatchVars
<1>2. Queues'
  <2>1. Answers' = Answers
    BY <1>1, AnswersSame
  <2>2. QED
    BY <1>1, <2>1 DEF AnswerInv, Queues
<1>3. ASSUME NEW d \in Callback
      PROVE  InOrder(d)'
  <2>1. CASE d = c
    <3>1. asked'[c] = <<>> /\ received'[c] = 0 /\ resps_'[c] = <<>> /\ got'[c] = <<>>
      BY <1>1 DEF AnswerInv, Queues
    <3>2. QED
      BY <2>1, <3>1 DEF InOrder
  <2>2. CASE d # c
    BY <1>1, <2>2, InOrderFrame DEF AnswerInv, Queues
  <2>3. QED
    BY <2>1, <2>2
<1>4. QED
  BY <1>2, <1>3 DEF AnswerInv

\* A further request of connection_context c leaves those before it as they are.
LEMMA AnswerInvAsk ==
  ASSUME AnswerInv, NEW c \in Callback, NEW o \in Object,
         asked' = [asked EXCEPT ![c] = Append(@, o)],
         UNCHANGED <<callbacks_, received, resps_, got>>
  PROVE  AnswerInv'
<1>1. Queues
  BY DEF AnswerInv
<1>2. /\ asked[c] \in Seq(Object) /\ received[c] \in Nat /\ Len(asked[c]) \in Nat
      /\ Len(got[c]) \in Nat /\ Len(resps_[c]) \in Nat
      /\ asked'[c] = Append(asked[c], o)
  BY DEF AnswerInv, Queues
<1>3. /\ Append(asked[c], o) \in Seq(Object)
      /\ Len(asked'[c]) = Len(asked[c]) + 1
      /\ \A k \in 1..Len(asked[c]) : asked'[c][k] = asked[c][k]
  BY <1>2, AppendProperties
<1>4. Queues'
  <2>1. Answers' = Answers
    BY AnswersSame
  <2>2. QED
    BY <1>2, <1>3, <2>1 DEF AnswerInv, Queues
<1>5. InOrder(c)'
  <2>1. received[c] <= Len(asked[c]) /\ Len(got[c]) + Len(resps_[c]) = received[c]
    BY DEF AnswerInv, InOrder
  <2>2. /\ \A k \in 1..Len(got[c]) : got[c][k] = Answer(c, k)
        /\ \A k \in 1..Len(resps_[c]) : resps_[c][k] = Answer(c, Len(got[c]) + k)
    BY DEF AnswerInv, InOrder
  <2>3. \A k \in 1..received[c] : Answer(c, k)' = Answer(c, k)
    <3>1. \A k \in 1..received[c] : k \in 1..Len(asked[c])
      BY <1>1, <2>1 DEF Queues
    <3>2. QED
      BY <1>3, <3>1, AnswerSame
  <2>4. \A k \in 1..Len(got[c]) : k \in 1..received[c]
    BY <1>1, <2>1 DEF Queues
  <2>5. \A k \in 1..Len(resps_[c]) : Len(got[c]) + k \in 1..received[c]
    BY <1>1, <2>1 DEF Queues
  <2>6. received[c] <= Len(asked'[c])
    BY <1>1, <1>3, <2>1 DEF Queues
  <2>7. QED
    BY <2>1, <2>2, <2>3, <2>4, <2>5, <2>6 DEF InOrder
<1>6. ASSUME NEW d \in Callback, d # c
      PROVE  InOrder(d)'
  BY <1>6, InOrderFrame DEF AnswerInv, Queues
<1>7. QED
  BY <1>4, <1>5, <1>6 DEF AnswerInv

\* process() queues the answer to the request that was received.
LEMMA AnswerInvProcess ==
  ASSUME AnswerInv, NEW c \in Callback,
         received[c] < Len(asked[c]),
         received' = [received EXCEPT ![c] = @ + 1],
         resps_' = [resps_ EXCEPT ![c] = Append(@, Answer(c, received[c] + 1))],
         UNCHANGED <<callbacks_, asked, got>>
  PROVE  AnswerInv'
<1>1. Queues
  BY DEF AnswerInv
<1>2. /\ asked[c] \in Seq(Object) /\ received[c] \in Nat /\ Len(asked[c]) \in Nat
      /\ resps_[c] \in Seq(Answers) /\ Len(got[c]) \in Nat /\ Len(resps_[c]) \in Nat
  BY DEF AnswerInv, Queues
<1>3. PICK a : a = Answer(c, received[c] + 1)
  OBVIOUS
<1>4. a \in Answers
  <2>1. received[c] + 1 \in 1..Len(asked[c])
    BY <1>2
  <2>2. asked[c][received[c] + 1] \in Object
    BY <1>2, <2>1, ElementOfSeq
  <2>3. QED
    BY <1>3, <2>1, <2>2 DEF Answer, Answers
<1>5. received'[c] = received[c] + 1 /\ resps_'[c] = Append(resps_[c], a)
  BY <1>3 DEF AnswerInv, Queues
<1>6. /\ Append(resps_[c], a) \in Seq(Answers)
      /\ Len(resps_'[c]) = Len(resps_[c]) + 1
      /\ \A k \in 1..Len(resps_[c]) : resps_'[c][k] = resps_[c][k]
      /\ resps_'[c][Len(resps_[c]) + 1] = a
  BY <1>2, <1>4, <1>5, AppendProperties
<1>7. Queues'
  <2>1. Answers' = Answers
    BY AnswersSame
  <2>2. resps_' \in [Callback -> Seq(Answers)]
    BY <1>3, <1>6 DEF AnswerInv, Queues
  <2>3. received' \in [Callback -> Nat]
    BY <1>2 DEF AnswerInv, Queues
  <2>4. QED
    BY <2>1, <2>2, <2>3 DEF AnswerInv, Queues
<1>8. InOrder(c)'
  <2>1. received[c] <= Len(asked[c]) /\ Len(got[c]) + Len(resps_[c]) = received[c]
    BY DEF AnswerInv, InOrder
  <2>2. /\ \A k \in 1..Len(got[c]) : got[c][k] = Answer(c, k)
        /\ \A k \in 1..Len(resps_[c]) : resps_[c][k] = Answer(c, Len(got[c]) + k)
    BY DEF AnswerInv, InOrder
  <2>3. \A k \in Nat : Answer(c, k)' = Answer(c, k)
    BY AnswerSame
  <2>4. Len(got[c]) + (Len(resps_[c]) + 1) = received[c] + 1
    BY <1>1, <2>1 DEF Queues
  <2>5. \A k \in 1..(Len(resps_[c]) + 1) : resps_'[c][k] = Answer(c, Len(got[c]) + k)
    <3> SUFFICES ASSUME NEW k \in 1..(Len(resps_[c]) + 1)
                 PROVE  resps_'[c][k] = Answer(c, Len(got[c]) + k)
      OBVIOUS
    <3>1. CASE k \in 1..Len(resps_[c])
      BY <1>6, <2>2, <3>1
    <3>2. CASE k = Len(resps_[c]) + 1
      BY <1>3, <1>6, <2>4, <3>2
    <3>3. QED
      BY <1>2, <3>1, <3>2
  <2>6. \A k \in 1..Len(got[c]) : k \in Nat
    OBVIOUS
  <2>7. \A k \in 1..(Len(resps_[c]) + 1) : Len(got[c]) + k \in Nat
    BY <1>2
  <2>8. received'[c] <= Len(asked'[c]) /\ Len(got'[c]) + Len(resps_'[c]) = received'[c]
    <3>1. Len(resps_'[c]) = Len(resps_[c]) + 1 /\ received'[c] = received[c] + 1
      BY <1>5, <1>6
    <3>2. QED
      BY <1>1, <2>1, <3>1, <1>7 DEF Queues
  <2>9. QED
    BY <1>6, <2>2, <2>3, <2>5, <2>6, <2>7, <2>8 DEF InOrder
<1>9. ASSUME NEW d \in Callback, d # c
      PROVE  InOrder(d)'
  BY <1>9, InOrderFrame DEF AnswerInv, Queues
<1>10. QED
  BY <1>7, <1>8, <1>9 DEF AnswerInv

\* on_send() moves the first response of the queue to the client.
LEMMA AnswerInvOnSend ==
  ASSUME AnswerInv, NEW c \in Callback, resps_[c] # <<>>, OnSend(c),
         UNCHANGED <<callbacks_, asked, received>>
  PROVE  AnswerInv'
<1>1. Queues
  BY DEF AnswerInv
<1>2. /\ got[c] \in Seq(Answers) /\ resps_[c] \in Seq(Answers) /\ received[c] \in Nat
      /\ Len(got[c]) \in Nat /\ Len(resps_[c]) \in Nat
      /\ got'[c] = Append(got[c], Head(resps_[c])) /\ resps_'[c] = Tail(resps_[c])
  BY DEF OnSend, AnswerInv, Queues
<1>3. /\ Head(resps_[c]) \in Answers /\ Head(resps_[c]) = resps_[c][1] /\ Len(resps_[c]) # 0
      /\ Tail(resps_[c]) \in Seq(Answers) /\ Len(resps_'[c]) = Len(resps_[c]) - 1
      /\ \A k \in 1..(Len(resps_[c]) - 1) : resps_'[c][k] = resps_[c][k + 1]
  BY <1>2, HeadTailProperties
<1>4. /\ Append(got[c], Head(resps_[c])) \in Seq(Answers)
      /\ Len(got'[c]) = Len(got[c]) + 1
      /\ \A k \in 1..Len(got[c]) : got'[c][k] = got[c][k]
      /\ got'[c][Len(got[c]) + 1] = resps_[c][1]
  BY <1>2, <1>3, AppendProperties
<1>5. Queues'
  <2>1. Answers' = Answers
    BY AnswersSame
  <2>2. got' \in [Callback -> Seq(Answers)] /\ resps_' \in [Callback -> Seq(Answers)]
    BY <1>3, <1>4 DEF OnSend, AnswerInv, Queues
  <2>3. QED
    BY <2>1, <2>2 DEF AnswerInv, Queues
<1>6. InOrder(c)'
  <2>1. received[c] <= Len(asked[c]) /\ Len(got[c]) + Len(resps_[c]) = received[c]
    BY DEF AnswerInv, InOrder
  <2>2. /\ \A k \in 1..Len(got[c]) : got[c][k] = Answer(c, k)
        /\ \A k \in 1..Len(resps_[c]) : resps_[c][k] = Answer(c, Len(got[c]) + k)
    BY DEF AnswerInv, InOrder
  <2>3. \A k \in Nat : Answer(c, k)' = Answer(c, k)
    BY AnswerSame
  <2>4. ASSUME NEW k \in 1..(Len(got[c]) + 1)
        PROVE  got'[c][k] = Answer(c, k)'
    <3>1. CASE k \in 1..Len(got[c])
      BY <1>4, <2>2, <2>3, <3>1
    <3>2. CASE k = Len(got[c]) + 1
      <4>1. 1 \in 1..Len(resps_[c])
        BY <1>2, <1>3
      <4>2. QED
        BY <1>2, <1>4, <2>2, <2>3, <3>2, <4>1
    <3>3. QED
      BY <1>2, <3>1, <3>2
  <2>5. PICK n \in Nat : n = Len(got[c]) + 1
    BY <1>1 DEF Queues
  <2>6. ASSUME NEW k \in 1..(Len(resps_[c]) - 1)
        PROVE  resps_'[c][k] = Answer(c, n + k)'
    <3>1. k + 1 \in 1..Len(resps_[c]) /\ Len(got[c]) + (k + 1) = n + k /\ n + k \in Nat
      BY <1>1, <2>5 DEF Queues
    <3>2. resps_[c][k + 1] = Answer(c, n + k)
      BY <2>2, <3>1
    <3>3. QED
      BY <1>3, <2>3, <3>1, <3>2
  <2>7. received'[c] <= Len(asked'[c]) /\ Len(got'[c]) + Len(resps_'[c]) = received'[c]
    <3>1. Len(resps_'[c]) = Len(resps_[c]) - 1 /\ Len(got'[c]) = Len(got[c]) + 1
      BY <1>3, <1>4
    <3>2. QED
      BY <1>1, <2>1, <3>1, <1>5 DEF Queues
  <2>8. QED
    <3>1. Len(got'[c]) = n /\ \A k \in 1..Len(got'[c]) : got'[c][k] = Answer(c, k)'
      BY <1>4, <2>4, <2>5
    <3>2. \A k \in 1..Len(resps_'[c]) : resps_'[c][k] = Answer(c, n + k)'
      BY <1>3, <2>6
    <3>3. QED
      BY <2>7, <3>1, <3>2 DEF InOrder
<1>7. ASSUME NEW d \in Callback, d # c
      PROVE  InOrder(d)'
  BY <1>7, InOrderFrame DEF OnSend, AnswerInv, Queues
<1>8. QED
  BY <1>5, <1>6, <1>7 DEF AnswerInv

\* There is no reading or writing for what is no connection_context.
LEMMA OutsideCallback ==
  ASSUME Queues, NEW c, c \notin Callback
  PROVE  /\ \A e : [asked EXCEPT ![c] = e] = asked
         /\ \A e : [received EXCEPT ![c] = e] = received
         /\ \A e : [resps_ EXCEPT ![c] = e] = resps_
         /\ \A e : [got EXCEPT ![c] = e] = got
  BY DEF Queues

LEMMA AnswerInvNext == AnswerInv /\ [Next]_vars => AnswerInv'
<1> SUFFICES ASSUME AnswerInv, [Next]_vars
             PROVE  AnswerInv'
  OBVIOUS
<1>1. ASSUME NEW w \in Wsi, NEW c \in Callback, Create(w, c)
      PROVE  AnswerInv'
  BY <1>1, AnswerInvCreate
<1>2. ASSUME NEW w \in Wsi, NEW o \in Object, Ask(w, o)
      PROVE  AnswerInv'
  <2>1. PICK c : c = user[w]
    OBVIOUS
  <2>2. /\ asked' = [asked EXCEPT ![c] = Append(@, o)]
        /\ UNCHANGED <<callbacks_, received, resps_, got>>
    BY <1>2, <2>1 DEF Ask, dispatchVars
  <2>3. CASE c \in Callback
    BY <2>2, <2>3, AnswerInvAsk
  <2>4. CASE c \notin Callback
    BY <2>2, <2>4, OutsideCallback, AnswerInvFrame DEF AnswerInv
  <2>5. QED
    BY <2>3, <2>4
<1>3. ASSUME NEW w \in Wsi, Receive(w)
      PROVE  AnswerInv'
  <2>1. PICK c : c = user[w]
    OBVIOUS
  <2>2. /\ received[c] < Len(asked[c])
        /\ received' = [received EXCEPT ![c] = @ + 1]
        /\ resps_' = [resps_ EXCEPT ![c] = Append(@, Answer(c, received[c] + 1))]
        /\ UNCHANGED <<callbacks_, asked, got>>
    BY <1>3, <2>1 DEF Receive, Process, dispatchVars
  <2>3. CASE c \in Callback
    BY <2>2, <2>3, AnswerInvProcess
  <2>4. CASE c \notin Callback
    BY <2>2, <2>4, OutsideCallback, AnswerInvFrame DEF AnswerInv
  <2>5. QED
    BY <2>3, <2>4
<1>4. ASSUME NEW w \in Wsi, OnWriteable(w)
      PROVE  AnswerInv'
  <2>1. PICK c : c = user[w]
    OBVIOUS
  <2>2. resps_[c] # <<>> /\ OnSend(c) /\ UNCHANGED <<callbacks_, asked, received>>
    BY <1>4, <2>1 DEF OnWriteable, OnSend, dispatchVars, peerVars
  <2>3. CASE c \in Callback
    BY <2>2, <2>3, AnswerInvOnSend
  <2>4. CASE c \notin Callback
    <3>1. got' = got /\ resps_' = resps_
      BY <2>2, <2>4, OutsideCallback DEF AnswerInv, OnSend
    <3>2. QED
      BY <2>2, <3>1, AnswerInvFrame
  <2>5. QED
    BY <2>3, <2>4
<1>5. ASSUME \/ \E w \in Wsi : Refuse(w) \/ Close(w) \/ OnWriteableIdle(w)
             \/ Prepare \/ Return \/ Ended \/ UNCHANGED vars
      PROVE  AnswerInv'
  <2>1. UNCHANGED <<callbacks_, asked, received, resps_, got>>
    BY <1>5 DEF Refuse, Close, OnWriteableIdle, Prepare, Return, Ended, vars,
                dispatchVars, peerVars
  <2>2. QED
    BY <2>1, AnswerInvFrame
<1>6. QED
  BY <1>1, <1>2, <1>3, <1>4, <1>5 DEF Next, Step, Writeable

\* Whatever handlers there are and however requests, responses and the ends of
\* connections interleave, the responses of a client are those to its requests,
\* in their order, each once.
THEOREM ResponsesInOrder == Spec => []AnswersInOrder
<1>1. AnswerInv => AnswersInOrder
  <2> SUFFICES ASSUME AnswerInv, NEW c \in Callback
               PROVE  /\ received[c] <= Len(asked[c])
                      /\ Len(got[c]) + Len(resps_[c]) = received[c]
                      /\ \A k \in 1..received[c] : (got[c] \o resps_[c])[k] = Answer(c, k)
    BY DEF AnswersInOrder, Answer
  <2>1. Queues
    BY DEF AnswerInv
  <2>2. received[c] <= Len(asked[c]) /\ Len(got[c]) + Len(resps_[c]) = received[c]
    BY DEF AnswerInv, InOrder
  <2>3. /\ \A k \in 1..Len(got[c]) : got[c][k] = Answer(c, k)
        /\ \A k \in 1..Len(resps_[c]) : resps_[c][k] = Answer(c, Len(got[c]) + k)
    BY DEF AnswerInv, InOrder
  <2>4. \A k \in 1..received[c] :
           (got[c] \o resps_[c])[k] = IF k <= Len(got[c]) THEN got[c][k] ELSE resps_[c][k - Len(got[c])]
    BY <2>2, <2>1, ConcatProperties DEF Queues
  <2>5. ASSUME NEW k \in 1..received[c]
        PROVE  (got[c] \o resps_[c])[k] = Answer(c, k)
    <3>1. CASE k <= Len(got[c])
      <4>1. k \in 1..Len(got[c])
        BY <2>1, <3>1 DEF Queues
      <4>2. QED
        BY <2>3, <2>4, <3>1, <4>1
    <3>2. CASE ~(k <= Len(got[c]))
      <4>1. /\ k - Len(got[c]) \in 1..Len(resps_[c])
            /\ Len(got[c]) + (k - Len(got[c])) = k
        BY <2>2, <2>1, <3>2 DEF Queues
      <4>2. resps_[c][k - Len(got[c])] = Answer(c, k)
        BY <2>3, <4>1
      <4>3. QED
        BY <2>4, <3>2, <4>2
    <3>3. QED
      BY <3>1, <3>2
  <2>6. QED
    BY <2>2, <2>5
<1>2. QED
  BY <1>1, AnswerInvInit, AnswerInvNext, PTL DEF Spec

-----------------------------------------------------------------------------
(* Types.                                                                  *)

\* A set of numbers has a least one, and one with a bound a greatest.
LEMMA LeastNatural ==
  ASSUME NEW T, T \subseteq Nat, T # {}
  PROVE  \E x \in T : \A y \in T : x <= y
<1> DEFINE R == OpToRel(<, Nat)
<1>1. IsWellFoundedOn(R, Nat)
  BY NatLessThanWellFounded
<1> HIDE DEF R
<1>2. PICK x \in T : \A y \in T : <<y, x>> \notin R
  BY <1>1, WFMin
<1>3. \A y \in T : ~(y < x)
  BY <1>2 DEF R, OpToRel
<1>4. QED
  BY <1>3

LEMMA MinOf ==
  ASSUME NEW T, T \subseteq Nat, T # {}
  PROVE  Min(T) \in T
  BY LeastNatural DEF Min

LEMMA MaxOf ==
  ASSUME NEW n \in Nat, NEW T, T \subseteq 0..n, T # {}
  PROVE  Max(T) \in T
<1> DEFINE U == {n - x : x \in T}
<1>1. U \subseteq Nat /\ U # {}
  <2>1. \A x \in T : x \in 0..n
    OBVIOUS
  <2>2. \A x \in T : n - x \in Nat
    BY <2>1
  <2>3. QED
    BY <2>2
<1>2. PICK u \in U : \A y \in U : u <= y
  BY <1>1, LeastNatural
<1>3. PICK x \in T : u = n - x
  BY <1>2
<1>4. \A y \in T : n - x <= n - y
  BY <1>2, <1>3
<1>5. \A y \in T : x >= y
  BY <1>4
<1>6. QED
  BY <1>5 DEF Max

\* Every list of handlers leaves a status.
LEMMA StatusTyped ==
  ASSUME NEW list \in Seq(Handler)
  PROVE  Status(list) \in Nat
<1> DEFINE stops == {i \in DOMAIN list : list[i] \in Stops}
           sets == {i \in 1..Ran(list) : Sets[list[i]] # 0}
<1>1. Ran(list) \in 0..Len(list)
  <2>1. Len(list) \in Nat /\ DOMAIN list = 1..Len(list)
    OBVIOUS
  <2>2. CASE stops = {}
    BY <2>1, <2>2 DEF Ran
  <2>3. CASE stops # {}
    <3>1. Min(stops) \in stops
      <4>1. stops \subseteq Nat
        BY <2>1
      <4>2. QED
        BY <2>3, <4>1, MinOf
    <3>2. Ran(list) = Min(stops)
      BY <2>3 DEF Ran
    <3>3. QED
      BY <2>1, <3>1, <3>2
  <2>4. QED
    BY <2>2, <2>3
<1>2. CASE sets = {}
  BY <1>2 DEF Status
<1>3. CASE sets # {}
  <2>1. Max(sets) \in sets
    <3>1. sets \subseteq 0..Len(list) /\ Len(list) \in Nat
      BY <1>1
    <3>2. QED
      BY <1>3, <3>1, MaxOf
  <2>2. Max(sets) \in 1..Len(list)
    BY <1>1, <2>1
  <2>3. list[Max(sets)] \in Handler
    BY <2>2, ElementOfSeq
  <2>4. Sets[list[Max(sets)]] \in Nat
    BY <2>3, ObjectDispatchAssumption
  <2>5. Status(list) = Sets[list[Max(sets)]]
    BY <1>3 DEF Status
  <2>6. QED
    BY <2>4, <2>5
<1>4. QED
  BY <1>2, <1>3

\* The types that are left, with the bound on requests.
Typed ==
    /\ AppTypeOK
    /\ installed \in BOOLEAN
    /\ callbacks_ \in [Object -> Seq(Handler)]
    /\ crashed \in BOOLEAN
    /\ \A c \in Callback : Len(asked[c]) <= MaxRequests

LEMMA TypedInit == Init => Typed
<1> SUFFICES ASSUME Init
             PROVE  Typed
  OBVIOUS
<1>1. AppTypeOK
  BY AppInitTyped DEF Init
<1>2. callbacks_ \in [Object -> Seq(Handler)]
  <2>1. ASSUME NEW o \in Object
        PROVE  callbacks_[o] \in Seq(Handler)
    <3>1. callbacks_[o] \in [1..Cardinality(Handlers[o]) -> Handlers[o]]
      BY DEF Init, Orders
    <3>2. Cardinality(Handlers[o]) \in Nat /\ Handlers[o] \subseteq Handler
      BY FS_CardinalityType, ObjectDispatchAssumption
    <3>3. QED
      BY <3>1, <3>2
  <2>2. callbacks_ \in [Object -> UNION {Orders(Handlers[o]) : o \in Object}]
    BY DEF Init
  <2>3. QED
    BY <2>1, <2>2
<1>3. \A c \in Callback : Len(asked[c]) <= MaxRequests
  BY ObjectDispatchAssumption DEF Init
<1>4. installed \in BOOLEAN
  BY ObjectDispatchAssumption DEF Init
<1>5. QED
  BY <1>1, <1>2, <1>3, <1>4 DEF Init, Typed

LEMMA TypedNext == AnswerInv /\ Typed /\ [Next]_vars => Typed'
<1> SUFFICES ASSUME AnswerInv, Typed, [Next]_vars
             PROVE  Typed'
  OBVIOUS
<1>1. AppTypeOK
  BY DEF Typed
<1>2. ASSUME UNCHANGED appVars
      PROVE  AppTypeOK'
  BY <1>1, <1>2 DEF AppTypeOK, appVars, serviceVars, setVars, lwsVars
<1>3. ASSUME AppTypeOK', UNCHANGED <<dispatchVars, asked>>
      PROVE  Typed'
  BY <1>3 DEF Typed, dispatchVars
<1>4. ASSUME NEW w \in Wsi, NEW c \in Callback, Create(w, c)
      PROVE  Typed'
  <2>1. AppTypeOK'
    BY <1>1, <1>4, ServerEstablishedTyped DEF Create
  <2>2. \A d \in Callback : Len(asked'[d]) <= MaxRequests
    BY <1>4, ObjectDispatchAssumption DEF Create, Typed, AnswerInv, Queues
  <2>3. QED
    BY <1>4, <2>1, <2>2 DEF Create, Typed, dispatchVars
<1>5. ASSUME NEW w \in Wsi, NEW o \in Object, Ask(w, o)
      PROVE  Typed'
  <2>1. AppTypeOK' /\ UNCHANGED dispatchVars
    BY <1>2, <1>5 DEF Ask
  <2>2. ASSUME NEW d \in Callback
        PROVE  Len(asked'[d]) <= MaxRequests
    <3>1. CASE d = user[w]
      <4>1. asked'[d] = Append(asked[d], o) /\ Len(asked[d]) < MaxRequests
        BY <1>5, <3>1 DEF Ask, AnswerInv, Queues
      <4>2. asked[d] \in Seq(Object)
        BY DEF AnswerInv, Queues
      <4>3. Len(asked'[d]) = Len(asked[d]) + 1 /\ Len(asked[d]) \in Nat
        BY <4>1, <4>2, AppendProperties
      <4>4. QED
        BY <4>1, <4>3, ObjectDispatchAssumption
    <3>2. CASE d # user[w]
      BY <1>5, <3>2 DEF Ask, AnswerInv, Queues, Typed
    <3>3. QED
      BY <3>1, <3>2
  <2>3. QED
    BY <2>1, <2>2 DEF Typed, dispatchVars
<1>6. ASSUME NEW w \in Wsi, Refuse(w) \/ Close(w) \/ Writeable(w)
      PROVE  Typed'
  <2>1. PICK rearm \in BOOLEAN :
           ServerRefused(w) \/ ServerClosed(w) \/ ServerWriteable(w, rearm)
    BY <1>6 DEF Refuse, Close, Writeable, OnWriteable, OnWriteableIdle
  <2>2. AppTypeOK'
    BY <1>1, <2>1, ServerEventTyped
  <2>3. /\ UNCHANGED <<installed, callbacks_, asked>>
        /\ crashed' \in BOOLEAN
    BY <1>6 DEF Refuse, Close, Writeable, OnWriteable, OnWriteableIdle, Typed, dispatchVars,
                peerVars
  <2>4. QED
    BY <2>2, <2>3 DEF Typed
<1>7. ASSUME NEW w \in Wsi, Receive(w)
      PROVE  Typed'
  <2>1. PICK v \in Wsi : RequestToSend(v)
    BY <1>7 DEF Receive, Process
  <2>2. AppTypeOK'
    BY <1>1, <2>1, RequestTyped
  <2>3. QED
    BY <1>3, <1>7, <2>2 DEF Receive
<1>8. CASE Prepare \/ Return
  <2>1. TskInit \/ PrepareBegin \/ PrepareEnd \/ CallbackReturn \/ ServiceReturn
    BY <1>8 DEF Prepare, Return
  <2>2. AppTypeOK'
    BY <1>1, <2>1, ServiceTyped
  <2>3. QED
    BY <1>3, <1>8, <2>2 DEF Prepare, Return, peerVars
<1>9. CASE Ended \/ UNCHANGED vars
  BY <1>2, <1>3, <1>9 DEF Ended, vars, peerVars
<1>10. QED
  BY <1>4, <1>5, <1>6, <1>7, <1>8, <1>9 DEF Next, Step

\* A response in a client's queue, or with the client, has the id of a request
\* and a status, whatever the handlers and their order.
LEMMA ResponsesTyped ==
  ASSUME AnswerInv, Typed, NEW c \in Callback, NEW q \in Seq(Answers), NEW n \in Nat,
         n + Len(q) <= received[c], \A k \in 1..Len(q) : q[k] = Answer(c, n + k)
  PROVE  q \in Seq(Response)
<1>1. Len(q) \in Nat /\ DOMAIN q = 1..Len(q) /\ q = [k \in 1..Len(q) |-> q[k]]
  OBVIOUS
<1>2. /\ received[c] \in Nat /\ Len(asked[c]) \in Nat /\ received[c] <= Len(asked[c])
      /\ Len(asked[c]) <= MaxRequests /\ asked[c] \in Seq(Object)
  BY DEF AnswerInv, Queues, InOrder, Typed
<1>3. ASSUME NEW k \in 1..Len(q)
      PROVE  q[k] \in Response
  <2>1. n + k \in 1..Len(asked[c]) /\ n + k \in 1..MaxRequests
    BY <1>1, <1>2, ObjectDispatchAssumption
  <2>2. asked[c][n + k] \in Object
    BY <1>2, <2>1, ElementOfSeq
  <2>3. callbacks_[asked[c][n + k]] \in Seq(Handler)
    BY <2>2 DEF Typed
  <2>4. Status(callbacks_[asked[c][n + k]]) \in Nat
    BY <2>3, StatusTyped
  <2>5. Answer(c, n + k) \in Response
    BY <2>1, <2>4 DEF Answer, Response
  <2>6. QED
    BY <2>5
<1>4. q \in [1..Len(q) -> Response]
  BY <1>1, <1>3
<1>5. QED
  BY <1>1, <1>4

\* The types of the variables: every response has the id of a request of its
\* connection, and a status (object_callback.h:72-94).
THEOREM TypeCorrect == Spec => []TypeOK
<1>1. ASSUME AnswerInv, Typed
      PROVE  TypeOK
  <2>1. ASSUME NEW c \in Callback
        PROVE  /\ received[c] \in 0..MaxRequests
               /\ resps_[c] \in Seq(Response)
               /\ got[c] \in Seq(Response)
    <3>1. /\ received[c] \in Nat /\ Len(asked[c]) \in Nat
          /\ got[c] \in Seq(Answers) /\ resps_[c] \in Seq(Answers)
          /\ Len(got[c]) \in Nat /\ Len(resps_[c]) \in Nat
      BY <1>1 DEF AnswerInv, Queues
    <3>2. /\ received[c] <= Len(asked[c]) /\ Len(asked[c]) <= MaxRequests
          /\ Len(got[c]) + Len(resps_[c]) = received[c]
          /\ \A k \in 1..Len(got[c]) : got[c][k] = Answer(c, k)
          /\ \A k \in 1..Len(resps_[c]) : resps_[c][k] = Answer(c, Len(got[c]) + k)
      BY <1>1 DEF AnswerInv, InOrder, Typed
    <3>3. got[c] \in Seq(Response)
      <4>1. \A k \in 1..Len(got[c]) : 0 + k = k
        OBVIOUS
      <4>2. \A k \in 1..Len(got[c]) : got[c][k] = Answer(c, 0 + k)
        BY <3>2, <4>1
      <4>3. \A a, b, d \in Nat : a + b = d => 0 + a <= d
        OBVIOUS
      <4>4. 0 \in Nat /\ 0 + Len(got[c]) <= received[c]
        BY <3>1, <3>2, <4>3
      <4>5. QED
        BY <1>1, <3>1, <4>2, <4>4, ResponsesTyped
    <3>4. resps_[c] \in Seq(Response)
      <4>1. \A a, b, d \in Nat : a + b = d => a + b <= d
        OBVIOUS
      <4>2. Len(got[c]) + Len(resps_[c]) <= received[c]
        BY <3>1, <3>2, <4>1
      <4>3. QED
        BY <1>1, <3>1, <3>2, <4>2, ResponsesTyped
    <3>5. received[c] \in 0..MaxRequests
      BY <3>1, <3>2, ObjectDispatchAssumption
    <3>6. QED
      BY <3>3, <3>4, <3>5
  <2>2. Queues
    BY <1>1 DEF AnswerInv
  <2>3. /\ received \in [Callback -> 0..MaxRequests]
        /\ resps_ \in [Callback -> Seq(Response)]
        /\ got \in [Callback -> Seq(Response)]
    BY <2>1, <2>2 DEF Queues
  <2>4. QED
    BY <1>1, <2>2, <2>3 DEF Typed, Queues, TypeOK
<1>2. AnswerInv /\ Typed /\ [Next]_vars => AnswerInv' /\ Typed'
  BY AnswerInvNext, TypedNext
<1>3. QED
  BY <1>1, <1>2, AnswerInvInit, TypedInit, PTL DEF Spec

-----------------------------------------------------------------------------
(* Queued responses and the events that send them.                         *)

\* A connection has a connection_context of its own, and what is queued in it is due.
DueInv ==
    /\ \A w \in Wsi : phase[w] = "established" => user[w] \in Callback
    /\ \A w \in Wsi : phase[w] = "free" => user[w] = Null
    /\ \A v, w \in Wsi : user[v] = user[w] /\ user[w] # Null => v = w
    /\ ResponseDue

LEMMA DueInvInit == Init => DueInv
  BY DEF Init, AppInit, DueInv, ResponseDue

LEMMA DueInvStutter == DueInv /\ UNCHANGED <<lwsVars, to_send_set, resps_>> => DueInv'
  BY DEF DueInv, ResponseDue, lwsVars

LEMMA DueInvCreate ==
  ASSUME AppTypeOK, Queues, DueInv, NEW w \in Wsi, NEW c \in Callback, Create(w, c)
  PROVE  DueInv'
<1>1. /\ phase' = [phase EXCEPT ![w] = "established"] /\ user' = [user EXCEPT ![w] = c]
      /\ resps_' = [resps_ EXCEPT ![c] = <<>>]
      /\ UNCHANGED <<writable, to_send_set>>
      /\ \A v \in Wsi : user[v] # c
  BY DEF Create, ServerEstablished, Unused
<1>2. \A d \in Callback : resps_'[d] = IF d = c THEN <<>> ELSE resps_[d]
  BY <1>1 DEF Queues
<1>3. \A v \in Wsi : /\ phase'[v] = IF v = w THEN "established" ELSE phase[v]
                     /\ user'[v] = IF v = w THEN c ELSE user[v]
  BY <1>1 DEF AppTypeOK
<1>4. QED
  BY <1>1, <1>2, <1>3 DEF DueInv, ResponseDue

\* process() asks for the event of the connection the request came on.
LEMMA DueInvReceive ==
  ASSUME AppTypeOK, AppInv, Queues, DueInv, NEW w \in Wsi, Receive(w)
  PROVE  DueInv'
<1> DEFINE c == user[w]
<1>1. c \in Callback /\ phase[w] = "established" /\ context
  BY DEF Receive, AppInv, DueInv
<1>2. PICK v \in Wsi : user[v] = c /\ RequestToSend(v)
  BY DEF Receive, Process
<1>3. v = w /\ w # Null
  BY <1>1, <1>2, WsAppAssumption DEF DueInv
<1>4. to_send_set' = to_send_set \cup {w} /\ UNCHANGED lwsVars
  BY <1>1, <1>2, <1>3 DEF RequestToSend
<1>5. \A d \in Callback : d # c => resps_'[d] = resps_[d]
  BY DEF Receive, Process, Queues
<1>6. ASSUME NEW u \in Wsi, phase[u] = "established", resps_'[user[u]] # <<>>
      PROVE  u \in writable \cup to_send_set'
  <2>1. CASE u = w
    BY <1>4, <2>1
  <2>2. CASE u # w
    <3>1. user[u] \in Callback /\ user[u] # c
      BY <1>1, <1>6, <2>2, WsAppAssumption DEF DueInv
    <3>2. QED
      BY <1>4, <1>5, <1>6, <3>1 DEF DueInv, ResponseDue
  <2>3. QED
    BY <2>1, <2>2
<1>7. QED
  BY <1>4, <1>6 DEF DueInv, ResponseDue, lwsVars

\* An event is spent only when nothing is queued.
LEMMA DueInvWriteable ==
  ASSUME AppTypeOK, Queues, DueInv, NEW w \in Wsi, Writeable(w)
  PROVE  DueInv'
<1> DEFINE c == user[w]
<1>1. /\ phase[w] = "established" /\ c \in Callback /\ w \in writable
      /\ UNCHANGED <<phase, user, to_send_set>>
  BY DEF Writeable, OnWriteable, OnWriteableIdle, ServerWriteable, WriteableEvent, DueInv, setVars
<1>2. CASE OnWriteable(w)
  <2>1. writable' = writable /\ \A d \in Callback : d # c => resps_'[d] = resps_[d]
    BY <1>2 DEF OnWriteable, ServerWriteable, OnSend, Queues
  <2>2. \A v \in Wsi : v # w /\ phase[v] = "established" => user[v] \in Callback /\ user[v] # c
    BY <1>1, WsAppAssumption DEF DueInv
  <2>3. QED
    BY <1>1, <2>1, <2>2 DEF DueInv, ResponseDue
<1>3. CASE OnWriteableIdle(w)
  BY <1>1, <1>3 DEF OnWriteableIdle, ServerWriteable, DueInv, ResponseDue
<1>4. QED
  BY <1>2, <1>3 DEF Writeable

LEMMA AppInvNext == AppTypeOK /\ AppInv /\ [Next]_vars => AppInv'
<1> SUFFICES ASSUME AppTypeOK, AppInv, [Next]_vars
             PROVE  AppInv'
  OBVIOUS
<1>1. CASE \E w \in Wsi, c \in Callback : Create(w, c)
  BY <1>1, AppInvServerEvent DEF Create
<1>2. ASSUME NEW w \in Wsi, Refuse(w) \/ Close(w) \/ Writeable(w)
      PROVE  AppInv'
  BY <1>2, AppInvServerEvent DEF Refuse, Close, Writeable, OnWriteable, OnWriteableIdle
<1>3. CASE \E w \in Wsi : Receive(w)
  <2>1. PICK w \in Wsi : RequestToSend(w)
    BY <1>3 DEF Receive, Process
  <2>2. QED
    BY <2>1, AppInvRequest
<1>4. CASE Prepare \/ Return
  BY <1>4, AppInvService DEF Prepare, Return
<1>5. CASE (\E w \in Wsi, o \in Object : Ask(w, o)) \/ Ended \/ UNCHANGED vars
  BY <1>5, AppInvStutter DEF Ask, Ended, vars
<1>6. QED
  BY <1>1, <1>2, <1>3, <1>4, <1>5 DEF Next, Step

LEMMA DueInvNext == AppTypeOK /\ AppInv /\ Queues /\ DueInv /\ [Next]_vars => DueInv'
<1> SUFFICES ASSUME AppTypeOK, AppInv, Queues, DueInv, [Next]_vars
             PROVE  DueInv'
  OBVIOUS
<1>1. CASE \E w \in Wsi, c \in Callback : Create(w, c)
  BY <1>1, DueInvCreate
<1>2. CASE \E w \in Wsi : Receive(w)
  BY <1>2, DueInvReceive
<1>3. CASE \E w \in Wsi : Writeable(w)
  BY <1>3, DueInvWriteable
<1>4. ASSUME NEW w \in Wsi, Refuse(w)
      PROVE  DueInv'
  BY <1>4 DEF Refuse, ServerRefused, AppTypeOK, DueInv, ResponseDue
<1>5. ASSUME NEW w \in Wsi, Close(w)
      PROVE  DueInv'
  BY <1>5 DEF Close, ServerClosed, AppTypeOK, DueInv, ResponseDue, setVars
<1>6. CASE Prepare
  <2>1. CASE TskInit \/ PrepareBegin
    BY <1>6, <2>1, DueInvStutter DEF Prepare, TskInit, PrepareBegin, setVars
  <2>2. CASE PrepareEnd
    BY <1>6, <2>2 DEF Prepare, PrepareEnd, AppInv, DueInv, ResponseDue
  <2>3. CASE CallbackReturn
    BY <1>6, <2>3 DEF Prepare, CallbackReturn, AppTypeOK, DueInv, ResponseDue
  <2>4. QED
    BY <1>6, <2>1, <2>2, <2>3 DEF Prepare
<1>7. CASE Return \/ (\E w \in Wsi, o \in Object : Ask(w, o)) \/ Ended \/ UNCHANGED vars
  BY <1>7, DueInvStutter DEF Return, ServiceReturn, Ask, Ended, vars, appVars, setVars
<1>8. QED
  BY <1>1, <1>2, <1>3, <1>4, <1>5, <1>6, <1>7 DEF Next, Step

LEMMA DispatchInv == Spec => [](AnswerInv /\ Typed /\ AppInv /\ DueInv)
<1>1. Init => AppInv
  BY AppInvInit DEF Init
<1>2. AnswerInv /\ Typed /\ AppInv /\ DueInv /\ [Next]_vars => AppInv' /\ DueInv'
  BY AppInvNext, DueInvNext DEF AnswerInv, Typed
<1>3. QED
  BY <1>1, <1>2, AnswerInvInit, TypedInit, DueInvInit, AnswerInvNext, TypedNext, PTL DEF Spec

\* No response is left in the queue of a connection without an event that will send
\* it, however many share one (object_callback.h:72-94, wsapp.cpp:226-231).
THEOREM ResponsesDue == Spec => []ResponseDue
<1>1. DueInv => ResponseDue
  BY DEF DueInv
<1>2. QED
  BY <1>1, DispatchInv, PTL

\* lws_service() does not sleep on a request to send that process() made inside it
\* (object_callback.h:91-92, wsapp.cpp:67-80, 470-493).
THEOREM RequestsHeard == Spec => []NoRequestForgotten
<1>1. AppInv => NoRequestForgotten
  BY DEF AppInv
<1>2. QED
  BY <1>1, DispatchInv, PTL

-----------------------------------------------------------------------------
(* The steps of Conversation.                                              *)

\* As long as the program runs no connection has ended, so that a new one gets a
\* connection_context that nobody has talked to.
Untouched ==
    ~crashed =>
       /\ \A w \in Wsi : phase[w] # "closed"
       /\ \A c \in Callback : (\A w \in Wsi : user[w] # c) =>
             asked[c] = <<>> /\ received[c] = 0 /\ resps_[c] = <<>> /\ got[c] = <<>>

LEMMA UntouchedInit == Init => Untouched
  BY DEF Init, AppInit, Untouched

LEMMA UntouchedNext == AppTypeOK /\ Queues /\ DueInv /\ Untouched /\ [Next]_vars => Untouched'
<1> SUFFICES ASSUME AppTypeOK, Queues, DueInv, Untouched, [Next]_vars, ~crashed'
             PROVE  Untouched'
  BY DEF Untouched
<1> USE DEF Untouched
<1>1. ASSUME NEW w \in Wsi, NEW c \in Callback, Create(w, c)
      PROVE  Untouched'
  <2>1. /\ crashed' = crashed /\ user' = [user EXCEPT ![w] = c]
        /\ phase' = [phase EXCEPT ![w] = "established"]
        /\ \A d \in Callback : d # c =>
              UNCHANGED <<asked[d], received[d], resps_[d], got[d]>>
        /\ \A v \in Wsi : user[v] # c
    BY <1>1 DEF Create, ServerEstablished, Unused, dispatchVars, Queues
  <2>2. \A v \in Wsi : phase'[v] # "closed"
    BY <2>1 DEF AppTypeOK
  <2>3. user'[w] = c /\ \A v \in Wsi : v # w => user'[v] = user[v]
    BY <2>1 DEF AppTypeOK
  <2>4. ASSUME NEW d \in Callback, \A v \in Wsi : user'[v] # d
        PROVE  asked'[d] = <<>> /\ received'[d] = 0 /\ resps_'[d] = <<>> /\ got'[d] = <<>>
    <3>1. d # c
      BY <2>3, <2>4
    <3>2. (\A v \in Wsi : user[v] # d) => asked[d] = <<>> /\ received[d] = 0 /\ resps_[d] = <<>> /\ got[d] = <<>>
      BY <2>1
    <3>3. user[w] # d
      BY <1>1, WsAppAssumption DEF Create, ServerEstablished, DueInv
    <3>4. QED
      BY <2>1, <2>3, <2>4, <3>1, <3>2, <3>3
  <2>5. QED
    BY <2>2, <2>4
<1>2. ASSUME NEW w \in Wsi, NEW o \in Object, Ask(w, o)
      PROVE  Untouched'
  <2>1. /\ UNCHANGED <<crashed, phase, user, received, resps_, got>>
        /\ \A c \in Callback : c # user[w] => asked'[c] = asked[c]
    BY <1>2 DEF Ask, appVars, lwsVars, dispatchVars, Queues
  <2>2. QED
    BY <2>1
<1>3. ASSUME NEW w \in Wsi, Receive(w)
      PROVE  Untouched'
  <2>1. /\ UNCHANGED <<crashed, phase, user, asked, got>>
        /\ \A c \in Callback : c # user[w] => resps_'[c] = resps_[c] /\ received'[c] = received[c]
    BY <1>3 DEF Receive, Process, RequestToSend, lwsVars, dispatchVars, Queues
  <2>2. QED
    BY <2>1
<1>4. ASSUME NEW w \in Wsi, Writeable(w)
      PROVE  Untouched'
  <2>1. /\ UNCHANGED <<crashed, phase, user, asked, received>>
        /\ \A c \in Callback : c # user[w] => resps_'[c] = resps_[c] /\ got'[c] = got[c]
    BY <1>4 DEF Writeable, OnWriteable, OnWriteableIdle, ServerWriteable, OnSend, dispatchVars, peerVars, Queues
  <2>2. QED
    BY <2>1
<1>5. ASSUME NEW w \in Wsi, Refuse(w)
      PROVE  Untouched'
  BY <1>5 DEF Refuse, ServerRefused, dispatchVars, peerVars, AppTypeOK
<1>6. CASE \E w \in Wsi : Close(w)
  BY <1>6 DEF Close
<1>7. CASE Prepare
  <2>1. ~crashed /\ \A w \in Wsi : phase'[w] = phase[w] /\ user'[w] = user[w]
    BY <1>7 DEF Prepare, TskInit, PrepareBegin, PrepareEnd, CallbackReturn, dispatchVars, setVars, lwsVars,
                AppTypeOK
  <2>2. QED
    BY <1>7, <2>1 DEF Prepare, peerVars
<1>8. CASE Return \/ Ended \/ UNCHANGED vars
  BY <1>8 DEF Return, ServiceReturn, Ended, vars, appVars, lwsVars, dispatchVars, peerVars
<1>9. QED
  BY <1>1, <1>2, <1>3, <1>4, <1>5, <1>6, <1>7, <1>8 DEF Next, Step

\* A step that leaves what is asked and got alone.
LEMMA ConvStutter ==
  UNCHANGED <<crashed, callbacks_, asked, got>> => [Conv!Next]_(Conv!vars)
  BY DEF Conv!vars

LEMMA ConvCreate ==
  ASSUME AppTypeOK, Queues, Untouched, ~crashed, NEW w \in Wsi, NEW c \in Callback, Create(w, c)
  PROVE  [Conv!Next]_(Conv!vars)
<1>1. asked[c] = <<>> /\ got[c] = <<>>
  BY DEF Create, Unused, Untouched
<1>2. UNCHANGED <<crashed, callbacks_, asked, got>>
  BY <1>1 DEF Create, dispatchVars, Queues
<1>3. QED
  BY <1>2, ConvStutter

\* The first response of the queue is the one that is due.
LEMMA ConvAnswer ==
  ASSUME AnswerInv, ~crashed, NEW c \in Callback, resps_[c] # <<>>, OnSend(c),
         UNCHANGED <<crashed, callbacks_, asked, received>>
  PROVE  Conv!Answer(c)
<1> DEFINE k == Len(got[c]) + 1
<1>1. /\ resps_[c] \in Seq(Answers) /\ Len(resps_[c]) \in Nat /\ Len(resps_[c]) # 0
      /\ Len(got[c]) \in Nat /\ received[c] \in Nat /\ Len(asked[c]) \in Nat
      /\ asked[c] \in Seq(Object)
  BY EmptySeq DEF AnswerInv, Queues
<1>2. /\ received[c] <= Len(asked[c]) /\ Len(got[c]) + Len(resps_[c]) = received[c]
      /\ \A j \in 1..Len(resps_[c]) : resps_[c][j] = Answer(c, Len(got[c]) + j)
  BY DEF AnswerInv, InOrder
<1>3. k \in 1..Len(asked[c]) /\ k <= Len(asked[c]) /\ 1 \in 1..Len(resps_[c])
  <2>1. \A g, r, n, a \in Nat : g + r = n /\ r # 0 /\ n <= a =>
           g + 1 \in 1..a /\ g + 1 <= a /\ 1 \in 1..r
    OBVIOUS
  <2>2. QED
    BY <1>1, <1>2, <2>1
<1>4. Head(resps_[c]) = Answer(c, k)
  BY <1>1, <1>2, <1>3
<1>5. asked[c][k] \in Object
  BY <1>1, <1>3, ElementOfSeq
<1>6. Answer(c, k) = [id |-> k, status |-> [o \in Object |-> Status(callbacks_[o])][asked[c][k]]]
  BY <1>5 DEF Answer
<1>7. got' = [got EXCEPT ![c] = Append(@, Answer(c, k))]
  BY <1>4 DEF OnSend
<1>8. QED
  BY <1>3, <1>6, <1>7 DEF Conv!Answer, Conv!Due

LEMMA ConvNext ==
  ASSUME AnswerInv, AppTypeOK, DueInv, Untouched, [Next]_vars
  PROVE  [Conv!Next]_(Conv!vars)
<1>1. CASE ~crashed /\ \E w \in Wsi, c \in Callback : Create(w, c)
  BY <1>1, ConvCreate DEF AnswerInv
<1>2. ASSUME ~crashed, NEW w \in Wsi, NEW o \in Object, Ask(w, o)
      PROVE  [Conv!Next]_(Conv!vars)
  <2>1. user[w] \in Callback
    BY <1>2 DEF Ask, DueInv
  <2>2. Conv!Ask(user[w], o)
    BY <1>2 DEF Ask, Conv!Ask, dispatchVars
  <2>3. QED
    BY <2>1, <2>2 DEF Conv!Next
<1>3. ASSUME ~crashed, NEW w \in Wsi, OnWriteable(w)
      PROVE  [Conv!Next]_(Conv!vars)
  <2>1. /\ user[w] \in Callback /\ resps_[user[w]] # <<>> /\ OnSend(user[w])
        /\ UNCHANGED <<crashed, callbacks_, asked, received>>
    BY <1>3 DEF OnWriteable, dispatchVars, peerVars, DueInv
  <2>2. Conv!Answer(user[w])
    BY <1>3, <2>1, ConvAnswer
  <2>3. QED
    BY <2>1, <2>2 DEF Conv!Next
<1>4. CASE ~crashed /\ \E w \in Wsi : Close(w)
  <2>1. Conv!End
    BY <1>4 DEF Close, Conv!End, peerVars
  <2>2. QED
    BY <2>1 DEF Conv!Next
<1>5. CASE \/ \E w \in Wsi : Refuse(w) \/ Receive(w) \/ OnWriteableIdle(w)
           \/ Prepare \/ Return \/ Ended \/ UNCHANGED vars
  <2>1. UNCHANGED <<crashed, callbacks_, asked, got>>
    BY <1>5 DEF Refuse, Receive, OnWriteableIdle, Prepare, Return, Ended, vars, dispatchVars, peerVars
  <2>2. QED
    BY <2>1, ConvStutter
<1>6. QED
  BY <1>1, <1>2, <1>3, <1>4, <1>5 DEF Next, Step, Writeable

LEMMA ConvInit == Init => Conv!Init
<1> SUFFICES ASSUME Init
             PROVE  Conv!Init
  OBVIOUS
<1>1. Typed
  BY TypedInit
<1>2. \A o \in Object : Status(callbacks_[o]) \in Nat
  BY <1>1, StatusTyped DEF Typed
<1>3. QED
  BY <1>2 DEF Init, Conv!Init

\* The dispatch takes only the steps of Conversation: all of ConversationSpec but that
\* an answer comes in the end (object_callback.h:24-94).
THEOREM Converses == Spec => Conv!Init /\ [][Conv!Next]_(Conv!vars)
<1>1. AnswerInv /\ Typed /\ DueInv /\ Untouched /\ [Next]_vars => [Conv!Next]_(Conv!vars) /\ Untouched'
  BY ConvNext, UntouchedNext DEF AnswerInv, Typed
<1>2. QED
  BY <1>1, DispatchInv, UntouchedInit, ConvInit, PTL DEF Spec
=============================================================================
