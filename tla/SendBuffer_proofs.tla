------------------------- MODULE SendBuffer_proofs -------------------------
(***************************************************************************)
(* Theorems about SendBuffer: for any clients, connections and frames.     *)
(***************************************************************************)
EXTENDS SendBuffer, WsApp_proofs, SequenceTheorems

\* The types the argument needs.
Places ==
    /\ active \in Callback \cup {Null}
    /\ ctx_set_ \subseteq Callback
    /\ user \in [Wsi -> Callback \cup {Null}]
    /\ phase \in [Wsi -> Phase]
    /\ wsi_ \in [Callback -> Wsi \cup {Null}]

\* A connection has a callback from its event ESTABLISHED until the callback is
\* removed, and only the one that is being removed is closed.
Users ==
    \A w \in Wsi :
       /\ phase[w] \in {"free", "established", "closed"}
       /\ user[w] = Null <=> phase[w] = "free"
       /\ phase[w] = "closed" => active = user[w]

\* The callback of a connection was made for it, and one in ctx_set_ is the
\* callback of its connection still.
MadeFor    == \A w \in Wsi : user[w] # Null => wsi_[user[w]] = w
Registered == \A c \in ctx_set_ : wsi_[c] \in Wsi /\ user[wsi_[c]] = c

\* While the task has callbacks to report, it holds mutex_ and all of them are
\* in ctx_set_.
Reporting == todo \subseteq ctx_set_ /\ (task # "report" => todo = {})

CtxInv == Places /\ Users /\ MadeFor /\ Registered /\ Reporting

LEMMA CtxInvInit == Init => CtxInv
<1> SUFFICES ASSUME Init
             PROVE  CtxInv
  OBVIOUS
<1> USE DEF Init, AppInit
<1>1. Places
  BY DEF Places, Phase
<1>2. Users /\ MadeFor /\ Registered /\ Reporting
  BY DEF Users, MadeFor, Registered, Reporting
<1>3. QED
  BY <1>1, <1>2 DEF CtxInv

\* Everything CtxInv speaks of.
ctxInvVars == <<active, ctx_set_, user, phase, wsi_, todo, task>>

LEMMA CtxInvStutter == CtxInv /\ UNCHANGED ctxInvVars => CtxInv'
  BY DEF CtxInv, ctxInvVars, Places, Users, MadeFor, Registered, Reporting

\* A callback is made: the address was free and the callback unused.
LEMMA CtxInvCreate ==
  ASSUME CtxInv, NEW w \in Wsi, NEW c \in Callback, Create(w, c)
  PROVE  CtxInv'
<1> USE WsAppAssumption
<1>1. /\ active = Null /\ active' = c
      /\ phase[w] = "free" /\ phase' = [phase EXCEPT ![w] = "established"]
      /\ user' = [user EXCEPT ![w] = c]
      /\ wsi_' = [wsi_ EXCEPT ![c] = w]
      /\ UNCHANGED <<todo, task, ctx_set_>>
  BY DEF Create, ServerEstablished, InService, Fresh, taskVars
<1>2. \A v \in Wsi : user[v] # c
  BY DEF Create, Unused
<1>3. user[w] = Null
  BY <1>1 DEF CtxInv, Users
<1>4. c \notin ctx_set_
  BY <1>2 DEF CtxInv, Registered
<1>5. Places'
  BY <1>1 DEF CtxInv, Places, Phase
<1>6. Users'
  <2> SUFFICES ASSUME NEW v \in Wsi
               PROVE  /\ phase'[v] \in {"free", "established", "closed"}
                      /\ user'[v] = Null <=> phase'[v] = "free"
                      /\ phase'[v] = "closed" => active' = user'[v]
    BY DEF Users
  <2>1. CASE v = w
    BY <1>1, <2>1 DEF CtxInv, Places
  <2>2. CASE v # w
    BY <1>1, <2>2 DEF CtxInv, Places, Users
  <2>3. QED
    BY <2>1, <2>2
<1>7. MadeFor'
  BY <1>1, <1>2, <1>3 DEF CtxInv, Places, MadeFor
<1>8. Registered'
  BY <1>1, <1>3, <1>4 DEF CtxInv, Places, Registered
<1>9. Reporting'
  BY <1>1 DEF CtxInv, Reporting
<1>10. QED
  BY <1>5, <1>6, <1>7, <1>8, <1>9 DEF CtxInv

\* It is registered, with the mutex_ of the factory.
LEMMA CtxInvRegister == CtxInv /\ Register => CtxInv'
<1> SUFFICES ASSUME CtxInv, Register
             PROVE  CtxInv'
  OBVIOUS
<1> USE WsAppAssumption
<1>1. PICK w \in Wsi : user[w] = active /\ phase[w] = "established"
  BY DEF Register
<1>2. /\ active # Null /\ active' = Null
      /\ phase' = [v \in Wsi |-> IF phase[v] = "closed" THEN "free" ELSE phase[v]]
      /\ user' = [v \in Wsi |-> IF phase[v] = "closed" THEN Null ELSE user[v]]
      /\ ctx_set_' = ctx_set_ \cup {active}
      /\ UNCHANGED <<todo, task, wsi_>>
  BY DEF Register, CallbackReturn, taskVars
<1>3. \A v \in Wsi : phase[v] # "closed"
  BY <1>1, <1>2 DEF CtxInv, Users, MadeFor
<1>4. user' = user /\ phase' = phase
  BY <1>2, <1>3 DEF CtxInv, Places
<1>5. Places'
  BY <1>2, <1>4 DEF CtxInv, Places
<1>6. Users' /\ MadeFor'
  BY <1>2, <1>3, <1>4 DEF CtxInv, Users, MadeFor
<1>7. Registered'
  BY <1>1, <1>2, <1>4 DEF CtxInv, MadeFor, Registered
<1>8. Reporting'
  BY <1>2 DEF CtxInv, Reporting
<1>9. QED
  BY <1>5, <1>6, <1>7, <1>8 DEF CtxInv

\* The client is gone: its callback leaves ctx_set_ and is deleted, when the
\* task does not hold mutex_.
LEMMA CtxInvRemove == CtxInv /\ Remove => CtxInv'
<1> SUFFICES ASSUME CtxInv, Remove
             PROVE  CtxInv'
  OBVIOUS
<1> USE WsAppAssumption
<1>1. PICK w \in Wsi : user[w] = active /\ phase[w] = "closed"
  BY DEF Remove
<1>2. /\ active # Null /\ active' = Null
      /\ phase' = [v \in Wsi |-> IF phase[v] = "closed" THEN "free" ELSE phase[v]]
      /\ user' = [v \in Wsi |-> IF phase[v] = "closed" THEN Null ELSE user[v]]
      /\ ctx_set_' = ctx_set_ \ {active}
      /\ wsi_' = [wsi_ EXCEPT ![active] = Null]
      /\ task # "report"
      /\ UNCHANGED <<todo, task>>
  BY DEF Remove, CallbackReturn, Fresh, FactoryMutexFree, taskVars
<1>3. \A v \in Wsi : user[v] = active => v = w
  BY <1>1, <1>2 DEF CtxInv, MadeFor
<1>4. \A v \in Wsi : phase[v] = "closed" <=> v = w
  BY <1>1, <1>3 DEF CtxInv, Users
<1>5. Places'
  BY <1>2 DEF CtxInv, Places, Phase
<1>6. Users'
  BY <1>2 DEF CtxInv, Users
<1>7. MadeFor'
  BY <1>2, <1>3, <1>4 DEF CtxInv, Places, MadeFor
<1>8. Registered'
  BY <1>1, <1>2, <1>4 DEF CtxInv, Places, Registered
<1>9. Reporting'
  BY <1>2 DEF CtxInv, Reporting
<1>10. QED
  BY <1>5, <1>6, <1>7, <1>8, <1>9 DEF CtxInv

LEMMA CtxInvClose ==
  ASSUME CtxInv, NEW w \in Wsi, Close(w)
  PROVE  CtxInv'
<1>1. /\ active = Null /\ active' = user[w]
      /\ phase[w] \in {"closing", "established"}
      /\ phase' = [phase EXCEPT ![w] = "closed"]
      /\ UNCHANGED <<user, wsi_, ctx_set_, todo, task>>
  BY DEF Close, ServerClosed, InService, ctxVars, taskVars
<1>2. \A v \in Wsi : phase[v] # "closed"
  BY <1>1, WsAppAssumption DEF CtxInv, Users
<1>3. Places'
  BY <1>1 DEF CtxInv, Places, Phase
<1>4. Users'
  BY <1>1, <1>2 DEF CtxInv, Places, Users
<1>5. MadeFor' /\ Registered' /\ Reporting'
  BY <1>1 DEF CtxInv, MadeFor, Registered, Reporting
<1>6. QED
  BY <1>3, <1>4, <1>5 DEF CtxInv

LEMMA CtxInvTask == CtxInv /\ Task => CtxInv'
<1> SUFFICES ASSUME CtxInv, Task
             PROVE  CtxInv'
  OBVIOUS
<1>1. UNCHANGED <<active, user, phase, wsi_, ctx_set_>> /\ Reporting'
  <2> USE DEF CtxInv, Reporting, appVars, serviceVars, lwsVars, ctxVars
  <2>1. CASE TaskFrame
    BY <2>1 DEF TaskFrame
  <2>2. CASE TaskLock
    BY <2>2 DEF TaskLock
  <2>3. ASSUME NEW c \in Callback, TaskReport(c)
        PROVE  UNCHANGED <<active, user, phase, wsi_, ctx_set_>> /\ Reporting'
    BY <2>3 DEF TaskReport, RequestToSend
  <2>4. CASE TaskRelease
    BY <2>4 DEF TaskRelease
  <2>5. QED
    BY <2>1, <2>2, <2>3, <2>4 DEF Task
<1>2. Places' /\ Users' /\ MadeFor' /\ Registered'
  BY <1>1 DEF CtxInv, Places, Users, MadeFor, Registered
<1>3. QED
  BY <1>1, <1>2 DEF CtxInv

LEMMA CtxInvNext == CtxInv /\ [Next]_vars => CtxInv'
<1> SUFFICES ASSUME CtxInv, [Next]_vars
             PROVE  CtxInv'
  OBVIOUS
<1>1. ASSUME NEW w \in Wsi, NEW c \in Callback, Create(w, c)
      PROVE  CtxInv'
  BY <1>1, CtxInvCreate
<1>2. ASSUME NEW w \in Wsi, Close(w)
      PROVE  CtxInv'
  BY <1>2, CtxInvClose
<1>3. CASE Register \/ Remove \/ Task
  BY <1>3, CtxInvRegister, CtxInvRemove, CtxInvTask
<1>4. ASSUME \/ \E len \in Lengths : Put(len)
             \/ \E w \in Wsi : Writeable(w)
             \/ Prepare \/ Return \/ Failed \/ UNCHANGED vars
      PROVE  CtxInv'
  <2> SUFFICES UNCHANGED ctxInvVars
    BY CtxInvStutter
  <2> USE DEF ctxInvVars, appVars, serviceVars, lwsVars, setVars, taskVars, ctxVars
  <2>1. ASSUME NEW len \in Lengths, Put(len)
        PROVE  UNCHANGED ctxInvVars
    BY <2>1 DEF Put
  <2>2. ASSUME NEW w \in Wsi, Writeable(w)
        PROVE  UNCHANGED ctxInvVars
    BY <2>2 DEF Writeable, OnWriteable, OnWriteableIdle, ServerWriteable
  <2>3. CASE Prepare
    BY <2>3 DEF Prepare, TskInit, PrepareBegin, PrepareEnd
  <2>4. CASE Return \/ Failed \/ UNCHANGED vars
    BY <2>4 DEF Return, ServiceReturn, Failed, vars
  <2>5. QED
    BY <1>4, <2>1, <2>2, <2>3, <2>4
<1>5. QED
  BY <1>1, <1>2, <1>3, <1>4 DEF Next

\* The task never asks a deleted callback to send, nor one whose connection has
\* become another's: neither does create() nor remove(), with the task anywhere.
THEOREM ReportsLive == Spec => []ReportAlive
<1>1. CtxInv => ReportAlive
  BY DEF CtxInv, Registered, Reporting, ReportAlive
<1>2. QED
  BY <1>1, CtxInvInit, CtxInvNext, PTL DEF Spec

-----------------------------------------------------------------------------
(* Frames.                                                                 *)

\* The types of what on_send() reads and writes.
Reads ==
    /\ frames \in Seq(Lengths)
    /\ rd \in [Callback -> Nat]
    /\ sent_ \in [Callback -> Nat]
    /\ remain_ \in [Callback -> Nat]
    /\ from \in [Callback -> Nat]
    /\ partial \in [Callback -> Seq(Nat \X Nat)]
    /\ whole \in [Callback -> Seq(Seq(Nat \X Nat))]

\* The first n bytes of frame k.
Start(k, n) == [i \in 1..n |-> <<k, i>>]

\* The frames a peer has got are those its reader has passed.
GotWhole(c) ==
    /\ rd[c] <= Len(frames) + 1
    /\ from[c] + Len(whole[c]) = rd[c]
    /\ Len(whole[c]) # 0 => from[c] # 0
    /\ \A k \in 1..Len(whole[c]) : whole[c][k] = FrameBytes(from[c] + k - 1)

\* Of a frame that has been read, what has been sent and what remains is all.
GotPart(c) ==
    remain_[c] # 0 =>
       /\ rd[c] \in 1..Len(frames)
       /\ sent_[c] + remain_[c] = frames[rd[c]]
       /\ partial[c] = Start(rd[c], sent_[c])

\* The reader of a callback with a connection is at a frame.
Reading == \A w \in Wsi : user[w] # Null => rd[user[w]] # 0

ReadInv == Reads /\ Reading /\ \A c \in Callback : GotWhole(c) /\ GotPart(c)

LEMMA StartProperties ==
  ASSUME NEW k \in Nat, NEW n \in Nat
  PROVE  /\ Start(k, n) \in Seq(Nat \X Nat)
         /\ Len(Start(k, n)) = n
         /\ \A i \in 1..n : Start(k, n)[i] = <<k, i>>
  BY DEF Start

\* The next m bytes of the frame make it a longer start.
LEMMA StartExtends ==
  ASSUME NEW k \in Nat, NEW n \in Nat, NEW m \in Nat
  PROVE  Start(k, n) \o [i \in 1..m |-> <<k, n + i>>] = Start(k, n + m)
<1> DEFINE s == Start(k, n)
           t == [i \in 1..m |-> <<k, n + i>>]
           u == Start(k, n + m)
<1>1. s \in Seq(Nat \X Nat) /\ Len(s) = n /\ \A i \in 1..n : s[i] = <<k, i>>
  BY StartProperties
<1>2. t \in Seq(Nat \X Nat) /\ Len(t) = m /\ \A i \in 1..m : t[i] = <<k, n + i>>
  OBVIOUS
<1>3. u \in Seq(Nat \X Nat) /\ Len(u) = n + m /\ \A i \in 1..(n + m) : u[i] = <<k, i>>
  <2>1. n + m \in Nat
    OBVIOUS
  <2>2. QED
    BY <2>1, StartProperties
<1> HIDE DEF s, t, u
<1>4. /\ s \o t \in Seq(Nat \X Nat) /\ Len(s \o t) = n + m
      /\ \A i \in 1..n : (s \o t)[i] = s[i]
      /\ \A i \in 1..m : (s \o t)[n + i] = t[i]
  <2>1. /\ s \o t \in Seq(Nat \X Nat) /\ Len(s \o t) = n + m
        /\ \A i \in 1..(n + m) : (s \o t)[i] = IF i <= n THEN s[i] ELSE t[i - n]
    BY <1>1, <1>2, ConcatProperties
  <2>2. \A i \in 1..n : i \in 1..(n + m) /\ i <= n
    OBVIOUS
  <2>3. \A i \in 1..m : n + i \in 1..(n + m) /\ ~(n + i <= n) /\ (n + i) - n = i
    OBVIOUS
  <2>4. QED
    BY <2>1, <2>2, <2>3
<1>5. ASSUME NEW i \in 1..(n + m)
      PROVE  (s \o t)[i] = u[i]
  <2>1. CASE i \in 1..n
    BY <1>1, <1>3, <1>4, <2>1
  <2>2. CASE i \notin 1..n
    <3>1. PICK j \in 1..m : i = n + j
      <4>1. i - n \in 1..m /\ i = n + (i - n)
        BY <2>2
      <4>2. QED
        BY <4>1
    <3>2. QED
      BY <1>2, <1>3, <1>4, <3>1
  <2>3. QED
    BY <2>1, <2>2
<1>6. s \o t = u
  BY <1>3, <1>4, <1>5, SeqEqual
<1>7. QED
  BY <1>6 DEF s, t, u

\* A fragment that starts a message, or one that goes on where it was, makes
\* what the peer has a start of the frame again.
LEMMA PeerHasStart ==
  ASSUME Reads, NEW c \in Callback, GotPart(c), HasFrame(c), rd[c] # 0
  PROVE  /\ rd[c] \in 1..Len(frames)
         /\ Sent(c) \in Nat /\ Remain(c) \in Nat \ {0} /\ ToSend(c) \in Nat \ {0}
         /\ Sent(c) + Remain(c) = frames[rd[c]]
         /\ PeerHas(c) = Start(rd[c], Sent(c) + ToSend(c))
<1> USE SendBufferAssumption DEF Reads
<1>1. rd[c] \in 1..Len(frames) /\ frames[rd[c]] \in Nat \ {0}
  <2>1. rd[c] \in Nat /\ Len(frames) \in Nat
    OBVIOUS
  <2>2. rd[c] \in 1..Len(frames)
    BY <2>1 DEF HasFrame
  <2>3. frames[rd[c]] \in Lengths
    BY <2>2, ElementOfSeq
  <2>4. QED
    BY <2>2, <2>3
<1>2. /\ Sent(c) \in Nat /\ Remain(c) \in Nat \ {0}
      /\ Sent(c) + Remain(c) = frames[rd[c]]
  BY <1>1 DEF Sent, Remain, GotPart
<1>3. ToSend(c) \in Nat \ {0}
  BY <1>2 DEF ToSend
<1>4. PeerHas(c) = Start(rd[c], Sent(c) + ToSend(c))
  <2> DEFINE data == [i \in 1..ToSend(c) |-> <<rd[c], Sent(c) + i>>]
  <2>1. CASE IsStart(c)
    <3>1. Sent(c) = 0
      BY <2>1 DEF IsStart, Sent
    <3>2. PeerHas(c) = data
      BY <2>1 DEF PeerHas
    <3>3. QED
      BY <1>3, <3>1, <3>2 DEF Start
  <2>2. CASE ~IsStart(c)
    <3>1. partial[c] = Start(rd[c], Sent(c)) /\ Sent(c) \in Nat
      BY <1>2, <2>2 DEF IsStart, Sent, GotPart
    <3>2. PeerHas(c) = partial[c] \o data
      BY <2>2 DEF PeerHas
    <3>3. Start(rd[c], Sent(c)) \o data = Start(rd[c], Sent(c) + ToSend(c))
      BY <1>1, <1>2, <1>3, StartExtends
    <3>4. QED
      BY <3>1, <3>2, <3>3
  <2>3. QED
    BY <2>1, <2>2
<1>5. QED
  BY <1>1, <1>2, <1>3, <1>4

LEMMA ReadInvInit == Init => ReadInv
  BY DEF Init, AppInit, ReadInv, Reads, Reading, GotWhole, GotPart

\* A frame put in the buffer leaves those before it as they are.
LEMMA ReadInvPut ==
  ASSUME ReadInv, NEW len \in Lengths, Put(len)
  PROVE  ReadInv'
<1>1. /\ frames' = Append(frames, len)
      /\ UNCHANGED <<rd, sent_, remain_, from, partial, whole, user>>
  BY DEF Put, readVars, peerVars, appVars, lwsVars
<1>2. /\ Len(frames') = Len(frames) + 1 /\ frames' \in Seq(Lengths)
      /\ \A k \in 1..Len(frames) : frames'[k] = frames[k]
  BY <1>1 DEF ReadInv, Reads
<1>3. ASSUME NEW c \in Callback
      PROVE  GotWhole(c)' /\ GotPart(c)'
  <2>1. \A k \in 1..Len(whole[c]) : from[c] + k - 1 \in 1..Len(frames)
    <3>1. from[c] \in Nat /\ rd[c] \in Nat /\ Len(frames) \in Nat /\ Len(whole[c]) \in Nat
      BY DEF ReadInv, Reads
    <3>2. rd[c] <= Len(frames) + 1 /\ from[c] + Len(whole[c]) = rd[c]
          /\ (Len(whole[c]) # 0 => from[c] # 0)
      BY DEF ReadInv, GotWhole
    <3>3. QED
      BY <3>1, <3>2
  <2>2. GotWhole(c) /\ GotPart(c) /\ rd[c] \in Nat /\ Len(frames) \in Nat
    BY DEF ReadInv, Reads
  <2>3. GotWhole(c)'
    <3>1. ASSUME NEW k \in 1..Len(whole[c])
          PROVE  whole[c][k] = FrameBytes(from[c] + k - 1)'
      <4>1. frames'[from[c] + k - 1] = frames[from[c] + k - 1]
        BY <1>2, <2>1
      <4>2. whole[c][k] = FrameBytes(from[c] + k - 1)
        BY <2>2 DEF GotWhole
      <4>3. QED
        BY <1>1, <4>1, <4>2 DEF FrameBytes
    <3>2. rd[c] <= Len(frames')  + 1
      BY <1>2, <2>2 DEF GotWhole
    <3>3. QED
      BY <1>1, <2>2, <3>1, <3>2 DEF GotWhole
  <2>4. GotPart(c)'
    BY <1>1, <1>2, <2>2 DEF GotPart
  <2>5. QED
    BY <2>3, <2>4
<1>4. Reads' /\ Reading'
  BY <1>1, <1>2 DEF ReadInv, Reads, Reading
<1>5. QED
  BY <1>3, <1>4 DEF ReadInv

\* One fragment of a frame.
LEMMA ReadInvOnSend ==
  ASSUME ReadInv, NEW c \in Callback, HasFrame(c), rd[c] # 0, OnSend(c),
         UNCHANGED <<frames, user>>
  PROVE  ReadInv'
<1> USE SendBufferAssumption
<1> DEFINE n == Sent(c) + ToSend(c)
<1>1. /\ rd[c] \in 1..Len(frames)
      /\ Sent(c) \in Nat /\ Remain(c) \in Nat \ {0} /\ ToSend(c) \in Nat \ {0}
      /\ Sent(c) + Remain(c) = frames[rd[c]]
      /\ PeerHas(c) = Start(rd[c], n)
  BY PeerHasStart DEF ReadInv
<1>2. PeerHas(c) \in Seq(Nat \X Nat)
  <2>1. rd[c] \in Nat /\ n \in Nat
    BY <1>1
  <2>2. Start(rd[c], n) \in Seq(Nat \X Nat)
    BY <2>1, StartProperties
  <2>3. QED
    BY <1>1, <2>2
<1>3. /\ sent_' = [sent_ EXCEPT ![c] = n]
      /\ remain_' = [remain_ EXCEPT ![c] = Remain(c) - ToSend(c)]
      /\ rd' = [rd EXCEPT ![c] = IF Remain(c) = ToSend(c) THEN @ + 1 ELSE @]
      /\ from' = from
  BY DEF OnSend
<1>4. ToSend(c) <= Remain(c) /\ (IsEnd(c) <=> ToSend(c) = Remain(c))
  BY <1>1 DEF ToSend, IsEnd
<1>5. ASSUME Reads', GotWhole(c)', GotPart(c)'
      PROVE  ReadInv'
  <2>1. ASSUME NEW d \in Callback, d # c
        PROVE  GotWhole(d)' /\ GotPart(d)'
    <3>1. /\ sent_'[d] = sent_[d] /\ remain_'[d] = remain_[d]
          /\ rd'[d] = rd[d] /\ from'[d] = from[d]
          /\ partial'[d] = partial[d] /\ whole'[d] = whole[d] /\ frames' = frames
      BY <2>1 DEF ReadInv, Reads, OnSend, PeerGets
    <3>2. GotWhole(d) /\ GotPart(d)
      BY DEF ReadInv
    <3>3. QED
      BY <3>1, <3>2 DEF GotWhole, GotPart, FrameBytes
  <2>2. Reading'
    <3>1. rd \in [Callback -> Nat] /\ Reading
      BY DEF ReadInv, Reads
    <3>2. rd[c] + 1 # 0
      BY <3>1
    <3>3. \A u : rd[u] # 0 => rd'[u] # 0
      <4> SUFFICES ASSUME NEW u, rd[u] # 0
                   PROVE  rd'[u] # 0
        OBVIOUS
      <4>1. CASE u = c
        BY <4>1, <3>1, <3>2, <1>3
      <4>2. CASE u # c
        BY <4>2, <3>1, <1>3
      <4>3. QED
        BY <4>1, <4>2
    <3>4. QED
      BY <3>1, <3>3 DEF Reading
  <2>3. QED
    BY <1>5, <2>1, <2>2 DEF ReadInv
<1>6. CASE IsEnd(c)
  <2>1. /\ whole' = [whole EXCEPT ![c] = Append(@, PeerHas(c))]
        /\ partial' = [partial EXCEPT ![c] = <<>>]
    BY <1>6 DEF OnSend, PeerGets
  <2>2. PeerHas(c) = FrameBytes(rd[c])
    BY <1>1, <1>4, <1>6 DEF Start, FrameBytes
  <2>3. /\ whole[c] \in Seq(Seq(Nat \X Nat))
        /\ whole'[c] = Append(whole[c], PeerHas(c))
        /\ whole' \in [Callback -> Seq(Seq(Nat \X Nat))]
        /\ partial' \in [Callback -> Seq(Nat \X Nat)]
    BY <1>2, <2>1 DEF ReadInv, Reads
  <2>4. /\ rd'[c] = rd[c] + 1 /\ remain_'[c] = 0 /\ from'[c] = from[c]
        /\ rd' \in [Callback -> Nat] /\ remain_' \in [Callback -> Nat]
    BY <1>1, <1>3, <1>4, <1>6 DEF ReadInv, Reads
  <2>5. GotWhole(c)'
    <3>1. /\ Len(whole'[c]) = Len(whole[c]) + 1
          /\ \A k \in 1..Len(whole[c]) : whole'[c][k] = whole[c][k]
          /\ whole'[c][Len(whole[c]) + 1] = PeerHas(c)
      BY <1>2, <2>3, AppendProperties
    <3>2. GotWhole(c) /\ from[c] \in Nat /\ Len(whole[c]) \in Nat /\ rd[c] \in Nat
      BY <2>3 DEF ReadInv, Reads
    <3>3. from[c] + Len(whole'[c]) = rd'[c] /\ from[c] # 0
      BY <2>4, <3>1, <3>2 DEF GotWhole
    <3>4. ASSUME NEW k \in 1..Len(whole'[c])
          PROVE  whole'[c][k] = FrameBytes(from[c] + k - 1)
      <4>1. CASE k \in 1..Len(whole[c])
        BY <3>1, <3>2, <4>1 DEF GotWhole
      <4>2. CASE k = Len(whole[c]) + 1
        <5>1. from[c] + k - 1 = rd[c]
          BY <3>2, <4>2 DEF GotWhole
        <5>2. QED
          BY <2>2, <3>1, <4>2, <5>1
      <4>3. QED
        BY <3>1, <3>2, <4>1, <4>2
    <3>5. rd[c] + 1 <= Len(frames) + 1 /\ frames' = frames
      BY <1>1, <3>2
    <3>6. \A k \in 1..Len(whole'[c]) : whole'[c][k] = FrameBytes(from[c] + k - 1)'
      BY <2>4, <3>4, <3>5 DEF FrameBytes
    <3>7. QED
      BY <2>4, <3>3, <3>5, <3>6 DEF GotWhole
  <2>6. GotPart(c)'
    BY <2>4 DEF GotPart
  <2>7. QED
    <3>1. Reads'
      <4>1. n \in Nat
        BY <1>1
      <4>2. sent_' \in [Callback -> Nat] /\ from' \in [Callback -> Nat] /\ frames' \in Seq(Lengths)
        BY <1>3, <4>1 DEF ReadInv, Reads
      <4>3. QED
        BY <2>3, <2>4, <4>2 DEF Reads
    <3>2. QED
      BY <1>5, <2>5, <2>6, <3>1
<1>7. CASE ~IsEnd(c)
  <2>1. partial' = [partial EXCEPT ![c] = PeerHas(c)] /\ whole' = whole
    BY <1>7 DEF OnSend, PeerGets
  <2>2. /\ rd' = rd /\ from' = from
        /\ sent_'[c] = n /\ remain_'[c] = Remain(c) - ToSend(c)
        /\ remain_'[c] \in Nat \ {0} /\ n \in Nat
        /\ partial'[c] = Start(rd[c], n)
    BY <1>1, <1>3, <1>4, <1>7, <2>1 DEF ReadInv, Reads
  <2>3. Reads'
    BY <1>1, <1>2, <1>3, <2>1, <2>2 DEF ReadInv, Reads
  <2>4. GotWhole(c)'
    <3>1. GotWhole(c)
      BY DEF ReadInv
    <3>2. QED
      BY <2>1, <2>2, <3>1 DEF GotWhole, FrameBytes
  <2>5. GotPart(c)'
    <3>1. n + (Remain(c) - ToSend(c)) = frames[rd[c]]
      BY <1>1
    <3>2. QED
      BY <1>1, <2>2, <3>1 DEF GotPart
  <2>6. QED
    BY <1>5, <2>3, <2>4, <2>5
<1>8. QED
  BY <1>6, <1>7

\* Connections come and go: a callback starts with an empty reader.
LEMMA ReadInvFresh ==
  ASSUME ReadInv, NEW c \in Callback, NEW w, NEW k \in Nat, Fresh(c, w, k),
         k <= Len(frames) + 1, UNCHANGED frames, Reading'
  PROVE  ReadInv'
<1>1. ASSUME NEW d \in Callback, d # c
      PROVE  GotWhole(d)' /\ GotPart(d)'
  <2>1. /\ sent_'[d] = sent_[d] /\ remain_'[d] = remain_[d]
        /\ rd'[d] = rd[d] /\ from'[d] = from[d]
        /\ partial'[d] = partial[d] /\ whole'[d] = whole[d]
    BY <1>1 DEF ReadInv, Reads, Fresh
  <2>2. GotWhole(d) /\ GotPart(d)
    BY DEF ReadInv
  <2>3. QED
    BY <2>1, <2>2 DEF GotWhole, GotPart, FrameBytes
<1>2. GotWhole(c)' /\ GotPart(c)'
  <2>1. rd'[c] = k /\ from'[c] = k /\ remain_'[c] = 0 /\ whole'[c] = <<>>
    BY DEF ReadInv, Reads, Fresh
  <2>2. QED
    BY <2>1 DEF GotWhole, GotPart
<1>3. Reads'
  BY DEF ReadInv, Reads, Fresh
<1>4. QED
  BY <1>1, <1>2, <1>3 DEF ReadInv

LEMMA ReadInvNext == CtxInv /\ ReadInv /\ [Next]_vars => ReadInv'
<1> SUFFICES ASSUME CtxInv, ReadInv, [Next]_vars
             PROVE  ReadInv'
  OBVIOUS
<1> USE WsAppAssumption
<1>1. ASSUME NEW len \in Lengths, Put(len)
      PROVE  ReadInv'
  BY <1>1, ReadInvPut
<1>2. ASSUME NEW w \in Wsi, NEW c \in Callback, Create(w, c)
      PROVE  ReadInv'
  <2>1. /\ Fresh(c, w, Len(frames) + 1) /\ frames' = frames
        /\ user' = [user EXCEPT ![w] = c] /\ \A v \in Wsi : user[v] # c
    BY <1>2 DEF Create, Unused, ServerEstablished
  <2>2. Len(frames) + 1 \in Nat /\ Len(frames) + 1 # 0
    BY DEF ReadInv, Reads
  <2>3. Reading'
    BY <2>1, <2>2 DEF CtxInv, Places, ReadInv, Reads, Reading, Fresh
  <2>4. QED
    BY <2>1, <2>2, <2>3, ReadInvFresh
<1>3. CASE Remove
  <2>1. PICK w \in Wsi : user[w] = active /\ phase[w] = "closed"
    BY <1>3 DEF Remove
  <2>2. /\ active \in Callback /\ Fresh(active, Null, 0) /\ frames' = frames
        /\ user' = [v \in Wsi |-> IF phase[v] = "closed" THEN Null ELSE user[v]]
    BY <1>3 DEF Remove, CallbackReturn, CtxInv, Places
  <2>3. \A v \in Wsi : user[v] = active => v = w
    BY <2>1, <2>2 DEF CtxInv, MadeFor
  <2>4. Reading'
    BY <2>1, <2>2, <2>3 DEF CtxInv, Places, ReadInv, Reads, Reading, Fresh
  <2>5. 0 <= Len(frames) + 1
    BY DEF ReadInv, Reads
  <2>6. QED
    BY <2>2, <2>4, <2>5, ReadInvFresh
<1>4. ASSUME NEW w \in Wsi, OnWriteable(w)
      PROVE  ReadInv'
  <2>1. /\ phase[w] = "established" /\ HasFrame(user[w]) /\ OnSend(user[w])
        /\ UNCHANGED <<frames, user>>
    BY <1>4 DEF OnWriteable, ServerWriteable
  <2>2. user[w] \in Callback /\ rd[user[w]] # 0
    BY <2>1 DEF CtxInv, Places, Users, ReadInv, Reading
  <2>3. QED
    BY <2>1, <2>2, ReadInvOnSend
<1>5. ASSUME \/ Register \/ Task
             \/ \E w \in Wsi : Close(w) \/ OnWriteableIdle(w)
             \/ Prepare \/ Return \/ Failed \/ UNCHANGED vars
      PROVE  ReadInv'
  <2>1. UNCHANGED <<frames, readVars, peerVars>>
    BY <1>5 DEF Register, Task, TaskFrame, TaskLock, TaskReport, TaskRelease, Close,
                OnWriteableIdle, Prepare, Return, Failed, vars
  <2>2. \A w \in Wsi : user'[w] \in {user[w], Null}
    <3> USE DEF appVars, serviceVars, lwsVars, setVars
    <3>1. CASE Register
      BY <1>5, <3>1 DEF Register, CallbackReturn
    <3>2. ASSUME \/ Task \/ Prepare \/ Return \/ Failed \/ UNCHANGED vars
                 \/ \E w \in Wsi : Close(w) \/ OnWriteableIdle(w)
          PROVE  user' = user
      <4>1. CASE Task
        BY <4>1 DEF Task, TaskFrame, TaskLock, TaskReport, RequestToSend, TaskRelease
      <4>2. CASE Prepare
        BY <4>2 DEF Prepare, TskInit, PrepareBegin, PrepareEnd
      <4>3. ASSUME NEW w \in Wsi, Close(w) \/ OnWriteableIdle(w)
            PROVE  user' = user
        BY <4>3 DEF Close, ServerClosed, OnWriteableIdle, ServerWriteable
      <4>4. CASE Return \/ Failed \/ UNCHANGED vars
        BY <4>4 DEF Return, ServiceReturn, Failed, vars
      <4>5. QED
        BY <3>2, <4>1, <4>2, <4>3, <4>4
    <3>3. QED
      BY <1>5, <3>1, <3>2
  <2>3. Reading' /\ Reads'
    BY <2>1, <2>2 DEF ReadInv, Reads, Reading, readVars, peerVars
  <2>4. QED
    BY <2>1, <2>3 DEF ReadInv, GotWhole, GotPart, FrameBytes, readVars, peerVars
<1>6. QED
  BY <1>1, <1>2, <1>3, <1>4, <1>5 DEF Next, Writeable

\* Every client gets the frames put in the buffer since it connected whole, each
\* once, in order, for frames and fragments of any length.
THEOREM FramesWhole == Spec => []WholeFrames
<1>1. ReadInv => WholeFrames
  BY DEF ReadInv, GotWhole, WholeFrames
<1>2. CtxInv /\ ReadInv /\ [Next]_vars => CtxInv' /\ ReadInv'
  BY CtxInvNext, ReadInvNext
<1>3. QED
  BY <1>1, <1>2, CtxInvInit, ReadInvInit, PTL DEF Spec

-----------------------------------------------------------------------------
(* Types.                                                                  *)

\* The types that are left, with what they need: the task releases a frame only
\* if it has read one.
TaskTyped ==
    /\ AppTypeOK
    /\ task \in {"wait", "frame", "report"}
    /\ taken \in 0..Len(frames)
    /\ task # "wait" => taken < Len(frames)

LEMMA TaskTypedInit == Init => TaskTyped
<1> SUFFICES ASSUME Init
             PROVE  TaskTyped
  OBVIOUS
<1>1. AppTypeOK
  BY AppInitTyped DEF Init
<1>2. QED
  BY <1>1 DEF Init, TaskTyped

LEMMA TaskTypedNext == CtxInv /\ ReadInv /\ TaskTyped /\ [Next]_vars => TaskTyped'
<1> SUFFICES ASSUME CtxInv, ReadInv, TaskTyped, [Next]_vars
             PROVE  TaskTyped'
  OBVIOUS
<1>1. AppTypeOK /\ Len(frames) \in Nat /\ taken \in Nat
  BY DEF TaskTyped, ReadInv, Reads
<1>2. ASSUME UNCHANGED appVars
      PROVE  AppTypeOK'
  BY <1>1, <1>2 DEF AppTypeOK, appVars, serviceVars, setVars, lwsVars
<1>3. ASSUME AppTypeOK', UNCHANGED <<frames, task, taken>>
      PROVE  TaskTyped'
  BY <1>3 DEF TaskTyped
<1>4. ASSUME NEW len \in Lengths, Put(len)
      PROVE  TaskTyped'
  <2>1. Len(frames') = Len(frames) + 1
    BY <1>4 DEF Put, ReadInv, Reads
  <2>2. UNCHANGED <<task, taken>> /\ AppTypeOK'
    BY <1>2, <1>4 DEF Put, taskVars
  <2>3. QED
    BY <1>1, <2>1, <2>2 DEF TaskTyped
<1>5. CASE TaskFrame \/ TaskLock
  <2>1. AppTypeOK' /\ UNCHANGED <<frames, taken>>
    BY <1>2, <1>5 DEF TaskFrame, TaskLock
  <2>2. task' \in {"frame", "report"} /\ taken < Len(frames)
    BY <1>5 DEF TaskFrame, TaskLock, TaskTyped
  <2>3. QED
    BY <2>1, <2>2 DEF TaskTyped
<1>6. ASSUME NEW c \in Callback, TaskReport(c)
      PROVE  TaskTyped'
  <2>1. wsi_[c] \in Wsi \cup {Null}
    BY DEF CtxInv, Places
  <2>2. AppTypeOK'
    BY <1>1, <1>6, <2>1, RequestTyped DEF TaskReport
  <2>3. QED
    BY <1>3, <1>6, <2>2 DEF TaskReport
<1>7. CASE TaskRelease
  <2>1. AppTypeOK' /\ frames' = frames /\ task' = "wait"
    BY <1>2, <1>7 DEF TaskRelease
  <2>2. taken < Len(frames) /\ taken' = taken + 1
    BY <1>7 DEF TaskRelease, TaskTyped
  <2>3. QED
    BY <1>1, <2>1, <2>2 DEF TaskTyped
<1>8. ASSUME NEW w \in Wsi, NEW c \in Callback, Create(w, c)
      PROVE  TaskTyped'
  BY <1>1, <1>3, <1>8, ServerEstablishedTyped DEF Create, taskVars
<1>9. CASE Register \/ Remove \/ Prepare \/ Return
  <2>1. TskInit \/ PrepareBegin \/ PrepareEnd \/ CallbackReturn \/ ServiceReturn
    BY <1>9 DEF Register, Remove, Prepare, Return
  <2>2. AppTypeOK'
    BY <1>1, <2>1, ServiceTyped
  <2>3. QED
    BY <1>3, <1>9, <2>2 DEF Register, Remove, Prepare, Return, taskVars
<1>10. ASSUME NEW w \in Wsi, Close(w) \/ Writeable(w)
       PROVE  TaskTyped'
  <2>1. UNCHANGED <<frames, taskVars>>
    BY <1>10 DEF Close, Writeable, OnWriteable, OnWriteableIdle
  <2>2. PICK rearm \in BOOLEAN : ServerClosed(w) \/ ServerWriteable(w, rearm)
    BY <1>10 DEF Close, Writeable, OnWriteable, OnWriteableIdle
  <2>3. AppTypeOK'
    BY <1>1, <2>2, ServerEventTyped
  <2>4. QED
    BY <1>3, <2>1, <2>3 DEF taskVars
<1>11. CASE Failed \/ UNCHANGED vars
  BY <1>2, <1>3, <1>11 DEF Failed, vars, taskVars
<1>12. QED
  BY <1>4, <1>5, <1>6, <1>7, <1>8, <1>9, <1>10, <1>11 DEF Next, Task

\* The types of the variables: the task passes no frame that is not there
\* (send_buffer.cpp:13-27), and a reader none that it has not sent.
THEOREM TypeCorrect == Spec => []TypeOK
<1>1. CtxInv /\ ReadInv /\ TaskTyped => TypeOK
  BY DEF CtxInv, Places, Reporting, ReadInv, Reads, TaskTyped, TypeOK
<1>2. CtxInv /\ ReadInv /\ TaskTyped /\ [Next]_vars => CtxInv' /\ ReadInv' /\ TaskTyped'
  BY CtxInvNext, ReadInvNext, TaskTypedNext
<1>3. QED
  BY <1>1, <1>2, CtxInvInit, ReadInvInit, TaskTypedInit, PTL DEF Spec

-----------------------------------------------------------------------------
(* No wake-up is lost.                                                     *)

\* A connection that is up has a callback that is registered, or one that is still
\* being registered and has been sent nothing.
Enrolled ==
    \A w \in Wsi : phase[w] = "established" =>
       \/ user[w] \in ctx_set_
       \/ user[w] = active /\ ~Served(user[w])

\* While the task reports, each callback it has done with has its event, unless
\* the task has another frame to report after this one.
Reported ==
    task = "report" =>
       \A w \in Wsi :
          phase[w] = "established" /\ user[w] \in ctx_set_ \ todo /\ HasFrame(user[w]) =>
             w \in writable \cup to_send_set \/ taken + 1 < Len(frames)

WakeInv == Enrolled /\ Reported /\ FrameDue

\* What the rest rests on.
Base == CtxInv /\ ReadInv /\ TaskTyped /\ AppInv

LEMMA WakeInvInit == Init => WakeInv
  BY DEF Init, AppInit, WakeInv, Enrolled, Reported, FrameDue

LEMMA AppInvNext == CtxInv /\ TaskTyped /\ AppInv /\ [Next]_vars => AppInv'
<1> SUFFICES ASSUME CtxInv, TaskTyped, AppInv, [Next]_vars
             PROVE  AppInv'
  OBVIOUS
<1>1. AppTypeOK
  BY DEF TaskTyped
<1>2. CASE \/ \E len \in Lengths : Put(len)
           \/ TaskFrame \/ TaskLock \/ TaskRelease \/ Failed \/ UNCHANGED vars
  <2>1. UNCHANGED appVars
    BY <1>2 DEF Put, TaskFrame, TaskLock, TaskRelease, Failed, vars
  <2>2. QED
    BY <2>1, AppInvStutter
<1>3. ASSUME NEW c \in Callback, TaskReport(c)
      PROVE  AppInv'
  <2>1. wsi_[c] \in Wsi \cup {Null} /\ RequestToSend(wsi_[c])
    BY <1>3 DEF CtxInv, Places, TaskReport
  <2>2. QED
    BY <1>1, <2>1, AppInvRequest
<1>4. ASSUME NEW w \in Wsi, NEW c \in Callback, Create(w, c)
      PROVE  AppInv'
  <2>1. ServerEstablished(w, c)
    BY <1>4 DEF Create
  <2>2. QED
    BY <1>1, <2>1, AppInvServerEvent
<1>5. CASE Register \/ Remove \/ Prepare \/ Return
  <2>1. TskInit \/ PrepareBegin \/ PrepareEnd \/ CallbackReturn \/ ServiceReturn
    BY <1>5 DEF Register, Remove, Prepare, Return
  <2>2. QED
    BY <1>1, <2>1, AppInvService
<1>6. ASSUME NEW w \in Wsi, Close(w) \/ Writeable(w)
      PROVE  AppInv'
  <2>1. PICK rearm \in BOOLEAN : ServerClosed(w) \/ ServerWriteable(w, rearm)
    BY <1>6 DEF Close, Writeable, OnWriteable, OnWriteableIdle
  <2>2. QED
    BY <1>1, <2>1, AppInvServerEvent
<1>7. QED
  BY <1>2, <1>3, <1>4, <1>5, <1>6 DEF Next, Task

\* A frame put in the buffer is one the task has still to report.
LEMMA WakeInvPut ==
  ASSUME Base, WakeInv, NEW len \in Lengths, Put(len)
  PROVE  WakeInv'
<1>1. /\ taken \in Nat /\ Len(frames) \in Nat /\ Len(frames') = Len(frames) + 1
      /\ taken <= Len(frames) /\ (task = "report" => taken < Len(frames))
  BY DEF Base, TaskTyped, ReadInv, Reads, Put
<1>2. /\ UNCHANGED <<active, phase, user, writable, to_send_set>>
      /\ UNCHANGED <<taken, task, todo, ctx_set_, rd, from, remain_>>
  BY DEF Put, appVars, serviceVars, setVars, lwsVars, taskVars, ctxVars, readVars
<1>3. taken < Len(frames') /\ (task = "report" => taken + 1 < Len(frames'))
  BY <1>1
<1>4. Enrolled'
  BY <1>2 DEF WakeInv, Enrolled, Served
<1>5. Reported' /\ FrameDue'
  BY <1>2, <1>3 DEF Reported, FrameDue
<1>6. QED
  BY <1>4, <1>5 DEF WakeInv

\* The task takes up a frame, reports each callback, and releases the frame: by
\* then each callback has its event.
LEMMA WakeInvTask == Base /\ WakeInv /\ Task => WakeInv'
<1> SUFFICES ASSUME Base, WakeInv, Task
             PROVE  WakeInv'
  OBVIOUS
<1> USE DEF Base
<1>1. UNCHANGED <<active, phase, user, writable, ctx_set_, frames, rd, from, remain_>>
  BY DEF Task, TaskFrame, TaskLock, TaskReport, RequestToSend, TaskRelease,
         appVars, serviceVars, setVars, lwsVars, ctxVars, readVars
<1>2. Enrolled'
  BY <1>1 DEF WakeInv, Enrolled, Served
<1>3. CASE TaskFrame
  <2>1. UNCHANGED <<taken, todo, to_send_set>> /\ task' # "report"
    BY <1>3 DEF TaskFrame, appVars, setVars
  <2>2. QED
    BY <1>1, <1>2, <2>1 DEF WakeInv, Reported, FrameDue, Served, HasFrame
<1>4. CASE TaskLock
  <2>1. taken' = taken /\ todo' = ctx_set_ /\ taken < Len(frames)
    BY <1>4 DEF TaskLock, TaskTyped
  <2>2. QED
    BY <1>1, <1>2, <2>1 DEF WakeInv, Reported, FrameDue
<1>5. ASSUME NEW c \in Callback, TaskReport(c)
      PROVE  WakeInv'
  <2>1. /\ task = "report" /\ taken' = taken /\ taken < Len(frames)
        /\ todo' = todo \ {c} /\ RequestToSend(wsi_[c])
    BY <1>5 DEF TaskReport, TaskTyped
  <2>2. to_send_set \subseteq to_send_set'
    BY <2>1 DEF RequestToSend
  <2>3. \A w \in Wsi : user[w] = c /\ phase[w] = "established" => w \in to_send_set'
    <3> SUFFICES ASSUME NEW w \in Wsi, user[w] = c, phase[w] = "established"
                 PROVE  w \in to_send_set'
      OBVIOUS
    <3>1. wsi_[c] = w /\ w # Null
      BY WsAppAssumption DEF CtxInv, MadeFor
    <3>2. context
      BY DEF AppInv
    <3>3. QED
      BY <2>1, <3>1, <3>2 DEF RequestToSend
  <2>4. Reported'
    BY <1>1, <2>1, <2>2, <2>3 DEF WakeInv, Reported, HasFrame
  <2>5. FrameDue'
    BY <1>1, <2>1 DEF FrameDue
  <2>6. QED
    BY <1>2, <2>4, <2>5 DEF WakeInv
<1>6. CASE TaskRelease
  <2>1. /\ task = "report" /\ task' # "report" /\ todo = {} /\ taken' = taken + 1
        /\ to_send_set' = to_send_set
    BY <1>6 DEF TaskRelease, appVars, setVars
  <2>2. FrameDue'
    <3> SUFFICES ASSUME NEW w \in Wsi, phase[w] = "established",
                        Served(user[w]), HasFrame(user[w])
                 PROVE  w \in writable \cup to_send_set \/ taken + 1 < Len(frames)
      BY <1>1, <2>1 DEF FrameDue, Served, HasFrame
    <3>1. user[w] \in ctx_set_ \ todo
      BY <2>1 DEF WakeInv, Enrolled
    <3>2. QED
      BY <2>1, <3>1 DEF WakeInv, Reported
  <2>3. QED
    BY <1>2, <2>1, <2>2 DEF WakeInv, Reported
<1>7. QED
  BY <1>3, <1>4, <1>5, <1>6 DEF Task

\* A client connects: it has been sent nothing, and nobody reports it yet.
LEMMA WakeInvCreate ==
  ASSUME Base, WakeInv, NEW w \in Wsi, NEW c \in Callback, Create(w, c)
  PROVE  WakeInv'
<1> USE WsAppAssumption DEF Base
<1>1. /\ active = Null /\ active' = c
      /\ phase' = [phase EXCEPT ![w] = "established"]
      /\ user' = [user EXCEPT ![w] = c]
      /\ rd' = [rd EXCEPT ![c] = Len(frames) + 1]
      /\ from' = [from EXCEPT ![c] = Len(frames) + 1]
      /\ remain_' = [remain_ EXCEPT ![c] = 0]
      /\ UNCHANGED <<frames, taken, task, todo, ctx_set_, writable, to_send_set>>
  BY DEF Create, ServerEstablished, InService, Fresh, taskVars
<1>2. c \notin ctx_set_ /\ \A v \in Wsi : user[v] # c
  BY DEF Create, Unused, CtxInv, Registered
<1>3. \A v \in Wsi : v # w =>
         /\ phase'[v] = phase[v] /\ user'[v] = user[v]
         /\ rd'[user[v]] = rd[user[v]] /\ from'[user[v]] = from[user[v]]
         /\ remain_'[user[v]] = remain_[user[v]]
  BY <1>1, <1>2 DEF CtxInv, Places, ReadInv, Reads
<1>4. /\ user'[w] = c /\ rd'[c] = Len(frames) + 1 /\ from'[c] = Len(frames) + 1
      /\ remain_'[c] = 0 /\ Len(frames) + 1 \in Nat
  BY <1>1 DEF CtxInv, Places, ReadInv, Reads
<1>5. ~Served(c)'
  BY <1>4 DEF Served
<1>6. Enrolled'
  <2> SUFFICES ASSUME NEW v \in Wsi, phase'[v] = "established"
               PROVE  user'[v] \in ctx_set_ \/ (user'[v] = active' /\ ~Served(user[v])')
    BY <1>1 DEF Enrolled, Served
  <2>1. CASE v = w
    BY <1>1, <1>4, <1>5, <2>1 DEF Served
  <2>2. CASE v # w
    <3>1. user[v] \in ctx_set_
      BY <1>1, <1>3, <2>2 DEF WakeInv, Enrolled, CtxInv, Users
    <3>2. QED
      BY <1>3, <2>2, <3>1
  <2>3. QED
    BY <2>1, <2>2
<1>7. Reported'
  BY <1>1, <1>2, <1>3, <1>4 DEF WakeInv, Reported, HasFrame
<1>8. FrameDue'
  BY <1>1, <1>3, <1>4, <1>5 DEF WakeInv, FrameDue, HasFrame, Served
<1>9. QED
  BY <1>6, <1>7, <1>8 DEF WakeInv

\* It is registered, while the task reports nobody.
LEMMA WakeInvRegister == Base /\ WakeInv /\ Register => WakeInv'
<1> SUFFICES ASSUME Base, WakeInv, Register
             PROVE  WakeInv'
  OBVIOUS
<1> USE DEF Base
<1>1. PICK u \in Wsi : user[u] = active /\ phase[u] = "established"
  BY DEF Register
<1>2. /\ task' # "report" /\ active # Null
      /\ ctx_set_' = ctx_set_ \cup {active}
      /\ phase' = [v \in Wsi |-> IF phase[v] = "closed" THEN "free" ELSE phase[v]]
      /\ user' = [v \in Wsi |-> IF phase[v] = "closed" THEN Null ELSE user[v]]
      /\ UNCHANGED <<frames, rd, from, remain_, taken, todo, writable, to_send_set>>
  BY DEF Register, CallbackReturn, FactoryMutexFree, taskVars, readVars
<1>3. \A v \in Wsi : phase'[v] = "established" =>
         phase[v] = "established" /\ user'[v] = user[v]
  BY <1>2
<1>4. Enrolled'
  BY <1>2, <1>3 DEF WakeInv, Enrolled
<1>5. FrameDue' /\ Reported'
  BY <1>2, <1>3 DEF WakeInv, FrameDue, Reported, Served, HasFrame
<1>6. QED
  BY <1>4, <1>5 DEF WakeInv

\* The callback of a connection that is up is not the one that is deleted.
LEMMA WakeInvRemove == Base /\ WakeInv /\ Remove => WakeInv'
<1> SUFFICES ASSUME Base, WakeInv, Remove
             PROVE  WakeInv'
  OBVIOUS
<1> USE DEF Base
<1>1. PICK u \in Wsi : user[u] = active /\ phase[u] = "closed"
  BY DEF Remove
<1>2. /\ task' # "report" /\ active \in Callback
      /\ ctx_set_' = ctx_set_ \ {active}
      /\ phase' = [v \in Wsi |-> IF phase[v] = "closed" THEN "free" ELSE phase[v]]
      /\ user' = [v \in Wsi |-> IF phase[v] = "closed" THEN Null ELSE user[v]]
      /\ rd' = [rd EXCEPT ![active] = 0]
      /\ from' = [from EXCEPT ![active] = 0]
      /\ remain_' = [remain_ EXCEPT ![active] = 0]
      /\ UNCHANGED <<frames, taken, todo, writable, to_send_set>>
  BY DEF Remove, CallbackReturn, FactoryMutexFree, Fresh, taskVars, CtxInv, Places
<1>3. \A v \in Wsi : phase[v] = "established" => user[v] # active
  BY <1>1, <1>2, WsAppAssumption DEF CtxInv, MadeFor
<1>4. \A v \in Wsi : phase'[v] = "established" =>
         /\ phase[v] = "established" /\ user'[v] = user[v]
         /\ rd'[user[v]] = rd[user[v]] /\ from'[user[v]] = from[user[v]]
         /\ remain_'[user[v]] = remain_[user[v]]
  BY <1>2, <1>3 DEF ReadInv, Reads
<1>5. Enrolled'
  BY <1>2, <1>3, <1>4 DEF WakeInv, Enrolled
<1>6. FrameDue' /\ Reported'
  BY <1>2, <1>4 DEF WakeInv, FrameDue, Reported, Served, HasFrame
<1>7. QED
  BY <1>5, <1>6 DEF WakeInv

\* When a connection closes, or an event finds nothing to send, the others keep
\* what they have; the event that sends something asks for the next one.
LEMMA WakeInvEvent ==
  ASSUME Base, WakeInv, NEW w \in Wsi, Close(w) \/ Writeable(w)
  PROVE  WakeInv'
<1> USE WsAppAssumption DEF Base
<1>1. /\ active = Null
      /\ UNCHANGED <<frames, taken, task, todo, ctx_set_, user, to_send_set>>
  BY DEF Close, ServerClosed, Writeable, OnWriteable, OnWriteableIdle, ServerWriteable,
         WriteableEvent, InService, taskVars, ctxVars, setVars
<1>2. \A v \in Wsi : phase[v] = "established" => user[v] \in ctx_set_
  BY <1>1 DEF WakeInv, Enrolled, CtxInv, Users
<1>3. ASSUME \A v \in Wsi : phase'[v] = "established" =>
                /\ phase[v] = "established"
                /\ HasFrame(user[v])' =>
                      \/ v \in writable'
                      \/ /\ HasFrame(user[v]) /\ Served(user[v]) = Served(user[v])'
                         /\ v \in writable => v \in writable'
      PROVE  WakeInv'
  <2>1. Enrolled'
    BY <1>1, <1>2, <1>3 DEF Enrolled
  <2>2. Reported'
    BY <1>1, <1>3 DEF WakeInv, Reported, HasFrame
  <2>3. FrameDue'
    BY <1>1, <1>3 DEF WakeInv, FrameDue, HasFrame, Served
  <2>4. QED
    BY <2>1, <2>2, <2>3 DEF WakeInv
<1>4. CASE Close(w)
  <2>1. /\ phase' = [phase EXCEPT ![w] = "closed"] /\ writable' = writable \ {w}
        /\ UNCHANGED <<rd, from, remain_>>
    BY <1>4 DEF Close, ServerClosed, readVars
  <2>2. QED
    BY <1>1, <1>3, <2>1 DEF CtxInv, Places, HasFrame, Served
<1>5. CASE OnWriteableIdle(w)
  <2>1. /\ phase' = phase /\ writable' = writable \ {w} /\ ~HasFrame(user[w])
        /\ UNCHANGED <<rd, from, remain_>>
    BY <1>5 DEF OnWriteableIdle, ServerWriteable, readVars
  <2>2. QED
    BY <1>1, <1>3, <2>1 DEF HasFrame, Served
<1>6. CASE OnWriteable(w)
  <2>1. /\ phase' = phase /\ writable' = writable /\ w \in writable
        /\ phase[w] = "established" /\ OnSend(user[w])
    BY <1>6 DEF OnWriteable, ServerWriteable, WriteableEvent
  <2>2. \A v \in Wsi : phase[v] = "established" /\ v # w => user[v] # user[w]
    BY <2>1 DEF CtxInv, Users, MadeFor
  <2>3. \A v \in Wsi : phase[v] = "established" /\ v # w =>
           /\ rd'[user[v]] = rd[user[v]] /\ from'[user[v]] = from[user[v]]
           /\ remain_'[user[v]] = remain_[user[v]]
    BY <2>1, <2>2 DEF OnSend, ReadInv, Reads
  <2>4. QED
    BY <1>1, <1>3, <2>1, <2>3 DEF HasFrame, Served
<1>7. QED
  BY <1>4, <1>5, <1>6 DEF Writeable

\* prepare() turns requests into events.
LEMMA WakeInvPrepare == Base /\ WakeInv /\ Prepare => WakeInv'
<1> SUFFICES ASSUME Base, WakeInv, Prepare
             PROVE  WakeInv'
  OBVIOUS
<1>1. /\ UNCHANGED <<active, phase, user, frames, rd, from, remain_>>
      /\ UNCHANGED <<taken, task, todo, ctx_set_>>
  BY DEF Prepare, TskInit, PrepareBegin, PrepareEnd, lwsVars, taskVars, ctxVars, readVars
<1>2. \A w \in Wsi : phase[w] = "established" /\ w \in writable \cup to_send_set =>
         w \in writable' \cup to_send_set'
  BY DEF Prepare, TskInit, PrepareBegin, PrepareEnd, setVars, lwsVars, Base, AppInv
<1>3. Enrolled'
  BY <1>1 DEF WakeInv, Enrolled, Served
<1>4. Reported' /\ FrameDue'
  BY <1>1, <1>2 DEF WakeInv, Reported, FrameDue, Served, HasFrame
<1>5. QED
  BY <1>3, <1>4 DEF WakeInv

LEMMA WakeInvNext == Base /\ WakeInv /\ [Next]_vars => WakeInv'
<1> SUFFICES ASSUME Base, WakeInv, [Next]_vars
             PROVE  WakeInv'
  OBVIOUS
<1>1. CASE Return \/ Failed \/ UNCHANGED vars
  <2>1. /\ UNCHANGED <<active, phase, user, writable, to_send_set>>
        /\ UNCHANGED <<frames, taken, task, todo, ctx_set_, rd, from, remain_>>
    BY <1>1 DEF Return, ServiceReturn, Failed, vars, appVars, serviceVars, setVars, lwsVars,
                taskVars, ctxVars, readVars
  <2>2. QED
    BY <2>1 DEF WakeInv, Enrolled, Reported, FrameDue, Served, HasFrame
<1>2. QED
  BY <1>1, WakeInvPut, WakeInvTask, WakeInvCreate, WakeInvRegister, WakeInvRemove,
     WakeInvEvent, WakeInvPrepare DEF Next

\* What the module knows of every reachable state.
LEMMA BaseAlways == Spec => [](Base /\ WakeInv)
<1>1. Init => Base /\ WakeInv
  BY CtxInvInit, ReadInvInit, TaskTypedInit, AppInvInit, WakeInvInit DEF Init, Base
<1>2. Base /\ WakeInv /\ [Next]_vars => (Base /\ WakeInv)'
  BY CtxInvNext, ReadInvNext, TaskTypedNext, AppInvNext, WakeInvNext DEF Base
<1>3. QED
  BY <1>1, <1>2, PTL DEF Spec

\* A client that has been sent something is not left waiting for a frame in the
\* buffer, however the producer, the task and the service thread take turns, and
\* for clients that come and go meanwhile (send_buffer.cpp:13-27,
\* send_buffer_callback.h:58-125).
THEOREM FramesDue == Spec => []FrameDue
  BY BaseAlways, PTL DEF WakeInv

\* The service does not sleep on a request of the task (wsapp.cpp:44-96,
\* 329-340, 470-493).
THEOREM RequestsHeard == Spec => []NoRequestForgotten
  BY BaseAlways, PTL DEF Base, AppInv

-----------------------------------------------------------------------------
(* The steps of Broadcast.                                                 *)

\* What an event gives the peer: nothing, or the frame its reader is at.
LEMMA OnSendGives ==
  ASSUME ReadInv, NEW c \in Callback, HasFrame(c), rd[c] # 0, OnSend(c)
  PROVE  /\ rd[c] \in 1..Len(frames)
         /\ whole' \in {whole, [whole EXCEPT ![c] = Append(@, FrameBytes(rd[c]))]}
<1> USE SendBufferAssumption
<1>1. /\ rd[c] \in 1..Len(frames)
      /\ Sent(c) \in Nat /\ Remain(c) \in Nat \ {0}
      /\ Sent(c) + Remain(c) = frames[rd[c]]
      /\ PeerHas(c) = Start(rd[c], Sent(c) + ToSend(c))
  BY PeerHasStart DEF ReadInv
<1>2. CASE IsEnd(c)
  <2>1. ToSend(c) = Remain(c)
    BY <1>1, <1>2 DEF ToSend, IsEnd
  <2>2. PeerHas(c) = FrameBytes(rd[c])
    BY <1>1, <2>1 DEF Start, FrameBytes
  <2>3. whole' = [whole EXCEPT ![c] = Append(@, PeerHas(c))]
    BY <1>2 DEF OnSend, PeerGets
  <2>4. QED
    BY <1>1, <2>2, <2>3
<1>3. CASE ~IsEnd(c)
  BY <1>1, <1>3 DEF OnSend, PeerGets
<1>4. QED
  BY <1>2, <1>3

\* What the clients see but for who is awake.
Seen == <<Logged, Here, Since, Given>>

\* A step that shows the clients nothing may wake some of them.
LEMMA BCWake ==
  ASSUME UNCHANGED Seen, Wakeful \subseteq Wakeful'
  PROVE  [BC!Next]_(BC!vars)
<1>1. Wakeful' \subseteq Here'
  BY DEF Wakeful, Here, Awake, Connected
<1>2. BC!Wake(Wakeful')
  BY DEF BC!Wake, Seen
<1>3. QED
  BY <1>1, <1>2 DEF BC!Next, Seen

\* Nothing is shown if the connections, and what is kept of those that are up, stay.
LEMMA SeenSame ==
  ASSUME UNCHANGED frames,
         \A w \in Wsi :
            /\ phase'[w] = "established" <=> phase[w] = "established"
            /\ phase[w] = "established" =>
                  /\ user'[w] = user[w]
                  /\ from'[user[w]] = from[user[w]] /\ whole'[user[w]] = whole[user[w]]
  PROVE  UNCHANGED Seen
<1>1. Logged' = Logged
  BY DEF Logged, FrameBytes
<1>2. \A c \in Callback : Connected(c)' <=> Connected(c)
  BY DEF Connected
<1>3. \A c \in Callback : Connected(c) => from'[c] = from[c] /\ whole'[c] = whole[c]
  BY DEF Connected
<1>4. Here' = Here
  BY <1>2 DEF Here
<1>5. Since' = Since /\ Given' = Given
  BY <1>2, <1>3 DEF Since, Given
<1>6. QED
  BY <1>1, <1>4, <1>5 DEF Seen

\* A frame is put in the log.
LEMMA BCPut ==
  ASSUME Base, NEW len \in Lengths, Put(len)
  PROVE  [BC!Next]_(BC!vars)
<1> USE SendBufferAssumption
<1>1. /\ frames \in Seq(Lengths) /\ frames' = Append(frames, len)
      /\ Len(frames) < MaxFrames /\ len \in Nat
      /\ UNCHANGED <<phase, user, writable, to_send_set, todo, rd, from, remain_, whole>>
  BY DEF Base, ReadInv, Reads, Put, appVars, lwsVars, setVars, taskVars, readVars, peerVars
<1>2. PICK n \in Nat : n = Len(frames)
  BY <1>1
<1> DEFINE f == [i \in 1..len |-> <<n + 1, i>>]
<1>3. f \in Frame
  <2>1. n + 1 \in 1..MaxFrames
    BY <1>1, <1>2
  <2>2. QED
    BY <2>1 DEF Frame
<1>4. Logged' = Append(Logged, f)
  <2>1. /\ Len(frames') = n + 1 /\ frames'[n + 1] = len
        /\ \A k \in 1..n : frames'[k] = frames[k]
    BY <1>1, <1>2
  <2>2. ASSUME NEW k \in 1..n
        PROVE  FrameBytes(k) \in Seq(Nat \X Nat)
    <3>1. k \in Nat /\ k \in 1..Len(frames)
      BY <1>2
    <3>2. frames[k] \in Lengths
      BY <1>1, <3>1, ElementOfSeq
    <3>3. frames[k] \in Nat
      BY <3>2
    <3>4. Start(k, frames[k]) \in Seq(Nat \X Nat)
      BY <3>1, <3>3, StartProperties
    <3>5. QED
      BY <3>4 DEF FrameBytes, Start
  <2>3. f \in Seq(Nat \X Nat)
    <3>1. f = Start(n + 1, len) /\ n + 1 \in Nat
      BY DEF Start
    <3>2. QED
      BY <1>1, <3>1, StartProperties
  <2>4. FrameBytes(n + 1)' = f /\ \A k \in 1..n : FrameBytes(k)' = FrameBytes(k)
    BY <2>1 DEF FrameBytes
  <2> HIDE DEF f
  <2>5. Logged = [k \in 1..n |-> FrameBytes(k)]
    BY <1>2 DEF Logged
  <2>6. Logged' = [k \in 1..(n + 1) |-> FrameBytes(k)']
    BY <2>1 DEF Logged
  <2>7. Logged \in Seq(Seq(Nat \X Nat)) /\ Len(Logged) = n
    BY <2>2, <2>5
  <2>8. ASSUME NEW k \in 1..(n + 1)
        PROVE  /\ FrameBytes(k)' \in Seq(Nat \X Nat)
               /\ FrameBytes(k)' = Append(Logged, f)[k]
    <3>1. CASE k = n + 1
      <4>1. Append(Logged, f)[Len(Logged) + 1] = f
        BY <2>3, <2>7, AppendProperties
      <4>2. QED
        BY <2>3, <2>4, <2>7, <3>1, <4>1
    <3>2. CASE k # n + 1
      <4>1. k \in 1..n
        BY <3>2
      <4>2. QED
        BY <2>2, <2>3, <2>4, <2>5, <2>7, <4>1, AppendProperties
    <3>3. QED
      BY <3>1, <3>2
  <2>9. Logged' \in Seq(Seq(Nat \X Nat)) /\ Len(Logged') = n + 1
    BY <2>6, <2>8
  <2>10. Append(Logged, f) \in Seq(Seq(Nat \X Nat)) /\ Len(Append(Logged, f)) = n + 1
    BY <2>3, <2>7, AppendProperties
  <2>11. \A k \in 1..(n + 1) : Logged'[k] = Append(Logged, f)[k]
    BY <2>6, <2>8
  <2>12. QED
    BY <2>9, <2>10, <2>11, SeqEqual
<1>5. UNCHANGED <<Here, Wakeful, Since, Given>>
  <2>1. \A c \in Callback : /\ Connected(c)' <=> Connected(c)
                            /\ Awake(c)' <=> Awake(c)
    BY <1>1 DEF Connected, Awake, Served
  <2>2. QED
    BY <1>1, <2>1 DEF Here, Wakeful, Since, Given
<1>6. BC!Publish(f)
  BY <1>4, <1>5 DEF BC!Publish
<1>7. QED
  BY <1>3, <1>6 DEF BC!Next

\* The task wakes those it is going to report, and a report stands for the event it
\* asks for.
LEMMA BCTask == Base /\ Task => [BC!Next]_(BC!vars)
<1> SUFFICES ASSUME Base, Task
             PROVE  [BC!Next]_(BC!vars)
  OBVIOUS
<1> USE DEF Base
<1>1. UNCHANGED <<phase, user, writable, frames, rd, from, remain_, whole>>
  BY DEF Task, TaskFrame, TaskLock, TaskReport, RequestToSend, TaskRelease,
         appVars, lwsVars, readVars, peerVars
<1>2. UNCHANGED Seen
  BY <1>1, SeenSame
<1>3. \A c \in Callback : Awake(c) => Awake(c)'
  <2> SUFFICES ASSUME NEW c \in Callback, NEW w \in Wsi,
                      user[w] = c, phase[w] = "established", c \in todo \/ w \in to_send_set
               PROVE  c \in todo' \/ w \in to_send_set'
    BY <1>1 DEF Awake, Served
  <2>1. CASE TaskFrame \/ TaskRelease
    BY <2>1 DEF TaskFrame, TaskRelease, appVars, setVars
  <2>2. CASE TaskLock
    BY <2>2 DEF TaskLock, appVars, setVars, CtxInv, Reporting
  <2>3. ASSUME NEW d \in Callback, TaskReport(d)
        PROVE  c \in todo' \/ w \in to_send_set'
    <3>1. todo' = todo \ {d} /\ RequestToSend(wsi_[d]) /\ context /\ w # Null
      BY <2>3, WsAppAssumption DEF TaskReport, AppInv
    <3>2. wsi_[c] = w
      BY WsAppAssumption DEF CtxInv, MadeFor
    <3>3. QED
      BY <3>1, <3>2 DEF RequestToSend
  <2>4. QED
    BY <2>1, <2>2, <2>3 DEF Task
<1>4. QED
  BY <1>2, <1>3, BCWake DEF Wakeful

\* A client comes.
LEMMA BCCreate ==
  ASSUME Base, NEW w \in Wsi, NEW c \in Callback, Create(w, c)
  PROVE  [BC!Next]_(BC!vars)
<1> USE WsAppAssumption DEF Base
<1>1. /\ phase[w] = "free"
      /\ phase' = [phase EXCEPT ![w] = "established"]
      /\ user' = [user EXCEPT ![w] = c]
      /\ rd' = [rd EXCEPT ![c] = Len(frames) + 1]
      /\ from' = [from EXCEPT ![c] = Len(frames) + 1]
      /\ remain_' = [remain_ EXCEPT ![c] = 0]
      /\ whole' = [whole EXCEPT ![c] = <<>>]
      /\ UNCHANGED <<frames, todo, writable, to_send_set>>
  BY DEF Create, ServerEstablished, Fresh, taskVars
<1>2. \A v \in Wsi : user[v] # c
  BY DEF Create, Unused
<1>3. \A d \in Callback \ {c} :
         /\ Connected(d)' <=> Connected(d)
         /\ from'[d] = from[d] /\ whole'[d] = whole[d]
         /\ Awake(d)' <=> Awake(d)
  <2> SUFFICES ASSUME NEW d \in Callback \ {c}
               PROVE  /\ Connected(d)' <=> Connected(d)
                      /\ from'[d] = from[d] /\ whole'[d] = whole[d]
                      /\ Awake(d)' <=> Awake(d)
    OBVIOUS
  <2>1. rd'[d] = rd[d] /\ from'[d] = from[d] /\ remain_'[d] = remain_[d] /\ whole'[d] = whole[d]
    BY <1>1 DEF ReadInv, Reads
  <2>2. \A v \in Wsi : user'[v] = d /\ phase'[v] = "established" <=>
                       user[v] = d /\ phase[v] = "established"
    BY <1>1 DEF CtxInv, Places
  <2>3. QED
    BY <1>1, <2>1, <2>2 DEF Connected, Awake, Served
<1>4. /\ ~Connected(c) /\ Connected(c)' /\ ~Awake(c)
      /\ from'[c] = Len(frames) + 1 /\ whole'[c] = <<>>
  <2>1. user'[w] = c /\ phase'[w] = "established"
    BY <1>1 DEF CtxInv, Places
  <2>2. from'[c] = Len(frames) + 1 /\ whole'[c] = <<>>
    BY <1>1 DEF ReadInv, Reads
  <2>3. QED
    BY <1>2, <2>1, <2>2 DEF Connected, Awake
<1>5. Logged' = Logged /\ Len(Logged) = Len(frames)
  <2>1. Len(frames) \in Nat
    BY DEF ReadInv, Reads
  <2>2. QED
    BY <1>1, <2>1 DEF Logged, FrameBytes
<1>6. c \notin Here /\ Here' = Here \cup {c}
  BY <1>3, <1>4 DEF Here
<1>7. Wakeful' \in {Wakeful, Wakeful \cup {c}}
  BY <1>3, <1>4 DEF Wakeful
<1>8. Since' = [Since EXCEPT ![c] = Len(Logged) + 1]
  BY <1>3, <1>4, <1>5 DEF Since
<1>9. Given' = Given
  BY <1>3, <1>4 DEF Given
<1>10. BC!Join(c)
  BY <1>5, <1>6, <1>7, <1>8, <1>9 DEF BC!Join
<1>11. QED
  BY <1>10 DEF BC!Next

\* Registering and deleting a callback, and what the service does outside
\* callback_minimal(), shows no client anything.
LEMMA BCService == Base /\ (Register \/ Remove \/ Prepare \/ Return) => [BC!Next]_(BC!vars)
<1> SUFFICES ASSUME Base, Register \/ Remove \/ Prepare \/ Return
             PROVE  [BC!Next]_(BC!vars)
  OBVIOUS
<1> USE DEF Base
<1>1. ASSUME UNCHANGED <<frames, todo>>,
             \A w \in Wsi :
                /\ phase'[w] = "established" <=> phase[w] = "established"
                /\ phase[w] = "established" =>
                      /\ user'[w] = user[w]
                      /\ from'[user[w]] = from[user[w]] /\ whole'[user[w]] = whole[user[w]]
                      /\ rd'[user[w]] = rd[user[w]] /\ remain_'[user[w]] = remain_[user[w]]
                      /\ w \in writable \cup to_send_set => w \in writable' \cup to_send_set'
      PROVE  [BC!Next]_(BC!vars)
  <2>1. UNCHANGED Seen
    BY <1>1, SeenSame
  <2>2. \A c \in Callback : Awake(c) => Awake(c)'
    BY <1>1 DEF Awake, Served
  <2>3. QED
    BY <2>1, <2>2, BCWake DEF Wakeful
<1>2. CASE Register
  BY <1>1, <1>2 DEF Register, CallbackReturn, taskVars, readVars, peerVars
<1>3. CASE Remove
  <2>1. PICK u \in Wsi : user[u] = active /\ phase[u] = "closed"
    BY <1>3 DEF Remove
  <2>2. /\ active \in Callback /\ Fresh(active, Null, 0) /\ CallbackReturn
        /\ UNCHANGED <<frames, todo, writable, to_send_set>>
    BY <1>3 DEF Remove, CallbackReturn, CtxInv, Places, taskVars
  <2>3. \A v \in Wsi : phase[v] = "established" => user[v] # active
    BY <2>1, <2>2, WsAppAssumption DEF CtxInv, MadeFor
  <2>4. \A d : d # active => /\ rd'[d] = rd[d] /\ from'[d] = from[d]
                             /\ remain_'[d] = remain_[d] /\ whole'[d] = whole[d]
    BY <2>2 DEF Fresh, ReadInv, Reads
  <2>5. QED
    BY <1>1, <2>2, <2>3, <2>4 DEF CallbackReturn
<1>4. CASE Prepare
  BY <1>1, <1>4 DEF Prepare, TskInit, PrepareBegin, PrepareEnd, AppInv,
                    setVars, lwsVars, taskVars, readVars, peerVars
<1>5. CASE Return
  BY <1>1, <1>5 DEF Return, ServiceReturn, setVars, lwsVars, taskVars, readVars, peerVars
<1>6. QED
  BY <1>2, <1>3, <1>4, <1>5

\* A client goes.
LEMMA BCClose ==
  ASSUME Base, NEW w \in Wsi, Close(w)
  PROVE  [BC!Next]_(BC!vars)
<1> USE WsAppAssumption DEF Base
<1>1. /\ phase[w] \in {"closing", "established"} /\ phase' = [phase EXCEPT ![w] = "closed"]
      /\ writable' = writable \ {w}
      /\ UNCHANGED <<user, frames, todo, to_send_set, rd, from, remain_, whole>>
  BY DEF Close, ServerClosed, setVars, taskVars, readVars, peerVars
<1>2. phase[w] = "established"
  BY <1>1 DEF CtxInv, Users
<1>3. PICK c \in Callback : c = user[w]
  BY <1>2 DEF CtxInv, Places, Users
<1>4. \A v \in Wsi : user[v] = c => v = w
  BY <1>3 DEF CtxInv, MadeFor
<1>5. phase'[w] = "closed" /\ \A v \in Wsi \ {w} : phase'[v] = phase[v]
  BY <1>1 DEF CtxInv, Places
<1>6. \A d \in Callback \ {c} : /\ Connected(d)' <=> Connected(d)
                                /\ Awake(d)' <=> Awake(d)
  BY <1>1, <1>3, <1>5 DEF Connected, Awake, Served
<1>7. Connected(c) /\ ~Connected(c)' /\ ~Awake(c)'
  BY <1>1, <1>2, <1>3, <1>4, <1>5 DEF Connected, Awake
<1>8. Logged' = Logged
  BY <1>1 DEF Logged, FrameBytes
<1>9. c \in Here /\ Here' = Here \ {c}
  <2>1. \A d \in Callback : Connected(d)' <=> Connected(d) /\ d # c
    BY <1>6, <1>7
  <2>2. QED
    BY <1>7, <2>1 DEF Here
<1>10. Wakeful' = Wakeful \ {c}
  <2>1. \A d \in Callback : Awake(d)' <=> Awake(d) /\ d # c
    BY <1>6, <1>7
  <2>2. QED
    BY <2>1 DEF Wakeful
<1>11. Since' = [Since EXCEPT ![c] = 0]
  <2>1. \A d \in Callback : Since'[d] = IF d = c THEN 0 ELSE Since[d]
    BY <1>1, <1>6, <1>7 DEF Since
  <2>2. QED
    BY <2>1 DEF Since
<1>12. Given' = [Given EXCEPT ![c] = <<>>]
  <2>1. \A d \in Callback : Given'[d] = IF d = c THEN <<>> ELSE Given[d]
    BY <1>1, <1>6, <1>7 DEF Given
  <2>2. QED
    BY <2>1 DEF Given
<1>13. BC!Leave(c)
  BY <1>8, <1>9, <1>10, <1>11, <1>12 DEF BC!Leave
<1>14. QED
  BY <1>13 DEF BC!Next

\* An event that finds nothing: a client that has been sent something stays awake,
\* for it will have an event with the next report.
LEMMA BCIdle ==
  ASSUME Base, NEW w \in Wsi, OnWriteableIdle(w)
  PROVE  [BC!Next]_(BC!vars)
<1> USE WsAppAssumption DEF Base
<1>1. /\ phase[w] = "established" /\ ~HasFrame(user[w])
      /\ writable' = writable \ {w}
      /\ UNCHANGED <<phase, user, frames, todo, to_send_set, rd, from, remain_, whole>>
  BY DEF OnWriteableIdle, ServerWriteable, setVars, taskVars, readVars, peerVars
<1>2. PICK c \in Callback : c = user[w]
  BY <1>1 DEF CtxInv, Places, Users
<1>3. \A d \in Callback \ {c} : Awake(d)' <=> Awake(d)
  BY <1>1, <1>2 DEF Awake, Served
<1>4. UNCHANGED Seen
  BY <1>1, SeenSame
<1>5. CASE Awake(c)'
  BY <1>3, <1>4, <1>5, BCWake DEF Wakeful
<1>6. CASE ~Awake(c)'
  <2>1. ~Served(c)
    BY <1>1, <1>2, <1>6 DEF Awake, Served
  <2>2. /\ rd[c] \in Nat /\ from[c] \in Nat /\ whole[c] \in Seq(Seq(Nat \X Nat))
        /\ Len(whole[c]) \in Nat /\ Len(frames) \in Nat
        /\ from[c] + Len(whole[c]) = rd[c]
    BY DEF ReadInv, Reads, GotWhole
  <2>3. rd[c] > Len(frames)
    BY <1>1, <1>2, <2>2 DEF HasFrame
  <2>4. Len(whole[c]) = 0
    BY <2>1, <2>2 DEF Served
  <2>5. whole[c] = <<>>
    BY <2>2, <2>4, EmptySeq
  <2>6. Connected(c)
    BY <1>1, <1>2 DEF Connected
  <2>7. Since[c] = from[c] /\ Given[c] = <<>> /\ Len(Logged) = Len(frames)
    BY <2>2, <2>5, <2>6 DEF Since, Given, Logged
  <2>8. BC!Due(c) > Len(Logged)
    BY <2>2, <2>3, <2>4, <2>5, <2>7 DEF BC!Due
  <2>9. Wakeful' = Wakeful \ {c}
    BY <1>3, <1>6 DEF Wakeful
  <2>10. BC!Doze(c)
    BY <1>4, <2>7, <2>8, <2>9 DEF BC!Doze, Seen
  <2>11. QED
    BY <2>10 DEF BC!Next
<1>7. QED
  BY <1>5, <1>6

\* An event that sends: the fragment is the last of the frame and the client is given
\* it, or it shows nothing; the event asks for the next one.
LEMMA BCSend ==
  ASSUME Base, NEW w \in Wsi, OnWriteable(w)
  PROVE  [BC!Next]_(BC!vars)
<1> USE WsAppAssumption DEF Base
<1>1. /\ phase[w] = "established" /\ w \in writable /\ HasFrame(user[w]) /\ OnSend(user[w])
      /\ UNCHANGED <<phase, user, frames, todo, writable, to_send_set, from>>
  BY DEF OnWriteable, ServerWriteable, WriteableEvent, OnSend, setVars, taskVars
<1>2. PICK c \in Callback : c = user[w]
  BY <1>1 DEF CtxInv, Places, Users
<1>3. OnSend(c) /\ HasFrame(c) /\ rd[c] # 0
  BY <1>1, <1>2 DEF ReadInv, Reading
<1>4. /\ rd[c] \in 1..Len(frames)
      /\ whole' \in {whole, [whole EXCEPT ![c] = Append(@, FrameBytes(rd[c]))]}
  BY <1>3, OnSendGives
<1>5. \A d \in Callback \ {c} : /\ rd'[d] = rd[d] /\ remain_'[d] = remain_[d]
                                /\ whole'[d] = whole[d]
  BY <1>3, <1>4 DEF OnSend, ReadInv, Reads
<1>6. Connected(c) /\ Awake(c) /\ Awake(c)'
  BY <1>1, <1>2 DEF Connected, Awake
<1>7. \A d \in Callback : /\ Connected(d)' <=> Connected(d)
                          /\ Awake(d)' <=> Awake(d)
  BY <1>1, <1>5, <1>6 DEF Connected, Awake, Served
<1>8. Logged' = Logged /\ Here' = Here /\ Wakeful' = Wakeful /\ Since' = Since
  <2>1. Logged' = Logged
    BY <1>1 DEF Logged, FrameBytes
  <2>2. Here' = Here
    BY <1>7 DEF Here
  <2>3. Wakeful' = Wakeful
    BY <1>7 DEF Wakeful
  <2>4. Since' = Since
    BY <1>1, <1>7 DEF Since
  <2>5. QED
    BY <2>1, <2>2, <2>3, <2>4
<1>9. CASE whole' = whole
  <2>1. Given' = Given
    BY <1>7, <1>9 DEF Given
  <2>2. QED
    BY <1>8, <2>1 DEF BC!vars
<1>10. CASE whole' = [whole EXCEPT ![c] = Append(@, FrameBytes(rd[c]))]
  <2>1. /\ Since[c] = from[c] /\ Given[c] = whole[c] /\ c \in Wakeful
        /\ Logged[rd[c]] = FrameBytes(rd[c]) /\ Len(Logged) = Len(frames)
    BY <1>4, <1>6 DEF Since, Given, Wakeful, Logged, ReadInv, Reads
  <2>2. BC!Due(c) = rd[c]
    BY <2>1 DEF BC!Due, ReadInv, GotWhole
  <2>3. whole'[c] = Append(whole[c], FrameBytes(rd[c]))
    BY <1>10 DEF ReadInv, Reads
  <2>4. Given' = [Given EXCEPT ![c] = Append(@, Logged[BC!Due(c)])]
    <3>1. \A d \in Callback : Given'[d] = IF d = c THEN Append(Given[c], Logged[rd[c]])
                                                   ELSE Given[d]
      <4> SUFFICES ASSUME NEW d \in Callback
                   PROVE  Given'[d] = IF d = c THEN Append(Given[c], Logged[rd[c]])
                                               ELSE Given[d]
        OBVIOUS
      <4>1. CASE d = c
        BY <1>6, <1>7, <2>1, <2>3, <4>1 DEF Given
      <4>2. CASE d # c
        BY <1>5, <1>7, <4>2 DEF Given
      <4>3. QED
        BY <4>1, <4>2
    <3>2. QED
      BY <2>2, <3>1 DEF Given
  <2>5. BC!Due(c) <= Len(Logged)
    BY <1>4, <2>1, <2>2 DEF ReadInv, Reads
  <2>6. BC!Deliver(c)
    BY <1>8, <2>1, <2>4, <2>5 DEF BC!Deliver
  <2>7. QED
    BY <2>6 DEF BC!Next
<1>11. QED
  BY <1>4, <1>9, <1>10

LEMMA BCNext == Base /\ [Next]_vars => [BC!Next]_(BC!vars)
<1> SUFFICES ASSUME Base, [Next]_vars
             PROVE  [BC!Next]_(BC!vars)
  OBVIOUS
<1>1. CASE UNCHANGED vars \/ Failed
  <2>1. /\ UNCHANGED <<frames, phase, user, writable, to_send_set>>
        /\ UNCHANGED <<todo, rd, remain_, from, whole>>
    BY <1>1 DEF Failed, vars, appVars, lwsVars, setVars, taskVars, readVars, peerVars
  <2>2. UNCHANGED Seen
    BY <2>1, SeenSame
  <2>3. Wakeful' = Wakeful
    BY <2>1 DEF Wakeful, Awake, Served
  <2>4. QED
    BY <2>2, <2>3, BCWake
<1>2. QED
  BY <1>1, BCPut, BCTask, BCCreate, BCService, BCClose, BCIdle, BCSend DEF Next, Writeable

\* The buffer, its task and the service are a Broadcast in all they do: no client is
\* given a frame of before it came, a frame twice, part of one, or one that is not its
\* next, and one that has been given a frame is never put off the next
\* (send_buffer.cpp:13-27, send_buffer_callback.h:22-178,
\* connection_callback.cpp:81-83).
THEOREM Broadcasts == Spec => BC!Init /\ [][BC!Next]_(BC!vars)
<1>1. Init => BC!Init
  <2> SUFFICES ASSUME Init
               PROVE  BC!Init
    OBVIOUS
  <2>1. frames = <<>> /\ \A c \in Callback : ~Connected(c) /\ ~Awake(c)
    BY DEF Init, AppInit, Connected, Awake
  <2>2. QED
    BY <2>1 DEF BC!Init, Logged, Here, Wakeful, Since, Given
<1>2. Base /\ [Next]_vars => [BC!Next]_(BC!vars)
  BY BCNext
<1>3. QED
  BY <1>1, <1>2, BaseAlways, PTL DEF Spec
=============================================================================
