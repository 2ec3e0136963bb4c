-------------------------- MODULE Fragments_proofs --------------------------
(***************************************************************************)
(* Theorems about Fragments: for a buffer and an int of any size, and any  *)
(* messages, in any fragments.                                             *)
(***************************************************************************)
EXTENDS Fragments, TLAPS

\* The part of the types that the argument needs, and what is known of the
\* message that is arriving.
Count ==
    /\ msg \in Nat
    /\ off \in Nat
    /\ first \in Nat
    /\ first <= off
    /\ received_ \in Int

FInv == Count /\ BufferHoldsMessage

\* A sum that is no more than recv_buf_size_ has not overflowed.
LEMMA NoOverflow ==
  ASSUME NEW at \in Nat, NEW len \in Nat, at + len <= RecvBufSize
  PROVE  Total(at, len) = at + len /\ Fits(at, len)
  BY FragmentsAssumption DEF Total, Fits, Wrap

\* append() puts the next bytes of a message after those it has already put.
LEMMA AppendExtends ==
  ASSUME NEW m, NEW at \in Nat, NEW len \in Nat, at + len <= RecvBufSize,
         \A i \in 1..at : recv_buf_[i] = <<m, i>>
  PROVE  \A i \in 1..(at + len) : Appended(at, Bytes(m, at, len), len)[i] = <<m, i>>
<1> SUFFICES ASSUME NEW i \in 1..(at + len)
             PROVE  Appended(at, Bytes(m, at, len), len)[i] = <<m, i>>
  OBVIOUS
<1>1. i \in 1..RecvBufSize /\ Fits(at, len)
  BY NoOverflow, FragmentsAssumption
<1>2. CASE i \in Place(at, len)
  <2>1. i - at \in 1..len
    BY <1>2 DEF Place
  <2>2. Bytes(m, at, len)[i - at] = <<m, i>>
    BY <2>1 DEF Bytes
  <2>3. QED
    BY <1>1, <1>2, <2>2 DEF Appended
<1>3. CASE i \notin Place(at, len)
  <2>1. i \in 1..at
    BY <1>3 DEF Place
  <2>2. QED
    BY <1>1, <1>3, <2>1 DEF Appended
<1>4. QED
  BY <1>2, <1>3

\* So does the next fragment of the message that is arriving.
LEMMA ArrivedExtends ==
  ASSUME FInv, open, first > 0, NEW len \in Nat, off + len <= RecvBufSize
  PROVE  \A i \in 1..(off + len) : Appended(off, Bytes(msg, off, len), len)[i] = <<msg, i>>
<1>1. off \in Nat /\ off <= RecvBufSize
  BY FragmentsAssumption DEF FInv, Count
<1>2. \A i \in 1..off : recv_buf_[i] = <<msg, i>>
  BY <1>1 DEF FInv, BufferHoldsMessage
<1>3. QED
  BY <1>1, <1>2, AppendExtends

LEMMA FInvInit == Init => FInv
<1> SUFFICES ASSUME Init
             PROVE  FInv
  OBVIOUS
<1>1. Count
  BY DEF Init, Count
<1>2. BufferHoldsMessage
  BY DEF Init, BufferHoldsMessage
<1>3. QED
  BY <1>1, <1>2 DEF FInv

LEMMA WrapInt == ASSUME NEW n \in Int PROVE Wrap(n) \in Int
  BY FragmentsAssumption DEF Wrap

LEMMA FInvNext == FInv /\ [Next]_vars => FInv'
<1> SUFFICES ASSUME FInv, [Next]_vars
             PROVE  FInv'
  OBVIOUS
<1> USE FragmentsAssumption DEF FInv, Count
<1>1. ASSUME NEW len \in 0..MaxFragment, NEW end \in BOOLEAN, FirstFragment(len, end)
      PROVE  FInv'
  <2>1. Total(0, len) \in Int
    BY WrapInt DEF Total
  <2>2. Count'
    BY <1>1, <2>1 DEF FirstFragment, recv, RecvWhole, RecvStart
  <2>3. BufferHoldsMessage'
    <3> SUFFICES ASSUME open', first' > 0, off' <= RecvBufSize
                 PROVE  received_' = off' /\ \A i \in 1..off' : recv_buf_'[i] = <<msg', i>>
      BY DEF BufferHoldsMessage
    <3>1. /\ msg' = msg + 1 /\ off' = len /\ received_' = Total(0, len)
          /\ recv_buf_' = Appended(0, Bytes(msg + 1, 0, len), len)
      BY <1>1 DEF FirstFragment, recv, RecvStart, append
    <3>2. len \in Nat /\ 0 + len <= RecvBufSize /\ 0 + len = len
      BY <3>1
    <3>3. Total(0, len) = len
      BY <3>2, NoOverflow
    <3>4. \A i \in 1..(0 + len) : Appended(0, Bytes(msg + 1, 0, len), len)[i] = <<msg + 1, i>>
      BY <3>2, AppendExtends
    <3>5. QED
      BY <3>1, <3>2, <3>3, <3>4
  <2>4. QED
    BY <2>2, <2>3
<1>2. ASSUME NEW len \in 0..MaxFragment, NEW end \in BOOLEAN, NextFragment(len, end)
      PROVE  FInv'
  <2>1. Total(received_, len) \in Int
    BY WrapInt DEF Total
  <2>2. Count'
    BY <1>2, <2>1 DEF NextFragment, recv, RecvStray, RecvMore, RecvLast, recvVars
  <2>3. BufferHoldsMessage'
    <3> SUFFICES ASSUME open', first' > 0, off' <= RecvBufSize
                 PROVE  received_' = off' /\ \A i \in 1..off' : recv_buf_'[i] = <<msg', i>>
      BY DEF BufferHoldsMessage
    <3>1. /\ open /\ ~end /\ first > 0 /\ len \in Nat
          /\ off' = off + len /\ off + len <= RecvBufSize /\ msg' = msg
      <4>1. open /\ ~end
        BY <1>2, Zenon DEF NextFragment
      <4>2. QED
        BY <1>2, <4>1 DEF NextFragment
    <3>2. received_ = off /\ off # 0
      BY <3>1 DEF BufferHoldsMessage
    <3>3. /\ received_' = Total(off, len)
          /\ recv_buf_' = Appended(off, Bytes(msg, off, len), len)
      <4>1. RecvMore(Bytes(msg, off, len), len)
        BY <1>2, <3>1, <3>2 DEF NextFragment, recv, RecvStray
      <4>2. QED
        BY <3>2, <4>1 DEF RecvMore, append
    <3>4. received_' = off'
      BY <3>1, <3>3, NoOverflow
    <3>5. \A i \in 1..(off + len) : Appended(off, Bytes(msg, off, len), len)[i] = <<msg, i>>
      <4> HIDE DEF FInv, Count
      <4>1. QED
        BY <3>1, ArrivedExtends
    <3>6. QED
      BY <3>1, <3>3, <3>4, <3>5
  <2>4. QED
    BY <2>2, <2>3
<1>3. CASE Reconnect
  BY <1>3 DEF Reconnect, recvVars, BufferHoldsMessage
<1>4. CASE UNCHANGED vars
  BY <1>4 DEF vars, peerVars, recvVars, BufferHoldsMessage
<1>5. QED
  BY <1>1, <1>2, <1>3, <1>4 DEF Next, Fragment

\* With the last fragment, what is in the buffer is the whole message.
LEMMA HandedOverWhole ==
  ASSUME FInv, open, first > 0, NEW len \in Nat, off + len <= RecvBufSize
  PROVE  HandedOver(off, Bytes(msg, off, len), len) = Message(msg, off + len)
<1>1. off \in Nat
  BY DEF FInv, Count
<1>2. \A i \in 1..(off + len) : Appended(off, Bytes(msg, off, len), len)[i] = <<msg, i>>
  BY ArrivedExtends
<1>3. Total(off, len) = off + len
  BY <1>1, NoOverflow
<1>4. \A i \in 1..(off + len) : i <= RecvBufSize
  BY <1>1, FragmentsAssumption
<1>5. HandedOver(off, Bytes(msg, off, len), len) = [i \in 1..(off + len) |-> <<msg, i>>]
  BY <1>2, <1>3, <1>4 DEF HandedOver
<1>6. Message(msg, off + len) = [i \in 1..(off + len) |-> <<msg, i>>]
  BY <1>1 DEF Message, Bytes
<1>7. QED
  BY <1>5, <1>6

LEMMA FInvAlways == Spec => []FInv
<1>1. Init => FInv
  BY FInvInit
<1>2. FInv /\ [Next]_vars => FInv'
  BY FInvNext
<1>3. QED
  BY <1>1, <1>2, PTL DEF Spec

\* A message in one fragment, or one that fits and starts with a fragment that
\* is not empty, is handed to on_recv() whole with its last fragment, whatever
\* came before it.
THEOREM Delivery == Spec => ExactDelivery
<1> DEFINE Exact == Completes /\ (InOneFragment \/ (first > 0 /\ off' <= RecvBufSize)) => DeliversIt
<1>1. ASSUME FInv, [Next]_vars
      PROVE  Exact
  <2> SUFFICES ASSUME Completes, InOneFragment \/ (first > 0 /\ off' <= RecvBufSize)
               PROVE  DeliversIt
    OBVIOUS
  <2> USE <1>1, FragmentsAssumption DEF FInv, Count
  <2>1. ASSUME NEW len \in 0..MaxFragment, NEW end \in BOOLEAN, FirstFragment(len, end)
        PROVE  DeliversIt
    BY <2>1 DEF FirstFragment, recv, RecvWhole, OnRecv, Completes, DeliversIt, Message
  <2>2. ASSUME NEW len \in 0..MaxFragment, NEW end \in BOOLEAN, NextFragment(len, end)
        PROVE  DeliversIt
    <3>1. /\ open /\ first > 0 /\ end /\ len \in Nat
          /\ off' = off + len /\ off + len <= RecvBufSize /\ msg' = msg
      BY <2>2 DEF NextFragment, Completes, InOneFragment
    <3>2. received_ = off /\ off # 0
      BY <3>1 DEF BufferHoldsMessage
    <3>3. RecvLast(Bytes(msg, off, len), len)
      BY <2>2, <3>1, <3>2 DEF NextFragment, recv, RecvStray
    <3>4. HandedOver(off, Bytes(msg, off, len), len) = Message(msg, off + len)
      BY <1>1, <3>1, HandedOverWhole
    <3>5. delivered' = Append(delivered, HandedOver(off, Bytes(msg, off, len), len))
      BY <3>2, <3>3 DEF RecvLast, OnRecv
    <3>6. QED
      BY <3>1, <3>4, <3>5 DEF DeliversIt
  <2>3. CASE Reconnect \/ UNCHANGED vars
    BY <2>3 DEF Reconnect, vars, peerVars, Completes
  <2>4. QED
    BY <2>1, <2>2, <2>3 DEF Next, Fragment
<1>2. FInv /\ [Next]_vars => [Exact]_vars
  BY <1>1
<1>3. QED
  BY <1>2, FInvAlways, PTL DEF Spec, ExactDelivery

-----------------------------------------------------------------------------
(* Incomplete messages, and the bounds of the buffer.                      *)

\* What is arriving is not complete, and received_ counts no more of it than
\* has arrived: until an int overflows, received_ is not negative.
Progress ==
    /\ msg \in Nat
    /\ completed \in Nat
    /\ completed <= msg
    /\ open => completed < msg
    /\ off \in Nat
    /\ received_ \in Int
    /\ open => received_ <= off /\ (off <= IntMax => received_ >= 0)

LEMMA ProgressNext == Progress /\ [Next]_vars => Progress'
<1> SUFFICES ASSUME Progress, [Next]_vars
             PROVE  Progress'
  OBVIOUS
<1> USE FragmentsAssumption DEF Progress
<1>1. ASSUME NEW len \in 0..MaxFragment, NEW end \in BOOLEAN, FirstFragment(len, end)
      PROVE  Progress'
  <2>1. Total(0, len) \in Int /\ Total(0, len) <= len /\ (len <= IntMax => Total(0, len) = len)
    BY DEF Total, Wrap
  <2>2. CASE end
    <3>1. ~open'
      BY <1>1, <2>2, Zenon DEF FirstFragment
    <3>2. msg' = msg + 1 /\ off' = len /\ completed' = msg + 1 /\ received_' = 0
      BY <1>1, <2>2 DEF FirstFragment, recv, RecvWhole
    <3>3. QED
      BY <3>1, <3>2
  <2>3. CASE ~end
    <3>1. /\ msg' = msg + 1 /\ off' = len /\ completed' = completed
          /\ received_' = Total(0, len)
      BY <1>1, <2>3 DEF FirstFragment, recv, RecvStart
    <3>2. QED
      BY <2>1, <3>1
  <2>4. QED
    BY <2>2, <2>3
<1>2. ASSUME NEW len \in 0..MaxFragment, NEW end \in BOOLEAN, NextFragment(len, end)
      PROVE  Progress'
  <2>1. open
    BY <1>2 DEF NextFragment
  <2>2. /\ Total(received_, len) \in Int
        /\ Total(received_, len) <= off + len
        /\ off + len <= IntMax => Total(received_, len) = received_ + len
    <3>1. received_ <= off /\ (off <= IntMax => received_ >= 0)
      BY <2>1
    <3>2. QED
      BY <3>1 DEF Total, Wrap
  <2>3. CASE end
    <3>1. ~open'
      BY <1>2, <2>3, Zenon DEF NextFragment
    <3>2. msg' = msg /\ off' = off + len /\ completed' = msg /\ received_' = 0
      BY <1>2, <2>3 DEF NextFragment, recv, RecvStray, recvVars, RecvLast
    <3>3. QED
      BY <3>1, <3>2
  <2>4. CASE ~end
    <3>1. msg' = msg /\ off' = off + len /\ completed' = completed
      BY <1>2, <2>4 DEF NextFragment
    <3>2. \/ received_ = 0 /\ received_' = 0
          \/ received_' = Total(received_, len)
      BY <1>2, <2>4 DEF NextFragment, recv, RecvStray, recvVars, RecvMore
    <3>3. QED
      BY <2>1, <2>2, <3>1, <3>2
  <2>5. QED
    BY <2>3, <2>4
<1>3. CASE Reconnect
  BY <1>3 DEF Reconnect, recvVars
<1>4. CASE UNCHANGED vars
  BY <1>4 DEF vars, peerVars, recvVars
<1>5. QED
  BY <1>1, <1>2, <1>3, <1>4 DEF Next, Fragment

LEMMA ProgressAlways == Spec => []Progress
<1>1. Init => Progress
  BY DEF Init, Progress
<1>2. QED
  BY <1>1, ProgressNext, PTL DEF Spec

\* Nothing but a complete message is ever handed to on_recv(), whatever was cut
\* off before it.
THEOREM Completeness == Spec => OnlyComplete
<1> DEFINE Only == delivered' # delivered => Completes
<1>1. ASSUME Progress, [Next]_vars
      PROVE  Only
  <2> SUFFICES ASSUME delivered' # delivered
               PROVE  Completes
    OBVIOUS
  <2>1. ASSUME NEW len \in 0..MaxFragment, NEW end \in BOOLEAN, FirstFragment(len, end)
        PROVE  Completes
    <3>1. end
      BY <2>1 DEF FirstFragment, recv, RecvStart
    <3>2. completed' = msg + 1
      BY <2>1, <3>1 DEF FirstFragment
    <3>3. QED
      BY <1>1, <3>2 DEF Progress, Completes
  <2>2. ASSUME NEW len \in 0..MaxFragment, NEW end \in BOOLEAN, NextFragment(len, end)
        PROVE  Completes
    <3>1. open /\ end
      BY <2>2 DEF NextFragment, recv, RecvStray, recvVars, RecvMore
    <3>2. completed' = msg
      BY <2>2, <3>1 DEF NextFragment
    <3>3. QED
      BY <1>1, <3>1, <3>2 DEF Progress, Completes
  <2>3. CASE Reconnect \/ UNCHANGED vars
    BY <2>3 DEF Reconnect, vars, recvVars
  <2>4. QED
    BY <1>1, <2>1, <2>2, <2>3 DEF Next, Fragment
<1>2. Progress /\ [Next]_vars => [Only]_vars
  BY <1>1
<1>3. QED
  BY <1>2, ProgressAlways, PTL DEF Spec, OnlyComplete

LEMMA OutsideBoolean == Spec => [](outside \in BOOLEAN)
<1>1. Init => outside \in BOOLEAN
  BY DEF Init
<1>2. outside \in BOOLEAN /\ [Next]_vars => (outside \in BOOLEAN)'
  <2> SUFFICES ASSUME outside \in BOOLEAN, [Next]_vars
               PROVE  outside' \in BOOLEAN
    OBVIOUS
  <2>1. ASSUME NEW at, NEW data, NEW len, append(at, data, len)
        PROVE  outside' \in BOOLEAN
    BY <2>1, Zenon DEF append
  <2>2. ASSUME NEW start, NEW end, NEW data, NEW len, recv(start, end, data, len)
        PROVE  outside' \in BOOLEAN
    BY <2>1, <2>2 DEF recv, RecvWhole, RecvStart, RecvStray, RecvMore, RecvLast, recvVars
  <2>3. CASE Reconnect \/ UNCHANGED vars
    BY <2>3 DEF Reconnect, vars, recvVars
  <2>4. QED
    BY <2>2, <2>3 DEF Next, Fragment, FirstFragment, NextFragment
<1>3. QED
  BY <1>1, <1>2, PTL DEF Spec

\* append() writes only into recv_buf_, as long as an int counts the bytes of
\* the message.
THEOREM InBuffer == Spec => BoundedWrites
<1> DEFINE Bounded == off' <= IntMax => outside' = outside
<1>1. ASSUME Progress, outside \in BOOLEAN, [Next]_vars
      PROVE  Bounded
  <2> SUFFICES ASSUME off' <= IntMax
               PROVE  outside' = outside
    OBVIOUS
  <2>1. ASSUME NEW at \in Nat, NEW len \in Nat, NEW data, at + len <= IntMax, append(at, data, len)
        PROVE  outside' = outside
    <3>1. Fits(at, len) => Place(at, len) \subseteq 1..RecvBufSize
      BY <2>1, FragmentsAssumption DEF Fits, Total, Wrap, Place
    <3>2. outside \in BOOLEAN
      BY <1>1
    <3>3. QED
      BY <2>1, <3>1, <3>2 DEF append
  <2>2. ASSUME NEW len \in 0..MaxFragment, NEW end \in BOOLEAN, FirstFragment(len, end)
        PROVE  outside' = outside
    <3>1. len \in Nat /\ 0 + len <= IntMax
      BY FragmentsAssumption
    <3>2. CASE end
      BY <2>2, <3>2 DEF FirstFragment, recv, RecvWhole
    <3>3. CASE ~end
      <4>1. append(0, Bytes(msg + 1, 0, len), len)
        BY <2>2, <3>3 DEF FirstFragment, recv, RecvStart
      <4>2. QED
        BY <2>1, <3>1, <4>1
    <3>4. QED
      BY <3>2, <3>3
  <2>3. ASSUME NEW len \in 0..MaxFragment, NEW end \in BOOLEAN, NextFragment(len, end)
        PROVE  outside' = outside
    <3>1. open /\ off' = off + len
      BY <2>3 DEF NextFragment
    <3>2. len \in Nat /\ received_ \in Nat /\ received_ + len <= IntMax
      BY <1>1, <3>1, FragmentsAssumption DEF Progress
    <3>3. \/ RecvStray
          \/ append(received_, Bytes(msg, off, len), len)
      BY <2>3 DEF NextFragment, recv, RecvMore, RecvLast
    <3>4. QED
      BY <2>1, <3>2, <3>3 DEF RecvStray, recvVars
  <2>4. CASE Reconnect \/ UNCHANGED vars
    BY <2>4 DEF Reconnect, vars, recvVars
  <2>5. QED
    BY <1>1, <2>2, <2>3, <2>4 DEF Next, Fragment
<1>2. Progress /\ outside \in BOOLEAN /\ [Next]_vars => [Bounded]_vars
  BY <1>1
<1>3. QED
  BY <1>2, ProgressAlways, OutsideBoolean, PTL DEF Spec, BoundedWrites

-----------------------------------------------------------------------------

\* What recv_buf_ and the data handed over consist of.
Byte == (Nat \X Nat) \cup {Garbage}

LEMMA BytesTyped ==
  ASSUME NEW m \in Nat, NEW from \in Nat, NEW len \in Nat
  PROVE  Bytes(m, from, len) \in [1..len -> Nat \X Nat]
  BY DEF Bytes

LEMMA AppendedTyped ==
  ASSUME recv_buf_ \in [1..RecvBufSize -> Byte], NEW at \in Int, NEW len \in Nat,
         NEW data \in [1..len -> Nat \X Nat]
  PROVE  Appended(at, data, len) \in [1..RecvBufSize -> Byte]
<1>1. ASSUME NEW i \in 1..RecvBufSize, i \in Place(at, len)
      PROVE  data[i - at] \in Byte
  <2>1. i - at \in 1..len
    BY <1>1, FragmentsAssumption DEF Place
  <2>2. QED
    BY <2>1 DEF Byte
<1>2. QED
  BY <1>1 DEF Appended

\* An int stays one.
LEMMA TotalInt ==
  ASSUME NEW at \in -(IntMax + 1)..IntMax, NEW len \in 0..MaxFragment
  PROVE  Total(at, len) \in -(IntMax + 1)..IntMax
  BY FragmentsAssumption DEF Total, Wrap

\* A function on 1..n is a sequence, with n < 0 too.
LEMMA SeqOfInt ==
  ASSUME NEW S, NEW n \in Int, NEW f \in [1..n -> S]
  PROVE  f \in Seq(S)
<1>1. CASE n \in Nat
  BY <1>1
<1>2. CASE n \notin Nat
  <2>1. 1..n = 1..0
    BY <1>2
  <2>2. QED
    BY <2>1
<1>3. QED
  BY <1>1, <1>2

LEMMA HandedOverTyped ==
  ASSUME recv_buf_ \in [1..RecvBufSize -> Byte], NEW at \in -(IntMax + 1)..IntMax,
         NEW len \in 0..MaxFragment, NEW data \in [1..len -> Nat \X Nat]
  PROVE  HandedOver(at, data, len) \in Seq(Byte)
<1>0. at \in Int /\ len \in Nat
  BY FragmentsAssumption
<1>1. Appended(at, data, len) \in [1..RecvBufSize -> Byte] /\ Total(at, len) \in Int
  <2>1. Appended(at, data, len) \in [1..RecvBufSize -> Byte]
    BY <1>0, AppendedTyped
  <2>2. Total(at, len) \in -(IntMax + 1)..IntMax
    BY TotalInt
  <2>3. QED
    BY <2>1, <2>2
<1>2. HandedOver(at, data, len) \in [1..Total(at, len) -> Byte]
  BY <1>1, FragmentsAssumption DEF HandedOver, Byte
<1>3. QED
  BY <1>1, <1>2, SeqOfInt

\* recv() keeps the types of what it writes.
LEMMA RecvTyped ==
  ASSUME TypeOK, NEW start \in BOOLEAN, NEW end \in BOOLEAN, NEW len \in 0..MaxFragment,
         NEW data \in [1..len -> Nat \X Nat], recv(start, end, data, len)
  PROVE  /\ recv_buf_' \in [1..RecvBufSize -> Byte]
         /\ received_' \in -(IntMax + 1)..IntMax
         /\ outside' \in BOOLEAN
         /\ delivered' \in Seq(Seq(Byte))
<1>1. /\ recv_buf_ \in [1..RecvBufSize -> Byte] /\ received_ \in -(IntMax + 1)..IntMax
      /\ outside \in BOOLEAN /\ delivered \in Seq(Seq(Byte))
  BY DEF TypeOK, Byte
<1>2. 0 \in -(IntMax + 1)..IntMax /\ len \in Nat /\ received_ \in Int
  BY <1>1, FragmentsAssumption
<1>3. ASSUME NEW at \in -(IntMax + 1)..IntMax
      PROVE  /\ Appended(at, data, len) \in [1..RecvBufSize -> Byte]
             /\ Total(at, len) \in -(IntMax + 1)..IntMax
  <2>1. at \in Int
    BY FragmentsAssumption
  <2>2. QED
    BY <1>1, <1>2, <2>1, AppendedTyped, TotalInt
<1>4. data \in Seq(Byte)
  BY <1>2 DEF Byte
<1>5. CASE RecvWhole(data)
  BY <1>1, <1>2, <1>4, <1>5 DEF RecvWhole, OnRecv
<1>6. CASE RecvStart(data, len)
  BY <1>1, <1>2, <1>3, <1>6 DEF RecvStart, append
<1>7. CASE RecvStray
  BY <1>1, <1>7 DEF RecvStray, recvVars
<1>8. CASE RecvMore(data, len)
  BY <1>1, <1>3, <1>8 DEF RecvMore, append
<1>9. CASE RecvLast(data, len)
  <2>1. HandedOver(received_, data, len) \in Seq(Byte)
    BY <1>1, HandedOverTyped
  <2>2. QED
    BY <1>1, <1>2, <1>3, <1>9, <2>1 DEF RecvLast, append, OnRecv
<1>10. QED
  BY <1>5, <1>6, <1>7, <1>8, <1>9 DEF recv

LEMMA TypesNext == TypeOK /\ [Next]_vars => TypeOK'
<1> SUFFICES ASSUME TypeOK, [Next]_vars
             PROVE  TypeOK'
  OBVIOUS
<1>1. ASSUME NEW len \in 0..MaxFragment, NEW end \in BOOLEAN, FirstFragment(len, end)
      PROVE  TypeOK'
  <2>1. Bytes(msg + 1, 0, len) \in [1..len -> Nat \X Nat]
    <3>1. msg + 1 \in Nat /\ 0 \in Nat /\ len \in Nat
      BY FragmentsAssumption DEF TypeOK
    <3>2. QED
      BY <3>1, BytesTyped
  <2>2. /\ recv_buf_' \in [1..RecvBufSize -> Byte] /\ received_' \in -(IntMax + 1)..IntMax
        /\ outside' \in BOOLEAN /\ delivered' \in Seq(Seq(Byte))
    BY <1>1, <2>1, RecvTyped DEF FirstFragment
  <2>3. /\ msg' \in 0..MaxMessages /\ off' \in 0..MaxMessage /\ open' \in BOOLEAN
        /\ first' \in 0..MaxMessage /\ completed' \in 0..msg'
    BY <1>1, FragmentsAssumption DEF FirstFragment, TypeOK
  <2>4. QED
    BY <2>2, <2>3 DEF TypeOK, Byte
<1>2. ASSUME NEW len \in 0..MaxFragment, NEW end \in BOOLEAN, NextFragment(len, end)
      PROVE  TypeOK'
  <2>1. Bytes(msg, off, len) \in [1..len -> Nat \X Nat]
    <3>1. msg \in Nat /\ off \in Nat /\ len \in Nat
      BY FragmentsAssumption DEF TypeOK
    <3>2. QED
      BY <3>1, BytesTyped
  <2>2. /\ recv_buf_' \in [1..RecvBufSize -> Byte] /\ received_' \in -(IntMax + 1)..IntMax
        /\ outside' \in BOOLEAN /\ delivered' \in Seq(Seq(Byte))
    BY <1>2, <2>1, RecvTyped DEF NextFragment
  <2>3. /\ msg' \in 0..MaxMessages /\ off' \in 0..MaxMessage /\ open' \in BOOLEAN
        /\ first' \in 0..MaxMessage /\ completed' \in 0..msg'
    BY <1>2, FragmentsAssumption DEF NextFragment, TypeOK
  <2>4. QED
    BY <2>2, <2>3 DEF TypeOK, Byte
<1>3. CASE Reconnect
  BY <1>3 DEF Reconnect, recvVars, TypeOK
<1>4. CASE UNCHANGED vars
  BY <1>4 DEF vars, peerVars, recvVars, TypeOK
<1>5. QED
  BY <1>1, <1>2, <1>3, <1>4 DEF Next, Fragment

\* Types: whatever overflows, received_ stays an int, and what is handed over a
\* sequence of bytes (connection_callback.cpp:86-148).
THEOREM TypeCorrect == Spec => []TypeOK
<1>1. Init => TypeOK
  <2> SUFFICES ASSUME Init
               PROVE  TypeOK
    OBVIOUS
  <2>1. recv_buf_ \in [1..RecvBufSize -> (Nat \X Nat) \cup {Garbage}]
    BY DEF Init
  <2>2. delivered \in Seq(Seq((Nat \X Nat) \cup {Garbage}))
    BY DEF Init
  <2>3. /\ received_ = 0 /\ msg = 0 /\ off = 0 /\ first = 0 /\ completed = 0
        /\ open = FALSE /\ outside = FALSE
    BY DEF Init
  <2>4. 0 \in -(IntMax + 1)..IntMax /\ 0 \in 0..MaxMessages /\ 0 \in 0..MaxMessage /\ 0 \in 0..0
    BY FragmentsAssumption
  <2>5. QED
    BY <2>1, <2>2, <2>3, <2>4 DEF TypeOK
<1>2. QED
  BY <1>1, TypesNext, PTL DEF Spec

\* While a message arrives that fits, recv_buf_ holds the start of it and received_
\* its length, whatever came before (connection_callback.cpp:86-148).
THEOREM BufferHolds == Spec => []BufferHoldsMessage
<1>1. FInv => BufferHoldsMessage
  BY DEF FInv
<1>2. QED
  BY <1>1, FInvInit, FInvNext, PTL DEF Spec
=============================================================================
