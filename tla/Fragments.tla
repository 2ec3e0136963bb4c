----------------------------- MODULE Fragments -----------------------------
(***************************************************************************)
(* The receiving side of connection_callback: recv() and append() put the  *)
(* fragments of a websocket message together in recv_buf_ and hand the     *)
(* whole to on_recv().                                                     *)
(*                                                                         *)
(* The peer sends messages 1, 2, ... one after the other, each in one or   *)
(* more fragments; byte i of message m is <<m, i>>.  A fragment may be     *)
(* empty, and the connection may be lost within a message: the callback    *)
(* object of a client then serves the next connection with what it has in  *)
(* recv_buf_.                                                              *)
(***************************************************************************)
EXTENDS Integers, Sequences

CONSTANTS
    RecvBufSize,        \* recv_buf_size_; 0 unless it is configured
    IntMax,             \* INT_MAX
    Garbage,            \* what memory holds that recv() has not written
    MaxMessages,        \* bound: messages of the peer
    MaxMessage,         \* bound: bytes of a message
    MaxFragment         \* bound: bytes of a fragment

ASSUME FragmentsAssumption ==
    /\ RecvBufSize \in Nat
    /\ IntMax \in Nat
    /\ RecvBufSize <= IntMax
    /\ MaxMessages \in Nat
    /\ MaxMessage \in Nat
    /\ MaxFragment \in Nat
    /\ MaxFragment <= IntMax

VARIABLES
    msg,                \* the message the peer is sending, or has sent last
    off,                \* bytes of it that have arrived
    open,               \* is its last fragment still to come?
    first,              \* bytes of its first fragment
    completed,          \* the last message whose last fragment has arrived
    recv_buf_,
    received_,
    outside,            \* has append() written outside recv_buf_?
    delivered           \* what on_recv() has been given

peerVars == <<msg, off, open, first, completed>>
recvVars == <<recv_buf_, received_, outside, delivered>>
vars     == <<peerVars, recvVars>>

\* Bytes from + 1 to from + len of message m.
Bytes(m, from, len) == [i \in 1..len |-> <<m, from + i>>]

Message(m, len) == Bytes(m, 0, len)

Init ==
    /\ msg = 0
    /\ off = 0
    /\ open = FALSE
    /\ first = 0
    /\ completed = 0
    /\ recv_buf_ = [i \in 1..RecvBufSize |-> Garbage]
    /\ received_ = 0
    /\ outside = FALSE
    /\ delivered = <<>>

-----------------------------------------------------------------------------
(* recv(), for the fragment of len bytes that libwebsockets has.           *)

\* Mutant: an int has no bound.
WrapNot(n) == n

\* The sum of two ints, as the processor has it.
Wrap(n) == IF n > IntMax THEN n - 2 * (IntMax + 1) ELSE n

\* append(), with received_ = at: the new received_, and recv_buf_.
Total(at, len) == Wrap(at + len)

\* Mutants: off by one, and no check.
FitsStrictly(at, len) == Total(at, len) < RecvBufSize
FitsAlways(at, len)   == len > 0

Fits(at, len)  == Total(at, len) <= RecvBufSize
Place(at, len) == (at + 1)..(at + len)

Appended(at, data, len) ==
    [i \in 1..RecvBufSize |->
        IF Fits(at, len) /\ i \in Place(at, len) THEN data[i - at] ELSE recv_buf_[i]]

append(at, data, len) ==
    /\ recv_buf_' = Appended(at, data, len)
    /\ outside' = (outside \/ (Fits(at, len) /\ ~(Place(at, len) \subseteq 1..RecvBufSize)))

OnRecv(data) == delivered' = Append(delivered, data)

\* A message in one fragment.  An incomplete one in the buffer is dropped.
RecvWhole(data) ==
    /\ OnRecv(data)
    /\ received_' = 0
    /\ UNCHANGED <<recv_buf_, outside>>

\* Mutant: what is in the buffer is kept.
RecvStartAfter(data, len) ==
    /\ append(received_, data, len)
    /\ received_' = Total(received_, len)
    /\ UNCHANGED delivered

\* Mutant: what is in the buffer is handed over first.
RecvStartFlush(data, len) ==
    /\ append(0, data, len)
    /\ received_' = Total(0, len)
    /\ IF received_ \in 1..RecvBufSize
         THEN OnRecv([i \in 1..received_ |-> recv_buf_[i]])
         ELSE UNCHANGED delivered

\* So it is when a new message starts.
RecvStart(data, len) ==
    /\ append(0, data, len)
    /\ received_' = Total(0, len)
    /\ UNCHANGED delivered

\* With an empty buffer the first fragment must have been missed.
RecvStray ==
    /\ received_ = 0
    /\ UNCHANGED recvVars

RecvMore(data, len) ==
    /\ received_ # 0
    /\ append(received_, data, len)
    /\ received_' = Total(received_, len)
    /\ UNCHANGED delivered

\* received_ bytes from the start of recv_buf_, whether append() had room for
\* them or not.
HandedOver(at, data, len) ==
    [i \in 1..Total(at, len) |->
        IF i <= RecvBufSize THEN Appended(at, data, len)[i] ELSE Garbage]

RecvLast(data, len) ==
    /\ received_ # 0
    /\ append(received_, data, len)
    /\ OnRecv(HandedOver(received_, data, len))
    /\ received_' = 0

recv(start, end, data, len) ==
    \/ start /\ end /\ RecvWhole(data)
    \/ start /\ ~end /\ RecvStart(data, len)
    \/ ~start /\ RecvStray
    \/ ~start /\ ~end /\ RecvMore(data, len)
    \/ ~start /\ end /\ RecvLast(data, len)

-----------------------------------------------------------------------------
(* The peer and the network.                                               *)

\* The first fragment of the next message, or another one of this message.
FirstFragment(len, end) ==
    /\ ~open
    /\ msg < MaxMessages
    /\ len <= MaxMessage
    /\ msg' = msg + 1
    /\ off' = len
    /\ first' = len
    /\ open' = ~end
    /\ completed' = IF end THEN msg + 1 ELSE completed
    /\ recv(TRUE, end, Bytes(msg + 1, 0, len), len)

NextFragment(len, end) ==
    /\ open
    /\ off + len <= MaxMessage
    /\ off' = off + len
    /\ open' = ~end
    /\ completed' = IF end THEN msg ELSE completed
    /\ UNCHANGED <<msg, first>>
    /\ recv(FALSE, end, Bytes(msg, off, len), len)

\* The connection is lost within a message, and the callback gets another.
Reconnect ==
    /\ open
    /\ open' = FALSE
    /\ UNCHANGED <<msg, off, first, completed, recvVars>>

Fragment(len, end) == FirstFragment(len, end) \/ NextFragment(len, end)

Next ==
    \/ \E len \in 0..MaxFragment, end \in BOOLEAN : Fragment(len, end)
    \/ Reconnect

Spec == Init /\ [][Next]_vars

-----------------------------------------------------------------------------
(* Properties.                                                             *)

TypeOK ==
    /\ msg \in 0..MaxMessages
    /\ off \in 0..MaxMessage
    /\ open \in BOOLEAN
    /\ first \in 0..MaxMessage
    /\ completed \in 0..msg
    /\ recv_buf_ \in [1..RecvBufSize -> (Nat \X Nat) \cup {Garbage}]
    /\ received_ \in -(IntMax + 1)..IntMax
    /\ outside \in BOOLEAN
    /\ delivered \in Seq(Seq((Nat \X Nat) \cup {Garbage}))

Completes == completed' # completed

InOneFragment == ~open

DeliversIt == delivered' = Append(delivered, Message(msg', off'))

\* A message that came in one fragment, or that starts with a fragment that is
\* not empty and fits into recv_buf_, is handed to on_recv() whole, with its
\* last fragment, and once, whatever was received, dropped, cut off or too long
\* before it (connection_callback.cpp:86-148).
ExactDelivery ==
    [][Completes /\ (InOneFragment \/ (first > 0 /\ off' <= RecvBufSize)) => DeliversIt]_vars

\* Nothing is handed over at any other time: an incomplete message never is,
\* also when the connection is lost within it.
OnlyComplete == [][delivered' # delivered => Completes]_vars

\* What is handed over is a message of the peer.
OnlyMessages == [][delivered' # delivered => DeliversIt]_vars

\* append() stays within recv_buf_ until more has arrived of a message than an
\* int can count (connection_callback.cpp:86-99).
BoundedWrites == [][off' <= IntMax => outside' = outside]_vars

\* What recv_buf_ and received_ hold of the message that is arriving.
BufferHoldsMessage ==
    open /\ first > 0 /\ off <= RecvBufSize =>
       /\ received_ = off
       /\ \A i \in 1..off : recv_buf_[i] = <<msg, i>>
=============================================================================
