----------------------------- MODULE SendBuffer -----------------------------
(***************************************************************************)
(* The "sendbuffer" protocol of the server end (send_buffer_callback.h,    *)
(* send_buffer.cpp): every frame put in a buffer goes to every client that *)
(* is connected, in websocket fragments of at most send_buf_size_ bytes.   *)
(*                                                                         *)
(* Three threads: a producer, which puts frames in the buffer; the         *)
(* send_buffer task, which asks each registered callback to send when a    *)
(* frame arrives; and the service thread, which makes, serves and deletes  *)
(* the callbacks.  The factory's mutex_ guards ctx_set_; the task takes    *)
(* the mutex of wsapp (WsApp) inside it.                                   *)
(*                                                                         *)
(* Frames are numbered; byte i of frame k is <<k, i>>.  The peer puts      *)
(* fragments together as the websocket protocol has it.                    *)
(***************************************************************************)
EXTENDS WsApp, Sequences

CONSTANTS
    ChunkSize,          \* send_buf_size_
    Lengths,            \* lengths of frames
    MaxFrames           \* bound: frames the producer puts in the buffer

ASSUME SendBufferAssumption ==
    /\ ChunkSize \in Nat \ {0}
    /\ Lengths \subseteq Nat \ {0}
    /\ MaxFrames \in Nat

VARIABLES
    frames,             \* lengths of the frames put in the buffer so far
    taken,              \* how many of them the task's reader has passed
    task,               \* where the task is
    todo,               \* callbacks its request_to_send() has still to report
    ctx_set_,           \* callbacks the factory knows
    wsi_,               \* connection each callback was made for
    rd,                 \* frame the reader of each callback is at
    sent_,              \* bytes sent of that frame
    remain_,            \* bytes of it still to send; 0 if it has not been read
    from,               \* first frame each reader can see
    partial,            \* bytes the peer has of an incomplete message
    whole               \* messages the peer has got

taskVars == <<taken, task, todo>>
ctxVars  == <<ctx_set_, wsi_>>
readVars == <<rd, sent_, remain_, from>>
peerVars == <<partial, whole>>
vars     == <<appVars, frames, taskVars, ctxVars, readVars, peerVars>>

FrameBytes(k) == [i \in 1..frames[k] |-> <<k, i>>]

TypeOK ==
    /\ AppTypeOK
    /\ frames \in Seq(Lengths)
    /\ taken \in 0..Len(frames)
    /\ task \in {"wait", "frame", "report"}
    /\ todo \subseteq Callback
    /\ ctx_set_ \subseteq Callback
    /\ wsi_ \in [Callback -> Wsi \cup {Null}]
    /\ rd \in [Callback -> Nat]
    /\ sent_ \in [Callback -> Nat]
    /\ remain_ \in [Callback -> Nat]
    /\ from \in [Callback -> Nat]
    /\ partial \in [Callback -> Seq(Nat \X Nat)]
    /\ whole \in [Callback -> Seq(Seq(Nat \X Nat))]

Init ==
    /\ AppInit
    /\ frames = <<>>
    /\ taken = 0
    /\ task = "wait"
    /\ todo = {}
    /\ ctx_set_ = {}
    /\ wsi_ = [c \in Callback |-> Null]
    /\ rd = [c \in Callback |-> 0]
    /\ sent_ = [c \in Callback |-> 0]
    /\ remain_ = [c \in Callback |-> 0]
    /\ from = [c \in Callback |-> 0]
    /\ partial = [c \in Callback |-> <<>>]
    /\ whole = [c \in Callback |-> <<>>]

-----------------------------------------------------------------------------
(* The producer and the send_buffer task.                                  *)

Put(len) ==
    /\ Len(frames) < MaxFrames
    /\ frames' = Append(frames, len)
    /\ UNCHANGED <<appVars, taskVars, ctxVars, readVars, peerVars>>

\* Mutant: the result of request_frame() is not looked at.
TaskFrameAnyway ==
    /\ task = "wait"
    /\ task' = "frame"
    /\ UNCHANGED <<appVars, frames, taken, todo, ctxVars, readVars, peerVars>>

TaskFrame ==
    /\ task = "wait"
    /\ taken < Len(frames)
    /\ task' = "frame"
    /\ UNCHANGED <<appVars, frames, taken, todo, ctxVars, readVars, peerVars>>

\* request_to_send() of the factory: it holds mutex_ until it has reported all.
TaskLock ==
    /\ task = "frame"
    /\ task' = "report"
    /\ todo' = ctx_set_
    /\ UNCHANGED <<appVars, frames, taken, ctxVars, readVars, peerVars>>

TaskReport(c) ==
    /\ task = "report"
    /\ c \in todo
    /\ RequestToSend(wsi_[c])
    /\ todo' = todo \ {c}
    /\ UNCHANGED <<frames, taken, task, ctxVars, readVars, peerVars>>

TaskRelease ==
    /\ task = "report"
    /\ todo = {}
    /\ task' = "wait"
    /\ taken' = taken + 1
    /\ UNCHANGED <<appVars, frames, todo, ctxVars, readVars, peerVars>>

FactoryMutexFree == task # "report"

-----------------------------------------------------------------------------
(* create() and remove(), on the service thread.                           *)

Unused(c) == c # active /\ \A w \in Wsi : user[w] # c

\* What there is of a callback with its reader at frame k of connection w.
Fresh(c, w, k) ==
    /\ wsi_' = [wsi_ EXCEPT ![c] = w]
    /\ rd' = [rd EXCEPT ![c] = k]
    /\ from' = [from EXCEPT ![c] = k]
    /\ sent_' = [sent_ EXCEPT ![c] = 0]
    /\ remain_' = [remain_ EXCEPT ![c] = 0]
    /\ partial' = [partial EXCEPT ![c] = <<>>]
    /\ whole' = [whole EXCEPT ![c] = <<>>]

\* The constructor adds a reader, which sees the frames put from now on ...
Create(w, c) ==
    /\ Unused(c)
    /\ ServerEstablished(w, c)
    /\ Fresh(c, w, Len(frames) + 1)
    /\ UNCHANGED <<frames, taskVars, ctx_set_>>

\* ... and later, with mutex_, the callback is registered.
Register ==
    /\ \E w \in Wsi : user[w] = active /\ phase[w] = "established"
    /\ FactoryMutexFree
    /\ ctx_set_' = ctx_set_ \cup {active}
    /\ CallbackReturn
    /\ UNCHANGED <<frames, taskVars, wsi_, readVars, peerVars>>

Close(w) ==
    /\ ServerClosed(w)
    /\ UNCHANGED <<frames, taskVars, ctxVars, readVars, peerVars>>

\* Mutant: mutex_ is not taken.
RemoveUnlocked ==
    /\ \E w \in Wsi : user[w] = active /\ phase[w] = "closed"
    /\ ctx_set_' = ctx_set_ \ {active}
    /\ Fresh(active, Null, 0)
    /\ CallbackReturn
    /\ UNCHANGED <<frames, taskVars>>

\* remove() takes mutex_ too; then the callback is deleted.
Remove ==
    /\ \E w \in Wsi : user[w] = active /\ phase[w] = "closed"
    /\ FactoryMutexFree
    /\ ctx_set_' = ctx_set_ \ {active}
    /\ Fresh(active, Null, 0)
    /\ CallbackReturn
    /\ UNCHANGED <<frames, taskVars>>

-----------------------------------------------------------------------------
(* on_send()                                                               *)

HasFrame(c) == rd[c] <= Len(frames)

\* What is left of the frame, all of it if it has just been read.
Remain(c) == IF remain_[c] = 0 THEN frames[rd[c]] ELSE remain_[c]
Sent(c)   == IF remain_[c] = 0 THEN 0 ELSE sent_[c]

ToSend(c) == IF Remain(c) > ChunkSize THEN ChunkSize ELSE Remain(c)

IsStart(c) == remain_[c] = 0

\* Mutant: off by one.
IsEndStrictly(c) == Remain(c) < ChunkSize

IsEnd(c)   == Remain(c) <= ChunkSize

\* What the peer has after a fragment: one that starts a message replaces what
\* it had.
PeerHas(c) ==
    LET data == [i \in 1..ToSend(c) |-> <<rd[c], Sent(c) + i>>]
    IN  IF IsStart(c) THEN data ELSE partial[c] \o data

PeerGets(c) ==
    IF IsEnd(c)
      THEN /\ whole' = [whole EXCEPT ![c] = Append(@, PeerHas(c))]
           /\ partial' = [partial EXCEPT ![c] = <<>>]
      ELSE /\ partial' = [partial EXCEPT ![c] = PeerHas(c)]
           /\ UNCHANGED whole

\* One fragment of the frame; the last one releases it.
OnSend(c) ==
    /\ sent_' = [sent_ EXCEPT ![c] = Sent(c) + ToSend(c)]
    /\ remain_' = [remain_ EXCEPT ![c] = Remain(c) - ToSend(c)]
    /\ rd' = [rd EXCEPT ![c] = IF Remain(c) = ToSend(c) THEN @ + 1 ELSE @]
    /\ PeerGets(c)
    /\ UNCHANGED from

OnWriteable(w) ==
    /\ phase[w] = "established"
    /\ HasFrame(user[w])
    /\ ServerWriteable(w, TRUE)
    /\ OnSend(user[w])
    /\ UNCHANGED <<frames, taskVars, ctxVars>>

OnWriteableIdle(w) ==
    /\ phase[w] = "established"
    /\ ~HasFrame(user[w])
    /\ ServerWriteable(w, FALSE)
    /\ UNCHANGED <<frames, taskVars, ctxVars, readVars, peerVars>>

Writeable(w) == OnWriteable(w) \/ OnWriteableIdle(w)

-----------------------------------------------------------------------------

Prepare ==
    /\ TskInit \/ PrepareBegin \/ PrepareEnd
    /\ UNCHANGED <<frames, taskVars, ctxVars, readVars, peerVars>>

Return ==
    /\ ServiceReturn
    /\ UNCHANGED <<frames, taskVars, ctxVars, readVars, peerVars>>

Task ==
    \/ TaskFrame
    \/ TaskLock
    \/ \E c \in Callback : TaskReport(c)
    \/ TaskRelease

\* Without a context there is nothing to do but put frames in the buffer.
Failed == service = "failed" /\ UNCHANGED vars

Next ==
    \/ \E len \in Lengths : Put(len)
    \/ Task
    \/ \E w \in Wsi, c \in Callback : Create(w, c)
    \/ Register
    \/ Remove
    \/ \E w \in Wsi : Close(w) \/ Writeable(w)
    \/ Prepare
    \/ Return
    \/ Failed

Spec == Init /\ [][Next]_vars

(***************************************************************************)
(* Fairness, as in WsClient: the threads keep running, mutexes are got in  *)
(* the end, and a connection that is ready is served.  The producer, and   *)
(* the clients that connect and disconnect, do as they like.               *)
(***************************************************************************)
Fairness ==
    /\ WF_vars(Prepare)
    /\ SF_vars(wake /\ Return)
    /\ SF_vars(Register \/ Remove)
    /\ SF_vars(Task)
    /\ \A w \in Wsi : SF_vars(Writeable(w))

FairSpec == Spec /\ Fairness

-----------------------------------------------------------------------------
(* Properties.                                                             *)

Connected(c) == \E w \in Wsi : user[w] = c /\ phase[w] = "established"

\* Each client gets the frames put in the buffer since it connected: each one
\* whole, once, and in order, whatever its length
\* (send_buffer_callback.h:58-117).
WholeFrames ==
    \A c \in Callback : Connected(c) =>
       /\ from[c] + Len(whole[c]) = rd[c]
       /\ \A k \in 1..Len(whole[c]) : whole[c][k] = FrameBytes(from[c] + k - 1)

\* A callback that the task has still to report has not been deleted, and its
\* connection has not been given to another one
\* (send_buffer_callback.h:154-178).
ReportAlive ==
    \A c \in todo : \E w \in Wsi : user[w] = c /\ wsi_[c] = w

\* A client that has been sent something, and so was registered when the frames in
\* the buffer came, is not left waiting for one: its event is due or asked for, or
\* the task has still to report it (send_buffer.cpp:13-27,
\* send_buffer_callback.h:58-125).
Served(c) == rd[c] > from[c] \/ remain_[c] # 0

FrameDue ==
    \A w \in Wsi :
       phase[w] = "established" /\ Served(user[w]) /\ HasFrame(user[w]) =>
          w \in writable \cup to_send_set \/ user[w] \in todo \/ taken < Len(frames)

\* A frame in the buffer of a registered callback is sent, if the client stays.
EveryFrameSent ==
    \A c \in Callback :
       c \in ctx_set_ /\ HasFrame(c) ~> ~HasFrame(c) \/ ~Connected(c)

-----------------------------------------------------------------------------
(* What the clients see of it.                                             *)

\* The event of a client is due or asked for, or its report is; or it has been sent
\* something.
Awake(c) ==
    \E w \in Wsi :
       /\ user[w] = c /\ phase[w] = "established"
       /\ Served(c) \/ c \in todo \/ w \in writable \cup to_send_set

Frame   == {[i \in 1..len |-> <<k, i>>] : k \in 1..MaxFrames, len \in Lengths}
Logged  == [k \in 1..Len(frames) |-> FrameBytes(k)]
Here    == {c \in Callback : Connected(c)}
Wakeful == {c \in Callback : Awake(c)}
Since   == [c \in Callback |-> IF Connected(c) THEN from[c] ELSE 0]
Given   == [c \in Callback |-> IF Connected(c) THEN whole[c] ELSE <<>>]

BC == INSTANCE Broadcast WITH
          log <- Logged, here <- Here, awake <- Wakeful, since <- Since, given <- Given

\* Seen from the clients the buffer is a Broadcast: one report is enough for all
\* the frames in it, however they arrive, and a client that has got one frame gets
\* all that follow (send_buffer.cpp:13-27, send_buffer_callback.h:22-178,
\* connection_callback.cpp:81-83).
BroadcastSpec == BC!Spec
=============================================================================
