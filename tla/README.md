# A TLA+ development of jgb-ws

jgb-ws builds websocket clients and servers on libwebsockets (`src/README`): a
service thread shared by all connections, client tasks that connect and
reconnect, and two server protocols, one that sends what is put in a buffer to
every connected client and one that answers requests on objects, among them
sqlite tables. `wscli` and a test client use it. This directory holds TLA+
modules for all of these, TLC configurations that check them, and theorems
checked by TLAPS. Paths below are relative to the repository.

## 1. Inventory

| Component | Source | State | Operations | Model |
|---|---|---|---|---|
| websocket service | `src/wsapp.cpp` | `context`, `to_connect_set`, `to_send_set`, `to_disconnect_set` (under `mutex`), `live_set` (service thread only) | `request_to_connect/send/disconnect` (any thread); `tsk_init`, `prepare` (`to_connect`, `to_ack`), `lws_service`, `tsk_exit`; `callback_minimal` | `WsApp` |
| ws-client task | `src/client_callback.h`, `src/ws-client.cpp`, `src/ws-client.h` | `state_`, `wsi_`, `reconnect_`, no lock; two buffer readers | `process`, `tsk_send`, `tsk_exit`; `on_connected`, `on_send`, `on_recv`, `on_close`, `on_error` | `WsClient`, `ClientLink` |
| client factories | `src/client_factory.h`, `src/ws_client_callback_factory.h` | map of types | `install`, `create` | no: filled at load, then read |
| connection callback | `src/connection_callback.cpp` | `recv_buf_`, `received_` | `recv`, `append`, `send` | `Fragments`; `send` in `WsClient`, `SendBuffer`, `TestClient` |
| sendbuffer protocol | `src/send_buffer_callback.h`, `src/send_buffer.cpp` | `ctx_set_` under `mutex_`; per connection `rd_`, `frm_`, `sent_`, `remain_` | task `tsk_loop`; factory `create`, `remove`, `request_to_send`; `on_send`, `report` | `SendBuffer`, `Broadcast` |
| protocol and object dispatch | `src/protocol_dispatch_callback.h`, `src/protocol-dispatch.cpp`, `src/object_callback.h` | `factories_`, `callbacks_`; per connection `resps_` | `install`, `create`, `remove`, `process`, `on_recv`, `on_send` | `ObjectDispatch`, `Conversation` |
| messages | `src/message.h` | a JSON tree | id, object, method, status | ids and statuses, in `ObjectDispatch` |
| sqlite tables | `src/sqlite_callback.h`, `src/sqlite-app.cpp` | a database file | `create`, `read`, `update`, `delete_` | `SqliteTable` |
| wscli | `client/main.cpp` | `jcur`, `parent`, `key`; two buffers, `exit_flag` | options, request loop, `handler`, `stop` | `OptionTree`, `WsCli` |
| test client, test server | `test/` | `step_`, `sent_`, `place_ids_` | `on_session`, `on_send`, `on_recv` | `TestClient`; the test server answers 200 to everything |
| build, configuration | `CMakeLists.txt`, `*.json` | | | no behaviour of its own |

How they interact. Tasks on other threads put requests in the service's sets and
wake it with `lws_cancel_service()`. The service thread takes them up in
`prepare()`, under the mutex, then calls `lws_service()`, inside which
libwebsockets calls `callback_minimal()`, which calls the virtual functions of
the connection's callback object without the mutex. A client object is touched
by three threads: its `process()` loop, its `tsk_send()` loop (later `tsk_exit()`)
and the service thread. A server object is made and deleted by the service
thread; the send_buffer task reaches it through the factory's own mutex.
Connections are named by their address, `struct lws*`, which libwebsockets
reuses.

What is hard about it: `state_` and `wsi_` are shared without a lock and acted
upon after other steps; requests outlive the connections they name; wake-ups
must not be lost between a buffer, the request sets, `prepare()` and the
writeable event; a task must end when it is stopped in any state; messages come
in fragments that a lost connection may cut off anywhere; a frame may be several
fragments, an event sends one of them. The programs on top compare no ids: an
answer may be late, lost with its connection or dropped for its length, and the
statements of a request are committed one by one. wscli's cursor points into a
tree that its options cut down.

What makes each component correct:

* service: a request, once accepted, is acted upon; an address is handed to
  libwebsockets only while it names a connection; one bad url harms nobody else;
* client: at most one attempt at a time; `state_` agrees with libwebsockets at
  every event; an attempt ends; a stopped task ends, and nothing points to the
  deleted client; frames put in its buffer are sent;
* connection callback: a message is handed over whole, once, when it is
  complete, whatever came before; the buffer's bounds are kept;
* sendbuffer: every client gets every frame since it connected, whole and in
  order; the task never uses a deleted callback;
* dispatch: every request gets its one response, in order; the end of a
  connection harms nobody else;
* sqlite tables: a request changes the rows it names and no others;
* wscli: the request is the tree the options describe; a response is shown once
  and not for a later request; SIGINT ends it;
* test client: the answer it counts is that to the request it sent; what its
  requests leave in the table is what they ask for, or a first part of it; its
  round ends.

## 2. Modules and what they correspond to

**`WsApp`** has the variables of `wsapp.cpp` and what libwebsockets keeps of a
connection: `phase` (its life cycle), `user` (the user pointer), `writable`
(an event was asked for) and `wake` (`lws_service()` has a reason to return).
Each event of `callback_minimal()` is an operator; the module that extends
`WsApp` conjoins the effect of the callback object. There is no next-state
relation here. `NoRequestForgotten`, which is about the service whatever it
serves, is stated here. client_safety and sendbuffer_frames check it; it is proved of
all three compositions, and of `ObjectDispatch` only proved.

* *The mutex.* A critical section of a requesting thread is one step, possible
  only while the service thread is not inside `prepare()`; `prepare()` itself is
  several steps, since its callbacks are seen by threads that do not take the
  mutex.
* *`on_error()` and `on_close()`* change `state_` in one step and return in a
  later one (`active`), so that other threads may act while they run. The
  address is free for reuse only after the return.
* *Taking a request out of `to_connect_set`* is part of handling it. The code
  clears the set after the last one, but under the same lock, so no thread can
  see the difference.
* *libwebsockets*, as the code relies on it: a connection is announced by
  ESTABLISHED or CONNECTION_ERROR, a `-1` from the writeable event is followed by
  CLOSED before any other event, `lws_callback_on_writable()` leads to one event
  however often it is called. `SyncErrorCallback` says whether CONNECTION_ERROR
  may also come inside the connect call that then returns NULL.

**`WsClient`** extends `WsApp` with the client tasks. `pc` is where
`process()`, and after it `tsk_exit()`, is. `process()` reads `state_`
(`ProcessRead`) and acts in a later step. The code reads `state_` anew for each
`if`, in the order idle, connecting, connected, aborting, closed; as the service
thread only moves it forward in that order, the chain ends in the branch
of the value it read last, so one read is enough. The exception is a failure that
libwebsockets reports twice (`SyncErrorCallback`): the second `on_error()` may take
closed back to aborting between the check for aborting
(`src/client_callback.h:117`) and that for closed (`:122`), and the chain ends in
`jgb_assert(0)` (`:140`). The model has no such round; if the assertion returns, the
round has changed nothing and the next finds aborting, which the model has. What
client_sync checks is said of a program whose assertions go on. `tsk_send()` and `tsk_exit()`
read `wsi_` in one step and use it in a later one. The buffer is counted: `toPut`
frames to come, `queued` for the reader of `on_send()`, `notify` for the reader
of `tsk_send()`. A deleted client has `pc = "done"`. The readers with a timeout
poll, so a frame that arrives while one waits is one that arrives before.

**`ClientLink`** is the abstract specification of a client: one link, down,
trying, up, or gone for good; a try always ends. `LinkSpec` in `WsClient` is the
refinement: the link is computed from the request set, the connections and `pc`.

**`Fragments`** is `recv()` and `append()`, with a peer that sends messages in
any fragments, empty ones too, and connections that are lost within a message.
Byte `i` of message `m` is `<<m, i>>`, so that bytes of two messages cannot be
confused. `received_` is an int of bound `IntMax`; its overflow, which C++
leaves undefined, is taken to wrap, as the processor does. Contents of memory
nobody wrote are `Garbage`.

**`SendBuffer`** extends `WsApp` with the "sendbuffer" protocol: the task's
`request_to_send()` holds the factory's mutex over several reports; `create()`
adds the reader in the constructor (`Create`) and registers the callback later
(`Register`), `remove()` unregisters it. `on_send()` is `OnSend` with
the cutting of frames; the peer joins fragments as the websocket protocol says.

**`Broadcast`** is the abstract specification of a server of frames: a log, of which
each client is given what comes after it has joined, one by one. A client that is
*awake* is given all there is. A new client may be asleep until a frame wakes it
(section 3, sendbuffer_lost); one that has been given a frame never sleeps again.
`BroadcastSpec` in `SendBuffer` is the refinement: the log is the buffer, and a
client is awake if it has been sent something, if the task has still to report
it, or if its event is due or asked for. The task, its mutex, the fragments and the
request sets are hidden.

**`ObjectDispatch`** extends `WsApp` with the "ws-sync" protocol. A handler is
reduced to the status it sets and whether it ends the chain. `priority` is never
assigned in the code, so the initial predicate takes a list of handlers in every
order. `Installs` says whether a factory may be, or may not be, installed.
The end of a connection is the end of the program there (section 3).

**`Conversation`** is the abstract specification of a server of requests, as its
clients see it: requests asked and answers got, the next answer always that to
the first request without one, and none left out as long as the server is there.
`ConversationSpec` in `ObjectDispatch` is the refinement; the queues `resps_`, the
request sets and the events are hidden.

**`SqliteTable`** is one table, a function from ids to the other columns' values
or `NoRow`, and the request that `process()` has in hand (`job`), as the scripts
of statements that are still to be run. `Exec` commits a statement, `ExecFail`
gives up the rest of its script, as `sqlite3_exec()` does; `Replies` are the
answers there may be. `UpdateScripts` has what `update()` does to its stream: it
is never cleared, so what follows the first statement does not parse. Nor do the
two write a string alike: `create()` writes its text
(`src/sqlite_callback.h:148`), `update()` streams the `jgb::value*` itself
(`:203`), which both do only with objects. What that writes is decided by jgb, whose
source is not here, so it is a constant, `Streamed`, of which nothing is assumed but
that it is a function to values. A table's columns are taken to be strings; numbers
are streamed by both, and would be the special case of `Streamed` as the identity.
Objects to create and delete have an id, which is the table's primary key. There is no
next-state relation.

**`TestClient`** extends `SqliteTable` with the test client and what lies between
the two: a link that is up or down, which is what `ClientLink` promises, and
requests taken in order and each answered once, which is what `ObjectDispatch`
shows. `sent_` is written by two threads, so `on_session()` (`SessionBegin`,
`OnSession`, `SessionRequest`) and `on_send()` (`OnSend...`, `OnSendEnd`) are
several steps each. `Other` is another client of the same table; `Lose` loses the
connection, `Crash` ends the server between two statements; what is in the file
stays. `MaxRows` is what fits in the 16 KiB of `send()`. `seen` is a history
variable: the last read the client was answered, with its step and rows, and whether
a statement has failed since. It enables and disables no action. A request of another ends the
record, since what the client's own requests leave can then no longer be told from
the table.

**`OptionTree`** is the request that wscli's options build: its objects and arrays
(`nodes`), with the nodes above each, the cursor `jcur` and the stack `parent`.
Leaves are not kept, but what they replace is freed, with all below it. A
dangling cursor is one whose node is freed.

**`WsCli`** extends `WsClient`, with one task, and `OptionTree`: `main()`'s options,
its loop (`PutRequest`, then `PrintResponse` or `Timeout`), SIGINT and `stop()`,
which ends the client and then the service. Requests are numbered in the model
only. The server answers the requests of a connection in order or not at all.

The `MC...` modules only define constants for the configurations.

## 3. Runs

| Run | Configuration | What it shows |
|---|---|---|
| client_safety | three clients (two urls, one without that is given a frame all the same), two addresses, symmetry over addresses | the type invariant, the inductive invariant `IInv`, one attempt per client, `state_` agrees with libwebsockets, no pointer to a deleted client, exact `live_set`, legal moves of `state_`, and no sleep on a request (`NoRequestForgotten`) |
| client_sync | a good and a bad url, one address, failures may be reported inside the connect call | `ConnectResolves` holds still, and so does what it rests on: a client that waits has an attempt in the making (`ConnectingTried`) |
| fragments_recv | buffer of 3, int up to 7, 3 messages of up to 9 bytes, fragments of up to 2 | what is delivered, and that nothing else is; buffer contents; writes in bounds up to the overflow |
| sendbuffer_frames | two callbacks, two addresses, frames of 2 and 3 bytes in fragments of 2 | frames arrive whole and in order, reported callbacks are alive; a client that has been sent something is not left waiting (`FrameDue`), nor the service asleep on a report (`NoRequestForgotten`); refinement of `Broadcast` with its fairness (`BroadcastSpec`): one report is enough for all the frames in the buffer |
| wscli | wscli with up to three nodes in its request and up to two rounds, one address | `CursorOnPath` and `RequestIsTree` of the options, `AnswersOwnRound` of the loop; `LoopEnds`; with them what the task promises its user: no frame stays in the buffer while a connection is up (`FramesDrain`), as none is ever without a wake-up to come (`NoFrameForgotten`), a task stopped while connected ends (`ExitFromConnected`), refinement of `ClientLink` with its fairness (`LinkSpec`) |
| test_client | a table of up to three rows, two of which fit in a response; one request of others, one loss | at most one request in hand, that of the step before (`AnswerFits`); when the client waits for nothing (`WaitsInVain`); what the client's writes have left of the rows it read is a first part of them, in the order of their statements, whatever failed or was lost, and all of it once the client goes on, unless a statement failed (`WritesInOrder`); names are streamed as another text than `str()`'s (`Quoted`); what an update changes (`UpdatesFirstOnly`); rounds end (`RoundEnds`) |
| dispatch_requests | two clients, two requests each, two handlers in either order and a name without handlers | refinement of `Conversation` with its fairness (`ConversationSpec`): every request answered, in order; no response without an event to come (`ResponseDue`) |

Five runs look for a violation and find it; each is a place where the code does
not do what a comment or message beside it says.

| Run | What happens |
|---|---|
| client_exit | `tsk_exit()` (`src/ws-client.cpp:77`) runs when `process()` has ended. A client that is *aborting* needs `process()` to become closed; one that is *connecting* has no connection to disconnect yet, the request is dropped, and nobody asks again after it is connected. The wait never ends. `ExitFromConnected` says when it does. |
| client_stale | The peer closes a connection for which `to_disconnect_set` has an entry. Nothing removes the entry, and the next connection that gets the address is closed, whosever it is. |
| fragments_oversize | A message longer than `recv_buf_` is not stored, but with its last fragment its full length is handed to `on_recv()` with `recv_buf_`. With the default size of 0 this is any message in more than one fragment, and libwebsockets cuts messages beyond its receive buffer itself. |
| sendbuffer_lost | A frame is put after the constructor has added the reader and before the callback is in `ctx_set_`: the task does not report it, and a server connection, unlike a client's, does not ask for a first writeable event. The frame waits for the next one. |
| dispatch_close | With a factory installed (`Installs = {TRUE}`), as in a program that works: `create()` leaves `factory_` of the connection null, and the end of the connection calls `remove()` through it. (A connection that is refused because no factory is installed, whose callback is null itself, ends the same way; the model has it, this run leaves it out.) |

Limits the properties state in their preconditions, where the code is not
stronger:

* two clients with one url that ask at the same time: the set is ordered by url,
  the second request is dropped, 0 is returned, and that client waits for ever
  (`Proper` in `ConnectResolves`); so does one whose url does not parse;
* with `SyncErrorCallback`, the second `on_error()` can reach a client that has
  gone through closed and idle and has asked again; `ConnectionTracksState`, and
  with it the assertion of `on_connected()`, then fails, which is why the
  theorems about it assume `~SyncErrorCallback`;
* `to_state()` assigns `state_` before it writes the configuration, so
  `tsk_exit()` may delete a client whose `on_close()` has not returned:
  `NoDanglingUser` is about connections on which an event is still to come;
* a message whose first fragment is empty is lost, since `received_ = 0` also
  means that nothing has started (`first > 0` in `ExactDelivery`);
* after `received_` has overflowed `append()` may write before its buffer
  (`off' <= IntMax` in `BoundedWrites`);
* `update()` applies the first object that has an id and no other, and everything
  but a read is answered 200 whether its statements were run or not; a read that
  fails is answered 0 or 500, which trips the assertion of the test client
  (`test/client/test-client.h:99`; the model goes on). So the client goes on as
  if all was written when a statement has failed; `WritesInOrder` then promises
  it no more than the first part (`seen.ok`);
* an update leaves what jgb streams of a string (`Streamed`). Whether a name reads
  back as the client wrote it is jgb's to decide, and nothing here says it does;
* the test client waits for ever once it has skipped an empty delete, or has lost
  an answer with its connection or because it is too long (`Stuck` in
  `RoundEnds`): `on_send()` does nothing in odd steps and nothing resets `step_`;
* wscli may print the answer of an earlier round, as its FIXME
  (`client/main.cpp:371`) says; `AnswersOwnRound` says how much earlier;
* `-O` with a name inside an array leaves a dangling cursor, and nothing is
  promised of the options after it (`main = "wild"`), but for `-K` and `-U`.

**Bounds.** Two addresses are what it takes for one to be reused while another
connection exists, and two clients for one to meet what another left behind.
More than two frames or requests add nothing: one is being handled, another is
waiting. A buffer of three bytes with fragments of up to two has messages that
fit with room, fit exactly, exceed by one, and exceed by a lot; with `IntMax`
of 7 a message of 9 bytes passes the overflow. Counters (`MaxFrames`,
`MaxMessages`, `MaxRequests`, `MaxOthers`, `MaxLost`) bound what the environment
does, never the program. Only the clients in `Sender` are given frames. In wscli `MaxFrames` is the number of rounds: with two,
one may time out and its answer come in the other. `MaxNodes` of 3 is an array in
an object with an object in it, which is every shape that a replacement, `-U` and
`-O` can meet; one address is enough since there is one client. In test_client
three tables to begin with have nothing to delete, two rows, and one more than an
answer can hold; the loss may come in any round, before, between or after the
statements.

**Fairness.** Threads keep running (weak fairness of the service thread). A step
that takes a mutex is given strong fairness: the mutex is free again and again,
since `prepare()` ends and `lws_service()` runs without it. Events of
connections that are ready get strong fairness, as every round of
`lws_service()` serves each of them; `lws_service()` returns once it was
cancelled or has served something (`wake`). An attempt to connect ends, by
libwebsockets' timeout if need be. Peers, producers and whoever stops the tasks
owe nothing. In `TestClient` a session, `on_send()`, the server and a reconnect
go on (weak fairness); receiving, which stops while `on_send()` runs on the same
thread, is strongly fair. In `WsCli` `main()` runs (weak fairness); no answer ever
has to come, and no option has to.

**Deadlock** is checked where the system runs for ever or has an explicit final
step (`Finished`, `CliFinished`, `Failed`, `Ended`); `Fragments` stops when its peer has sent
all its messages.

## 4. Proofs

The `..._proofs` modules prove, for all values of the constants that satisfy the
named assumptions of the modules, what follows. `WsApp_proofs` has what the
others need of the service: that its steps keep its types, and `AppInv`.

* `RequestsHeard` of `WsClient`, `SendBuffer` and `ObjectDispatch`:
  `NoRequestForgotten`. A request made before `prepare()` is taken up by it; one
  made after it finds `lws_service()` about to run or running, and wakes it. It is
  inductive once `AppInv` adds that a connection that is established is in
  `live_set`, so that `to_ack()` does not pass it over, and that whoever has a
  connection has a context, so that its requests are not refused.

* `TypeCorrect` of `WsClient`: types, with the count of frames (`FramesBounded`) that they
  need: `tsk_send()` releases a frame only if it has read one.
* `Safety`, with `OneAttempt`, `NoneDangling` and `Inductive` for its parts:
  `SingleAttempt`, `ConnectionTracksState` and `NoDanglingUser`, assuming `~SyncErrorCallback`. None of them is inductive. That an event finds
  `state_` as it should needs that nobody else writes it meanwhile: a branch of
  `process()` still finds the state it was chosen for (`BranchFresh`), a client
  making a request or with one in the set has no connection (`Requesting`,
  `Requested`), two connections never have one user (`OneConnection`), and a
  client whose task has ended is down (`EndedDown`). Their conjunction is
  `IInv`; `IInvInit`, `IInvClient`, `IInvEvent`, `IInvService` and `IInvNext`
  show it inductive, one step per action.
* `StateMoves`: the action property `LegalMoves`, from the same invariant.
* `LinksKept`: every behaviour of `WsClient` is, link by link, one of
  `ClientLink`, but for its fairness, assuming `~SyncErrorCallback`. A step that
  moves no link is a stutter (`LinkStutter`), one that moves one link as
  `ClientLink` says is a step of it (`LinkMove`), and no step moves two; `IInv`
  tells which connection or request the client has before the step.
* `WaitsForAttempt`: `ConnectingTried`, with no assumption about libwebsockets'
  reports. The attempt goes from `process()` to the set to libwebsockets, and
  whoever ends it tells the client; the set refuses a request only for one with
  the same url. That a client which has been deleted waits for nothing
  (`DoneDown`) is needed for the end of the service.
* `FramesRemembered`: `NoFrameForgotten`, assuming `~SyncErrorCallback`. When
  `tsk_send()` has an old `wsi_` in hand, or none, the connection has been
  established since, and its first event is due or has been served; a frame put
  after that is a second one for `tsk_send()` to read (`FrameSend`). That an event
  which sends nothing found no frame is `FrameEvent`.
* `LiveSet`: `LiveSetExact`, with no assumption about libwebsockets' reports.
* `Delivery`: `ExactDelivery` of `Fragments`, from the invariant that the buffer
  holds the start of the message that is arriving, with two lemmas about
  `append()`: a sum within the buffer has not overflowed (`NoOverflow`), and
  appending extends what is held (`AppendExtends`).
* `Completeness` and `InBuffer`: `OnlyComplete` and `BoundedWrites`, both from
  `Progress`: what is arriving is not complete yet, and `received_` counts no
  more of it than has arrived and is not negative before an int overflows.
  `BoundedWrites` alone is not enough, since `received_` may be left over from a
  connection that was lost: only the first fragment of the next message resets
  it.
* `TypeCorrect` and `BufferHolds` of `Fragments`: types, for which a wrapped sum is
  shown to be an int, and the invariant on which `Delivery` rests.
* `ReportsLive`: `ReportAlive` of `SendBuffer`. It follows from `CtxInv`: a
  callback in `ctx_set_` is the user of the connection it was made for
  (`Registered`), which needs that a connection's callback was made for that
  connection (`MadeFor`) and that the only closed connection is that of the
  active callback (`Users`); the task's list is part of `ctx_set_` and empty
  whenever `mutex_` is free (`Reporting`), so `remove()` finds it empty.
* `FramesWhole`: `WholeFrames`. `ReadInv` adds what the peer has of the frame
  that is being cut up: of a frame that was read, sent and remaining bytes make
  up its length, and the peer has its first `sent_` bytes (`GotPart`).
  `StartExtends` says that a fragment makes a start of a frame a longer one.
* `TypeCorrect` of `SendBuffer`: types; that the task releases only a frame it
  has read needs where the task is (`TaskTyped`).
* `FramesDue`: `FrameDue`, from `WakeInv`. A callback that is not registered has been
  sent nothing (`Enrolled`); while the task reports, whoever it has done with has an
  event or a request for one, unless another frame is to be reported after this
  (`Reported`). So when the task releases a frame each callback with something to
  send has its event, and `on_send()` asks for the next as long as it sends. One
  lemma for each action.
* `Broadcasts`: every behaviour of `SendBuffer` is one of `Broadcast`, but for its
  fairness. A step that shows the clients nothing (`SeenSame`) may wake some of them
  (`BCWake`); a frame put is the log's next (`BCPut`); an event that finds nothing
  puts to sleep only a client that was given nothing (`BCIdle`), and one that sends
  gives it nothing yet or the frame its reader is at (`OnSendGives`, `BCSend`),
  which by `ReadInv` is the one that is due.
* `ResponsesInOrder`: `AnswersInOrder` of `ObjectDispatch`, from the same
  statement made of the responses got and those queued apart (`InOrder`): one
  moves from the head of the queue to the end of what the client has.
* `ResponsesDue`: `ResponseDue`, from `DueInv`, with one response sent per event and
  the next event asked for by `send()` itself.
* `Converses`: every behaviour of `ObjectDispatch` is one of `Conversation`, but for
  its fairness. A step that neither receives, sends nor ends leaves the
  conversation as it is (`Untouched`); what is sent is the next answer by the
  invariant behind `ResponsesInOrder`.
* `TypeCorrect` of `ObjectDispatch`: the status of a response is one that a
  handler set or that of a request nobody handles. The chain of handlers ends at
  the least position of one that ends it; that there is a least one is an
  application of well-foundedness (`LeastNatural`), as induction over data is out
  of reach.
* `UsesClient`: `CliSpec => Spec`. Every step of wscli is one of `WsClient` or
  leaves its variables alone, so all that is proved of `WsClient` holds of wscli.
* `OwnAnswers`: `AnswersOwnRound`, from the order of everything that is numbered:
  what was printed (`PrintedBefore`), is in the buffer, is under way (`InOrder`) and
  waits to be sent follow each other in the order they were put, each number once.
  That the connection which sends or receives is that of wscli's client
  (`UserKnown`) is part of `IInv`, and comes through `UsesClient`.
* `CursorKept` and `TreeKept`: `CursorOnPath` and `RequestIsTree`, from `TreeInv`
  (`OptionTree_proofs`): every node was made after those above it (`Paths`), what
  is alive hangs on what is alive (`AliveAbove`), no two living members of one
  object share a name (`Named`), and the cursor is at the end of its stack (`At`).
  The order of the nodes is what the two properties lack: a replacement frees what
  lies below the replaced member, which was made after the cursor (`WithinLater`)
  and so is never on the stack. What is left has the name free (`NameFree`), and the
  new node is put where it was (`Grown`).
* `CliTypeCorrect`: the types of `WsCli`. That only requests which have been put are
  under way or printed is `OrderBounds`, from the order behind `OwnAnswers`.
* `ResponsesFit` and `VainWaits`: `AnswerFits` and `WaitsInVain` of `TestClient`,
  together, from `OneRequest`: in an odd step one request is in hand somewhere or
  none will be, in an even one none is.
* `TypeCorrect` of `TestClient`: scripts are sequences of statements and answers
  have rows. The client names the rows it deletes in the order of their ids: that a
  finite set of integers has an order is proved without induction, from the least
  way in which there is none (`Sorted`). This is why `Id` is a finite set of
  integers, which a table of a database has.
* `UpdatesOnlyFirst`: the action property `UpdatesFirstOnly`, from the invariant
  that the job of an update has the scripts `update()` has made, of which only the
  first has a statement that parses (`UpdateJob`).
* `RoundWrites`: `WritesInOrder`, for every `Streamed`. Each request in hand is the one of its step
  (`OwnRequest`). Until the client's write is taken up the table is what the client
  last read (`Before`), while its script runs what the script still has to do is
  what is missing (`During`), and afterwards it is a first part of the script, all of it if
  no statement failed (`After`); `Round` is the conjunction. The statements of a
  delete are in the increasing order of ids (`Deletes`), since the client names the
  rows in the order sqlite read them (`InOrderSorts`).

Only model-checked: what rests on fairness (`ConnectResolves`,
`ExitFromConnected`, `FramesDrain`, `LoopEnds`, `RoundEnds`, and the fairness of
`LinkSpec`, `BroadcastSpec` and `ConversationSpec`), which is out of the prover's
reach. `ConnectingTried`, `NoFrameForgotten`, `FrameDue`, `ResponseDue` and
`NoRequestForgotten` are the safety part of it that is proved: whatever waits has
its wake-up coming. Fairness then says that it comes. Every safety property of
the passing runs is a theorem. The runs that find a violation need no proof.

## 5. Not modelled

* JSON, curl's parsing of urls (an url parses or does not), SQL as text (a value
  that ends its own quotes makes other statements than those of `SqliteTable`), addresses
  and host names, configuration and logging; the maps of factories, which are
  filled when the modules are loaded and only read afterwards; making the objects
  and installing them (`src/sqlite-app.cpp`, `test/server`), which happens before
  the service starts.
* `lws_write()` is taken to write all it is given; the code logs a short write.
  Requests and frames longer than the 16 KiB of `send()` do not occur: only the
  responses of `TestClient` meet the limit.
* A failed `lws_service()` ends the loop, as a stop does. Nothing in the
  repository starts the service a second time (which would trip the assertion of
  `src/wsapp.cpp:255`, since `protocols` is not reset), so restarting it is left out.
  The server of `TestClient` is restarted as a process.
* What jgb does, whose source is not here: whether a full buffer makes `put()`
  fail and `main()` assert (`client/main.cpp:356`), how tasks are stopped, whether
  giving a message that was read an id of its own replaces the one it has.
  `main()`'s wait of 100 ms is taken to be enough for the task to have started.
* The eleventh SIGINT ends wscli at once. A port that is not a number gives an
  url that does not parse, a client that is connecting for ever, and a stop that
  never ends: client_exit shows the same.

## 6. Plan

1. The server that `WsCli` and `TestClient` assume as an instance of
   `Conversation`, with losses of the connection, which `Conversation` does not
   have yet; `send()`'s limit in `ObjectDispatch`.
2. The same argument about `live_set` and requests for a service that has client
   and server connections at once: each composition has one kind.
3. A lemma for what `to_disconnect_set` may name, which is as much as holds in
   client_stale.
