------------------------------ MODULE TestClient ------------------------------
(***************************************************************************)
(* The test client (test-client.h), which goes round a cycle of requests   *)
(* on the places table, with the table's server (SqliteTable) and others   *)
(* who use the same table.                                                 *)
(*                                                                         *)
(* sent_ is written by the client's task, in on_session(), and by the      *)
(* service thread, in on_send(); the rest is the service thread's.  What   *)
(* lies between the two ends is taken from the modules about it: a link    *)
(* that is up or down (ClientLink), and a server that takes the requests   *)
(* of a connection in order and answers each once (ObjectDispatch).        *)
(***************************************************************************)
EXTENDS SqliteTable

CONSTANTS
    Haidian, Changping, Chaoyang,   \* the names the test client writes
    InitialTable,       \* what the file may hold when the server is started
    OtherRequest,       \* requests of others
    MaxRows,            \* rows of a response that fit in send_buf_
    MaxOthers,          \* bound: requests of others
    MaxLost             \* bound: connections that are lost

ASSUME TestClientAssumption ==
    /\ {1, 2} \subseteq Id
    /\ {Haidian, Changping, Chaoyang} \subseteq Value
    /\ InitialTable \subseteq Table
    /\ OtherRequest \subseteq Request
    /\ MaxRows \in Nat
    /\ MaxOthers \in Nat
    /\ MaxLost \in Nat

VARIABLES
    link,               \* is the connection up?
    writable,           \* is a writeable event due?
    session,            \* where process() is
    sent_, step_, place_ids_,
    sending,            \* is the service thread between the switch of on_send()
                        \* and its end?
    requests,           \* requests on their way
    responses,          \* responses queued or on their way
    others,             \* requests of others so far
    lost,               \* connections lost so far
    vain,               \* has a response that the client waits for been lost?
    seen                \* history: the client's last read, what it found, and
                        \* whether no statement has failed since; kept as long
                        \* as nobody else asks

clientVars == <<writable, session, sent_, step_, place_ids_, sending>>
bounds     == <<others, lost>>
vars       == <<tableVars, link, clientVars, requests, responses, bounds, vain, seen>>

\* Before the first read.
NoRead == [at |-> 0, rows |-> NoData, ok |-> FALSE]

Init ==
    /\ table \in InitialTable
    /\ job = NoJob
    /\ link = FALSE
    /\ writable = FALSE
    /\ session = "out"
    /\ sent_ = FALSE
    /\ step_ = 0
    /\ place_ids_ = {}
    /\ sending = FALSE
    /\ requests = <<>>
    /\ responses = <<>>
    /\ others = 0
    /\ lost = 0
    /\ vain = FALSE
    /\ seen = NoRead

-----------------------------------------------------------------------------
(* The client's task: process() calls on_session() while connected.        *)

SessionBegin ==
    /\ session = "out"
    /\ link
    /\ session' = "sleep"
    /\ UNCHANGED <<tableVars, link, writable, sent_, step_, place_ids_, sending, requests,
                   responses, bounds, vain, seen>>

OnSession ==
    /\ session = "sleep"
    /\ sent_' = TRUE
    /\ session' = "request"
    /\ UNCHANGED <<tableVars, link, writable, step_, place_ids_, sending, requests,
                   responses, bounds, vain, seen>>

\* Mutant: no writeable event is asked for.
SessionRequestSilent ==
    /\ session = "request"
    /\ session' = "out"
    /\ UNCHANGED <<tableVars, link, writable, sent_, step_, place_ids_, sending, requests,
                   responses, bounds, vain, seen>>

SessionRequest ==
    /\ session = "request"
    /\ session' = "out"
    /\ writable' = (writable \/ link)
    /\ UNCHANGED <<tableVars, link, sent_, step_, place_ids_, sending, requests,
                   responses, bounds, vain, seen>>

-----------------------------------------------------------------------------
(* The service thread: on_send()                                           *)

Named(i, name) == [id |-> i, columns |-> name]

\* The requests of a round; the odd steps wait for the response.
RequestOf(s, ids) ==
    CASE s \in {0, 4, 8, 12} -> [method |-> "read", data |-> <<>>]
      [] s = 2  -> [method |-> "delete", data |-> [i \in DOMAIN ids |-> Named(ids[i], NoColumns)]]
      [] s = 6  -> [method |-> "create", data |-> <<Named(1, Haidian), Named(2, Changping)>>]
      [] s = 10 -> [method |-> "update", data |-> <<Named(1, Chaoyang)>>]

Waiting == step_ % 2 = 1

\* Nothing to delete.
Skips == step_ = 2 /\ place_ids_ = {}

OnSend ==
    /\ link
    /\ writable
    /\ ~sending

OnSendIdle ==
    /\ OnSend
    /\ ~sent_
    /\ writable' = FALSE
    /\ UNCHANGED <<tableVars, link, session, sent_, step_, place_ids_, sending, requests,
                   responses, bounds, vain, seen>>

OnSendWait ==
    /\ OnSend
    /\ sent_ /\ Waiting
    /\ writable' = FALSE
    /\ sending' = TRUE
    /\ UNCHANGED <<tableVars, link, session, sent_, step_, place_ids_, requests,
                   responses, bounds, vain, seen>>

OnSendSkip ==
    /\ OnSend
    /\ sent_ /\ Skips
    /\ writable' = FALSE
    /\ sending' = TRUE
    /\ step_' = step_ + 1
    /\ UNCHANGED <<tableVars, link, session, sent_, place_ids_, requests,
                   responses, bounds, vain, seen>>

\* The rows of a read come in the order of their ids.
InOrder(ids) == CHOOSE q \in [1..Cardinality(ids) -> ids] :
                   /\ ids = {q[i] : i \in DOMAIN q}
                   /\ \A i, j \in DOMAIN q : i < j => q[i] < q[j]

\* Mutant: a request is sent again as long as there is no answer to it.
OnSendAgain ==
    /\ OnSend
    /\ sent_ /\ ~Skips
    /\ LET s == IF Waiting THEN step_ - 1 ELSE step_
       IN  /\ requests' = Append(requests, [id |-> s, req |-> RequestOf(s, InOrder(place_ids_))])
           /\ step_' = s + 1
    /\ sending' = TRUE
    /\ UNCHANGED <<tableVars, link, writable, session, sent_, place_ids_,
                   responses, bounds, vain, seen>>

\* send() asks for the next writeable event.  The id of a request, a number that
\* keeps growing, is the step here.
OnSendRequest ==
    /\ OnSend
    /\ sent_ /\ ~Waiting /\ ~Skips
    /\ requests' = Append(requests, [id |-> step_, req |-> RequestOf(step_, InOrder(place_ids_))])
    /\ step_' = step_ + 1
    /\ sending' = TRUE
    /\ UNCHANGED <<tableVars, link, writable, session, sent_, place_ids_,
                   responses, bounds, vain, seen>>

\* A session that began meanwhile is forgotten with it.
OnSendEnd ==
    /\ sending
    /\ sent_' = FALSE
    /\ sending' = FALSE
    /\ UNCHANGED <<tableVars, link, writable, session, step_, place_ids_, requests,
                   responses, bounds, vain, seen>>

-----------------------------------------------------------------------------
(* on_recv()                                                               *)

RowsOf(resp) == IF resp.data = NoData THEN {} ELSE {i \in Id : resp.data[i] # NoRow}

\* Mutant: the cycle is one step too long.
NextStepLate(s) == IF s > 13 THEN 0 ELSE s + 1

NextStep(s) == IF s + 1 > 13 THEN 0 ELSE s + 1

OnRecv ==
    /\ link
    /\ ~sending
    /\ responses # <<>>
    /\ responses' = Tail(responses)
    /\ place_ids_' = IF step_ = 1 THEN RowsOf(Head(responses)) ELSE place_ids_
    /\ step_' = NextStep(step_)
    /\ UNCHANGED <<tableVars, link, writable, session, sent_, sending, requests,
                   bounds, vain, seen>>

-----------------------------------------------------------------------------
(* The server's service thread.                                            *)

Accept ==
    /\ requests # <<>>
    /\ Begin("client", Head(requests).id, Head(requests).req)
    /\ requests' = Tail(requests)
    /\ UNCHANGED <<link, clientVars, responses, bounds, vain, seen>>

Other ==
    /\ others < MaxOthers
    /\ others' = others + 1
    /\ \E r \in OtherRequest : Begin("other", 0, r)
    /\ seen' = NoRead
    /\ UNCHANGED <<link, clientVars, requests, responses, lost, vain>>

Execute ==
    /\ Exec
    /\ UNCHANGED <<link, clientVars, requests, responses, bounds, vain, seen>>

Fail ==
    /\ ExecFail
    /\ seen' = [seen EXCEPT !.ok = FALSE]
    /\ UNCHANGED <<link, clientVars, requests, responses, bounds, vain>>

Fits(resp) == Cardinality(RowsOf(resp)) <= MaxRows

\* The client's read is answered.
See(resp) ==
    IF job.from = "client" /\ job.req.method = "read"
    THEN seen' = IF resp.data = NoData
                    THEN NoRead ELSE [at |-> job.id, rows |-> resp.data, ok |-> TRUE]
    ELSE UNCHANGED seen

\* Mutant: a failed read is not answered.
RespondOk ==
    /\ Ready
    /\ job' = NoJob
    /\ \E r \in Replies :
          /\ responses' = IF job.from = "client" /\ Fits(r) /\ r.status = 200
                             THEN Append(responses, r) ELSE responses
          /\ vain' = (vain \/ (job.from = "client" /\ ~Fits(r)))
          /\ See(r)
    /\ UNCHANGED <<table, link, clientVars, requests, bounds>>

\* send() drops a response that is too long.
Respond ==
    /\ Ready
    /\ job' = NoJob
    /\ \E r \in Replies :
          /\ responses' = IF job.from = "client" /\ Fits(r) THEN Append(responses, r) ELSE responses
          /\ vain' = (vain \/ (job.from = "client" /\ ~Fits(r)))
          /\ See(r)
    /\ UNCHANGED <<table, link, clientVars, requests, bounds>>

-----------------------------------------------------------------------------
(* Faults.  What is under way on a connection is lost with it.             *)

JobOpen == job # NoJob /\ job.from = "client"

\* The ids of the client's requests that are in hand somewhere.
Open == [i \in DOMAIN responses |-> responses[i].id]
           \o (IF JobOpen THEN <<job.id>> ELSE <<>>)
           \o [i \in DOMAIN requests |-> requests[i].id]

Down ==
    /\ lost < MaxLost
    /\ lost' = lost + 1
    /\ link
    /\ ~sending
    /\ link' = FALSE
    /\ writable' = FALSE
    /\ requests' = <<>>
    /\ responses' = <<>>
    /\ vain' = (vain \/ Open # <<>>)
    /\ UNCHANGED <<session, sent_, step_, place_ids_, sending, others>>

\* The server goes on with the request it has.
Lose ==
    /\ Down
    /\ job' = IF JobOpen THEN [job EXCEPT !.from = "other"] ELSE job
    /\ UNCHANGED <<table, seen>>

\* The server ends between two statements, and is started again; the file stays.
Crash ==
    /\ Down
    /\ job # NoJob
    /\ job' = NoJob
    /\ UNCHANGED <<table, seen>>

\* A connection asks for a writeable event when it is made.
Connect ==
    /\ ~link
    /\ link' = TRUE
    /\ writable' = TRUE
    /\ UNCHANGED <<tableVars, session, sent_, step_, place_ids_, sending, requests,
                   responses, bounds, vain, seen>>

-----------------------------------------------------------------------------

Session == SessionBegin \/ OnSession \/ SessionRequest

Send == OnSendIdle \/ OnSendWait \/ OnSendSkip \/ OnSendRequest \/ OnSendEnd

Process == Accept \/ Execute \/ Fail \/ Respond

Next ==
    \/ Session
    \/ Send
    \/ OnRecv
    \/ Process
    \/ Other
    \/ Lose
    \/ Crash
    \/ Connect

Spec == Init /\ [][Next]_vars

(***************************************************************************)
(* Fairness: both threads of the client and the server's keep running, and *)
(* the server can be reached.  A message that has come is received in a    *)
(* round of lws_service(), whatever events are served beside it.           *)
(* Connections may be lost, statements may fail and others may ask.        *)
(***************************************************************************)
Fairness ==
    /\ WF_vars(Session)
    /\ WF_vars(Send)
    /\ SF_vars(OnRecv)
    /\ WF_vars(Process)
    /\ WF_vars(Connect)

FairSpec == Spec /\ Fairness

-----------------------------------------------------------------------------
(* Properties.                                                             *)

TypeOK ==
    /\ table \in Table
    /\ job = NoJob \/ job \in [from : {"client", "other"}, id : 0..13,
                               req : Request,
                               scripts : Seq(Seq(Statement) \ {<<>>})]
    /\ {link, writable, sent_, sending, vain} \subseteq BOOLEAN
    /\ session \in {"out", "sleep", "request"}
    /\ step_ \in 0..13
    /\ place_ids_ \subseteq Id
    /\ requests \in Seq([id : 0..13, req : Request])
    /\ responses \in Seq(Response)
    /\ others \in 0..MaxOthers
    /\ lost \in 0..MaxLost
    /\ seen \in [at : 0..13, rows : Table \cup {NoData}, ok : BOOLEAN]

\* The response that the client counts is always the one to the request of the
\* step before, though on_recv() compares no ids: at most one request is in hand
\* anywhere, across reconnects, failures and requests of others
\* (test-client.h:28-129).
AnswerFits == Open # <<>> => Waiting /\ Open = <<step_ - 1>>

\* The client waits for a response that cannot come only after it has skipped
\* a delete, or once a response was lost with its connection or was too long to
\* send; nothing then takes it further (test-client.h:59-63, 124;
\* connection_callback.cpp:58-79).
Stuck == Waiting /\ Open = <<>>

WaitsInVain == Stuck <=> vain \/ (step_ = 3 /\ place_ids_ = {})

\* As long as nobody else asks, the table is the one the client has read last but
\* for its write since then, and of that for a first part: nothing is written out
\* of turn, twice, or after a statement that failed, wherever connections are lost
\* and the server ends; and all of it is there when the client goes on to its next
\* read, unless a statement failed, which the answer does not tell
\* (test-client.h:28-129, sqlite_callback.h:29-76, 80-236).
Renamed(t) == [t EXCEPT ![1] = IF @ = NoRow THEN NoRow ELSE Streamed[Chaoyang]]

WrittenPart(t) ==
    CASE seen.at = 0  -> /\ \A i \in Id : table[i] \in {t[i], NoRow}
                         /\ \A i, j \in Id : i < j /\ table[i] # NoRow => table[j] = t[j]
      [] seen.at = 4  -> \/ table = t
                         \/ t[1] = NoRow /\ table = [t EXCEPT ![1] = Haidian]
                         \/ /\ t[1] = NoRow /\ t[2] = NoRow
                            /\ table = [t EXCEPT ![1] = Haidian, ![2] = Changping]
      [] seen.at = 8  -> table \in {t, Renamed(t)}
      [] seen.at = 12 -> table = t

Written(t) ==
    CASE seen.at = 0  -> table = [i \in Id |-> NoRow]
      [] seen.at = 4  -> /\ t[1] = NoRow /\ t[2] = NoRow
                         /\ table = [t EXCEPT ![1] = Haidian, ![2] = Changping]
      [] seen.at = 8  -> table = Renamed(t)
      [] seen.at = 12 -> table = t

WritesInOrder ==
    seen.rows # NoData =>
       /\ WrittenPart(seen.rows)
       /\ seen.ok /\ step_ \in {seen.at + 4, seen.at + 5} => Written(seen.rows)

\* An update changes no row but that of the first object with an id, and makes
\* or removes none, however many objects it has (sqlite_callback.h:180-236).
UpdatesFirstOnly ==
    [][job # NoJob /\ job.req.method = "update" =>
          \A i \in Id : table'[i] # table[i] =>
             /\ NoRow \notin {table[i], table'[i]}
             /\ \E k \in DOMAIN job.req.data :
                   /\ job.req.data[k].id = i
                   /\ \A j \in 1..k - 1 : job.req.data[j].id = NoId]_vars

\* The client gets through its round, though on_send() may forget a session that
\* began while it was sending, unless it waits in vain.
RoundEnds == step_ = 0 ~> step_ = 13 \/ Stuck
=============================================================================
