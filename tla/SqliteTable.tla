----------------------------- MODULE SqliteTable -----------------------------
(***************************************************************************)
(* One table of the database behind an object (sqlite_callback.h,          *)
(* sqlite-app.cpp).  A request becomes scripts of SQL statements; each     *)
(* script is handed to sqlite3_exec(), which commits its statements one by *)
(* one and gives up at the first that fails.  The request is answered when *)
(* its last script has been run, whatever became of them.                  *)
(*                                                                         *)
(* The table has an integer primary key, id, and its other columns, as one *)
(* value, a string.  create() puts the string's text in its statement;     *)
(* update() puts there what it gets by streaming the value itself, and     *)
(* what that is jgb decides.  (Numbers are streamed by both.)              *)
(*                                                                         *)
(* The module has no next-state relation: whoever sends requests is        *)
(* composed with it (TestClient).                                          *)
(***************************************************************************)
EXTENDS Integers, Sequences, FiniteSetsExt

CONSTANTS
    Id,                 \* values of the id column, 64-bit integers
    Value,              \* values of the other columns
    Streamed,           \* what jgb writes of a value to a stream, external
    NoRow,              \* there is no row with this id
    NoId,               \* an object without an id
    NoColumns,          \* an object with nothing but its id
    NoData              \* a response without data

ASSUME SqliteTableAssumption ==
    /\ Id \subseteq Int
    /\ IsFiniteSet(Id)
    /\ Streamed \in [Value -> Value]
    /\ NoRow \notin Value
    /\ NoColumns \notin Value
    /\ NoId \notin Id
    /\ NoData \notin [Id -> Value \cup {NoRow}]

VARIABLES
    table,              \* the rows in the file
    job                 \* the request in process(), with the scripts to run

tableVars == <<table, job>>

Table  == [Id -> Value \cup {NoRow}]
Object == [id : Id \cup {NoId}, columns : Value \cup {NoColumns}]
Method == {"create", "read", "update", "delete", "unknown"}

\* Objects to create or delete have an id, and those to create other columns.
Request ==
    {r \in [method : Method, data : Seq(Object)] :
        \A k \in DOMAIN r.data :
           /\ r.method \in {"create", "delete"} => r.data[k].id # NoId
           /\ r.method = "create" => r.data[k].columns # NoColumns}

\* process() is not running.
NoJob == [from |-> "nobody", id |-> 0, req |-> [method |-> "unknown", data |-> <<>>],
          scripts |-> <<>>]

Stmt(op, o) == [op |-> op, id |-> o.id, value |-> o.columns]

\* Text that sqlite3_exec() cannot parse.
SyntaxError == [op |-> "error", id |-> NoId, value |-> NoColumns]

Statement ==
    [op : {"insert", "set"}, id : Id, value : Value]
       \cup [op : {"delete"}, id : Id, value : Value \cup {NoColumns}]
       \cup {SyntaxError}

-----------------------------------------------------------------------------
(* What a request is turned into.                                          *)

OneScript(op, data) ==
    IF data = <<>> THEN <<>> ELSE << [i \in DOMAIN data |-> Stmt(op, data[i])] >>

HasId(o) == o.id # NoId

SetStatement(o) ==
    IF o.columns = NoColumns THEN SyntaxError
                             ELSE [op |-> "set", id |-> o.id, value |-> Streamed[o.columns]]

\* update() makes one stream before its loop, runs its text after each object
\* that has an id, and never clears it: "UPDATE ... SET" is there once, and
\* what follows the first statement does not parse.
UpdateScripts(data) ==
    LET found == {i \in DOMAIN data : HasId(data[i])}
    IN  [n \in 1..Cardinality(found) |->
            [k \in 1..n |-> IF k = 1 THEN SetStatement(data[Min(found)]) ELSE SyntaxError]]

Scripts(req) ==
    CASE req.method = "create" -> OneScript("insert", req.data)
      [] req.method = "delete" -> OneScript("delete", req.data)
      [] req.method = "update" -> UpdateScripts(req.data)
      [] OTHER -> <<>>

\* process() begins.  from says who will be sent the response.
Begin(from, id, req) ==
    /\ job = NoJob
    /\ job' = [from |-> from, id |-> id, req |-> req, scripts |-> Scripts(req)]
    /\ UNCHANGED table

-----------------------------------------------------------------------------
(* exec_sql()                                                              *)

Script   == Head(job.scripts)
NextStmt == Head(Script)

HasStmt == job # NoJob /\ job.scripts # <<>>

\* The statement parses and breaks no constraint.
Valid(s) == s.op # "error" /\ (s.op = "insert" => table[s.id] = NoRow)

\* Mutant: an update makes the row if there is none.
EffectUpsert(s) ==
    [table EXCEPT ![s.id] = IF s.op = "delete" THEN NoRow ELSE s.value]

Effect(s) ==
    [table EXCEPT ![s.id] =
        CASE s.op = "insert" -> s.value
          [] s.op = "set"    -> IF @ = NoRow THEN NoRow ELSE s.value
          [] s.op = "delete" -> NoRow]

Exec ==
    /\ HasStmt
    /\ Valid(NextStmt)
    /\ table' = Effect(NextStmt)
    /\ job' = [job EXCEPT !.scripts = IF Tail(Script) = <<>>
                                        THEN Tail(@) ELSE <<Tail(Script)>> \o Tail(@)]

\* Mutant: the script goes on after a statement that failed.
ExecFailOne ==
    /\ HasStmt
    /\ job' = [job EXCEPT !.scripts = IF Tail(Script) = <<>>
                                        THEN Tail(@) ELSE <<Tail(Script)>> \o Tail(@)]
    /\ UNCHANGED table

\* The rest of the script is given up: the statement is not valid, or the file
\* cannot be opened or written at the moment.
ExecFail ==
    /\ HasStmt
    /\ job' = [job EXCEPT !.scripts = Tail(@)]
    /\ UNCHANGED table

-----------------------------------------------------------------------------
(* The end of process().                                                   *)

Ready == job # NoJob /\ job.scripts = <<>>

Response == [id : Nat, status : {0, 200, 500, 501}, data : Table \cup {NoData}]

Reply(status, data) == [id |-> job.id, status |-> status, data |-> data]

\* read() leaves the status it finds when it cannot open or prepare, and reports
\* an error while it steps through the rows.  The others are always ok.
Replies ==
    CASE job.req.method = "read"    -> {Reply(200, table), Reply(0, NoData), Reply(500, NoData)}
      [] job.req.method = "unknown" -> {Reply(501, NoData)}
      [] OTHER                      -> {Reply(200, NoData)}
=============================================================================
