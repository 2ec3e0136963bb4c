----------------------------- MODULE MCTestClient -----------------------------
(* An instance of TestClient for TLC.                                       *)
EXTENDS TestClient

\* Others create a row of ours and another, update two rows, or one beside an
\* object without an id, or with nothing to set, and delete.
OthersRequests == {
    [method |-> "create", data |-> <<Named(3, Haidian), Named(1, Changping)>>],
    [method |-> "update", data |-> <<Named(1, Changping), Named(2, Changping)>>],
    [method |-> "update", data |-> <<Named(NoId, Haidian), Named(3, Haidian)>>],
    [method |-> "update", data |-> <<Named(2, NoColumns), Named(1, Changping)>>],
    [method |-> "delete", data |-> <<Named(2, NoColumns)>>],
    [method |-> "unknown", data |-> <<>>] }

\* jgb puts a string between quotes when it streams it, or does anything else but
\* write its text.
Names == {Haidian, Changping, Chaoyang}
Texts == Names \cup {<<n>> : n \in Names}
Quoted == [v \in Texts |-> IF v \in Names THEN <<v>> ELSE v]

\* No rows, two, and more than fit in a response.
Tables == {[i \in Id |-> IF i \in rows THEN Haidian ELSE NoRow] : rows \in {{}, {1, 3}, Id}}
=============================================================================
