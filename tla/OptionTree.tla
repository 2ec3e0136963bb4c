------------------------------ MODULE OptionTree ------------------------------
(***************************************************************************)
(* How wscli builds its request out of options (client/main.cpp): a tree   *)
(* of JSON objects and arrays with a cursor, jcur, and the stack of the    *)
(* nodes above it, parent.  A member set under a name that is taken        *)
(* replaces the old one, which is freed with all that is in it.            *)
(*                                                                         *)
(* Only objects and arrays are kept; of numbers and strings, that they     *)
(* replace what was there.  The options commute with -l, -h, -p, -t and    *)
(* -v.  The module has no next-state relation: see WsCli.                  *)
(***************************************************************************)
EXTENDS Naturals, Sequences, SequencesExt

CONSTANTS
    Name,               \* names of members
    NoName,
    MaxNodes            \* bound: objects and arrays that are made

ASSUME OptionTreeAssumption ==
    /\ {"id", "object", "method", "data"} \subseteq Name
    /\ NoName \notin Name
    /\ MaxNodes \in Nat \ {0}

VARIABLES
    nodes,              \* the objects and arrays, in the order they were made
    jcur,               \* cursor: the number of a node
    parent,             \* the stack of the nodes above it
    key                 \* the name given with -K and not used yet

treeVars == <<nodes, jcur, parent, key>>

\* above: the nodes above this one; name: of the member, or NoName in an array.
Node == [kind : {"object", "array"}, above : Seq(1..MaxNodes), name : Name \cup {NoName},
         freed : BOOLEAN]

TreeInit ==
    /\ nodes = << [kind |-> "object", above |-> <<>>, name |-> NoName, freed |-> FALSE] >>
    /\ jcur = 1
    /\ parent = <<>>
    /\ key = NoName

Dangling == nodes[jcur].freed

\* What json_is_object() and json_is_array() say of the cursor.
On(k) == ~Dangling /\ nodes[jcur].kind = k

-----------------------------------------------------------------------------
(* What jansson does.                                                      *)

\* Node i is member n of object o, or in it.
Within(i, o, n) ==
    \/ nodes[i].above # <<>> /\ Last(nodes[i].above) = o /\ nodes[i].name = n
    \/ \E j \in ToSet(nodes[i].above) :
          nodes[j].above # <<>> /\ Last(nodes[j].above) = o /\ nodes[j].name = n

\* Mutant: what is replaced stays.
WithoutNot(o, n) == nodes

\* The nodes once member n of object o has been replaced.
Without(o, n) ==
    [i \in DOMAIN nodes |->
        IF Within(i, o, n) THEN [nodes[i] EXCEPT !.freed = TRUE] ELSE nodes[i]]

NewNode(k, n, f) == [kind |-> k, above |-> Append(parent, jcur), name |-> n, freed |-> f]

\* A new node under the cursor becomes the cursor.
Descend(old, node) ==
    /\ Len(nodes) < MaxNodes
    /\ nodes' = Append(old, node)
    /\ jcur' = Len(nodes) + 1
    /\ parent' = Append(parent, jcur)

SetLeaf(n) == nodes' = Without(jcur, n) /\ UNCHANGED <<jcur, parent>>

-----------------------------------------------------------------------------
(* The options.  Those that do not fit the cursor are ignored, with a      *)
(* warning or without.                                                     *)

\* -i, -o and -m
OptMember ==
    /\ On("object")
    /\ \E n \in {"id", "object", "method"} : SetLeaf(n)
    /\ UNCHANGED key

OptData ==
    /\ On("object")
    /\ Descend(Without(jcur, "data"), NewNode("array", "data", FALSE))
    /\ UNCHANGED key

\* -A with a name, or with the one given before
OptArray ==
    /\ On("object")
    /\ \E n \in Name : Descend(Without(jcur, n), NewNode("array", n, FALSE))
    /\ key' = NoName

OptKey ==
    /\ key' \in Name
    /\ UNCHANGED <<nodes, jcur, parent>>

\* -I and -T; the text of -I may be no number, which uses up the name alone.
OptValue ==
    /\ On("object")
    /\ key # NoName
    /\ SetLeaf(key) \/ UNCHANGED <<nodes, jcur, parent>>
    /\ key' = NoName

\* -O with a name.  The cursor is not looked at: an array refuses the member,
\* which is freed, and becomes the cursor all the same.
OptObject ==
    /\ ~Dangling
    /\ \E n \in Name :
          IF On("object")
            THEN Descend(Without(jcur, n), NewNode("object", n, FALSE))
            ELSE Descend(nodes, NewNode("object", n, TRUE))
    /\ UNCHANGED key

\* -O without one
OptElement ==
    /\ On("array")
    /\ Descend(nodes, NewNode("object", NoName, FALSE))
    /\ UNCHANGED key

\* Mutant: the stack is not popped.
OptUpStay ==
    /\ parent # <<>>
    /\ jcur' = Last(parent)
    /\ UNCHANGED <<nodes, parent, key>>

OptUp ==
    /\ parent # <<>>
    /\ jcur' = Last(parent)
    /\ parent' = Front(parent)
    /\ UNCHANGED <<nodes, key>>

Option ==
    \/ OptMember
    \/ OptData
    \/ OptArray
    \/ OptKey
    \/ OptValue
    \/ OptObject
    \/ OptElement
    \/ OptUp

\* Any option but -K and -U reads the freed node.
UsesFreed == Dangling

-----------------------------------------------------------------------------

TreeTypeOK ==
    /\ nodes \in Seq(Node)
    /\ jcur \in DOMAIN nodes
    /\ parent \in Seq(DOMAIN nodes)
    /\ key \in Name \cup {NoName}

\* The stack is the way from the request to the cursor, every node on it is
\* alive though options replace members all the time, and the cursor is freed
\* only if it was made with -O and a name inside an array (main.cpp:85-297).
CursorOnPath ==
    /\ parent = nodes[jcur].above
    /\ \A i \in DOMAIN parent :
          /\ ~nodes[parent[i]].freed
          /\ nodes[parent[i]].above = SubSeq(parent, 1, i - 1)
    /\ Dangling => nodes[Last(parent)].kind = "array" /\ nodes[jcur].name # NoName

\* The request is a tree: what is alive hangs on what is alive, and no object
\* has two members of one name.
RequestIsTree ==
    \A i \in DOMAIN nodes : ~nodes[i].freed =>
       /\ \A j \in ToSet(nodes[i].above) : ~nodes[j].freed
       /\ \A j \in DOMAIN nodes \ {i} :
             ~nodes[j].freed /\ nodes[j].above = nodes[i].above =>
                nodes[i].name = NoName \/ nodes[j].name # nodes[i].name
=============================================================================
