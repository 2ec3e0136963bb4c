-------------------------- MODULE OptionTree_proofs --------------------------
(***************************************************************************)
(* That wscli's options keep their request a tree and the cursor in it,    *)
(* for any names and number of nodes.  WsCli_proofs says so of wscli.      *)
(***************************************************************************)
EXTENDS OptionTree, SequenceTheorems, TLAPS

Names == Name \cup {NoName}

\* A tree whose nodes were made after those above them; the root is never freed.
Paths(t) ==
    \A i \in 1..Len(t) : \A k \in 1..Len(t[i].above) :
       /\ t[i].above[k] \in 1..i - 1
       /\ t[t[i].above[k]].above = SubSeq(t[i].above, 1, k - 1)

AliveAbove(t) ==
    \A i \in 1..Len(t) : ~t[i].freed =>
       \A k \in 1..Len(t[i].above) : ~t[t[i].above[k]].freed

Named(t) ==
    \A i, j \in 1..Len(t) :
       i # j /\ ~t[i].freed /\ ~t[j].freed /\ t[i].above = t[j].above =>
          t[i].name = NoName \/ t[i].name # t[j].name

Tree(t) ==
    /\ t \in Seq(Node)
    /\ Len(t) \in 1..MaxNodes
    /\ t[1].above = <<>> /\ ~t[1].freed
    /\ Paths(t)
    /\ AliveAbove(t)
    /\ Named(t)

\* c is a node of t below the nodes p, which are alive.
At(t, c, p) ==
    /\ c \in 1..Len(t)
    /\ p = t[c].above
    /\ \A k \in 1..Len(p) : ~t[p[k]].freed
    /\ t[c].freed => Len(p) > 0 /\ t[p[Len(p)]].kind = "array" /\ t[c].name # NoName

TreeInv ==
    /\ Tree(nodes)
    /\ At(nodes, jcur, parent)
    /\ key \in Names

-----------------------------------------------------------------------------

LEMMA NodeFields ==
  ASSUME NEW t \in Seq(Node), NEW i \in 1..Len(t)
  PROVE  /\ t[i] \in Node
         /\ t[i] = [kind |-> t[i].kind, above |-> t[i].above, name |-> t[i].name, freed |-> t[i].freed]
         /\ t[i].kind \in {"object", "array"} /\ t[i].above \in Seq(1..MaxNodes)
         /\ t[i].name \in Names /\ t[i].freed \in BOOLEAN
         /\ Len(t[i].above) \in Nat /\ DOMAIN t[i].above = 1..Len(t[i].above)
         /\ Len(t) \in Nat /\ DOMAIN t = 1..Len(t)
<1>1. t[i] \in Node /\ Len(t) \in Nat /\ DOMAIN t = 1..Len(t)
  BY ElementOfSeq, LenProperties
<1>2. t[i].above \in Seq(1..MaxNodes)
  BY <1>1 DEF Node
<1>3. Len(t[i].above) \in Nat /\ DOMAIN t[i].above = 1..Len(t[i].above)
  BY <1>2, LenProperties
<1>4. QED
  BY <1>1, <1>2, <1>3 DEF Node, Names

\* In a tree every element of a path is a node of it, and its path is a start of
\* that path.
LEMMA PathElement ==
  ASSUME NEW t, Tree(t), NEW i \in 1..Len(t), NEW k \in 1..Len(t[i].above)
  PROVE  /\ t[i].above[k] \in 1..Len(t) /\ t[i].above[k] < i
         /\ Len(t[t[i].above[k]].above) = k - 1
         /\ \A l \in 1..k - 1 : t[t[i].above[k]].above[l] = t[i].above[l]
<1> DEFINE a == t[i].above
<1>1. Len(t) \in Nat /\ a \in Seq(1..MaxNodes) /\ Len(a) \in Nat
  BY NodeFields DEF Tree
<1>2. a[k] \in 1..i - 1 /\ t[a[k]].above = SubSeq(a, 1, k - 1)
  BY DEF Tree, Paths
<1>3. k \in Nat /\ k - 1 \in Int /\ 1 \in Int
  BY <1>1
<1>4. \A l \in 1..k - 1 : a[l] \in 1..MaxNodes
  <2>1. a \in [1..Len(a) -> 1..MaxNodes]
    BY <1>1, LenProperties
  <2>2. \A l \in 1..k - 1 : l \in 1..Len(a)
    BY <1>1
  <2>3. QED
    BY <2>1, <2>2
<1> HIDE DEF a
<1>5. /\ Len(SubSeq(a, 1, k - 1)) = IF 1 <= k - 1 THEN (k - 1) - 1 + 1 ELSE 0
      /\ \A l \in 1..(k - 1) - 1 + 1 : SubSeq(a, 1, k - 1)[l] = a[1 + l - 1]
  BY <1>3, <1>4, SubSeqProperties
<1>6. QED
  BY <1>1, <1>2, <1>3, <1>5 DEF a

-----------------------------------------------------------------------------
(* Replacing a member of the cursor.                                       *)

LEMMA WithoutFields ==
  ASSUME nodes \in Seq(Node), NEW o, NEW n
  PROVE  /\ Without(o, n) \in Seq(Node)
         /\ Len(Without(o, n)) = Len(nodes)
         /\ \A i \in 1..Len(nodes) :
               /\ Without(o, n)[i].above = nodes[i].above
               /\ Without(o, n)[i].name = nodes[i].name
               /\ Without(o, n)[i].kind = nodes[i].kind
               /\ Without(o, n)[i].freed <=> nodes[i].freed \/ Within(i, o, n)
<1> DEFINE e(i) == IF Within(i, o, n) THEN [nodes[i] EXCEPT !.freed = TRUE] ELSE nodes[i]
<1>1. Len(nodes) \in Nat /\ DOMAIN nodes = 1..Len(nodes)
  BY LenProperties
<1>2. \A i \in 1..Len(nodes) :
         /\ e(i) \in Node
         /\ e(i).above = nodes[i].above /\ e(i).name = nodes[i].name /\ e(i).kind = nodes[i].kind
         /\ e(i).freed <=> nodes[i].freed \/ Within(i, o, n)
  <2> SUFFICES ASSUME NEW i \in 1..Len(nodes)
               PROVE  /\ e(i) \in Node
                      /\ e(i).above = nodes[i].above /\ e(i).name = nodes[i].name
                      /\ e(i).kind = nodes[i].kind
                      /\ e(i).freed <=> nodes[i].freed \/ Within(i, o, n)
    OBVIOUS
  <2>1. nodes[i] \in Node
    BY NodeFields
  <2>2. CASE Within(i, o, n)
    <3>1. e(i) = [nodes[i] EXCEPT !.freed = TRUE]
      BY <2>2
    <3>2. QED
      BY <3>1, <2>1, <2>2 DEF Node
  <2>3. CASE ~Within(i, o, n)
    <3>1. e(i) = nodes[i]
      BY <2>3
    <3>2. QED
      BY <3>1, <2>1, <2>3
  <2>4. QED
    BY <2>2, <2>3
<1>3. Without(o, n) = [i \in 1..Len(nodes) |-> e(i)]
  BY <1>1 DEF Without
<1> HIDE DEF e
<1>4. Without(o, n) \in Seq(Node) /\ Len(Without(o, n)) = Len(nodes)
  BY <1>1, <1>2, <1>3
<1>5. QED
  BY <1>2, <1>3, <1>4

\* Only what was made after the cursor, and below it, is freed.
LEMMA WithinLater ==
  ASSUME Tree(nodes), NEW i \in 1..Len(nodes), NEW o, NEW n, Within(i, o, n)
  PROVE  \E k \in 1..Len(nodes[i].above) : nodes[i].above[k] = o /\ o < i
<1> DEFINE a == nodes[i].above
<1>1. nodes \in Seq(Node) /\ Len(nodes) \in Nat /\ a \in Seq(1..MaxNodes) /\ Len(a) \in Nat
      /\ DOMAIN a = 1..Len(a)
  BY NodeFields DEF Tree
<1>2. CASE a # <<>> /\ Last(a) = o
  <2>1. Len(a) \in 1..Len(a)
    BY <1>1, <1>2, EmptySeq
  <2>2. QED
    BY <2>1, <1>2, PathElement DEF Last
<1>3. CASE \E j \in ToSet(a) : nodes[j].above # <<>> /\ Last(nodes[j].above) = o
  <2>1. PICK k \in 1..Len(a) : nodes[a[k]].above # <<>> /\ Last(nodes[a[k]].above) = o
    BY <1>1, <1>3 DEF ToSet
  <2> DEFINE b == nodes[a[k]].above
  <2>2. /\ a[k] \in 1..Len(nodes) /\ a[k] < i /\ Len(b) = k - 1
        /\ \A l \in 1..k - 1 : b[l] = a[l]
    BY PathElement
  <2>3. b \in Seq(1..MaxNodes)
    BY <1>1, <2>2, NodeFields
  <2>4. Len(b) \in Nat \ {0}
    BY <2>1, <2>3, EmptySeq
  <2>5. k - 1 \in 1..k - 1 /\ k - 1 \in 1..Len(a)
    BY <2>2, <2>4, <1>1
  <2>6. a[k - 1] = o
    BY <2>1, <2>2, <2>5 DEF Last
  <2>7. QED
    BY <2>5, <2>6, PathElement
<1>4. QED
  BY <1>2, <1>3 DEF Within

LEMMA WithinBelow ==
  ASSUME Tree(nodes), NEW i \in 1..Len(nodes), NEW k \in 1..Len(nodes[i].above), NEW o, NEW n,
         Within(nodes[i].above[k], o, n)
  PROVE  Within(i, o, n)
<1> DEFINE a == nodes[i].above
           m == a[k]
           b == nodes[m].above
           Top(j) == nodes[j].above # <<>> /\ Last(nodes[j].above) = o /\ nodes[j].name = n
<1>1. /\ m \in 1..Len(nodes) /\ Len(b) = k - 1 /\ \A l \in 1..k - 1 : b[l] = a[l]
      /\ DOMAIN a = 1..Len(a) /\ Len(a) \in Nat
  BY PathElement, NodeFields DEF Tree
<1>2. DOMAIN b = 1..Len(b)
  BY <1>1, NodeFields DEF Tree
<1>3. \A l \in DOMAIN b : l \in DOMAIN a /\ b[l] = a[l]
  BY <1>1, <1>2
<1>4. m \in ToSet(a) /\ ToSet(b) \subseteq ToSet(a)
  BY <1>1, <1>3 DEF ToSet
<1>5. Within(m, o, n) <=> Top(m) \/ \E j \in ToSet(b) : Top(j)
  BY DEF Within
<1>6. Within(i, o, n) <=> Top(i) \/ \E j \in ToSet(a) : Top(j)
  BY DEF Within
<1>7. Within(m, o, n)
  OBVIOUS
<1> HIDE DEF a, m, b, Top
<1>8. QED
  BY <1>4, <1>5, <1>6, <1>7

\* The tree without member n of the cursor is one, with the cursor where it was.
LEMMA WithoutTree ==
  ASSUME TreeInv, NEW n \in Name
  PROVE  /\ Tree(Without(jcur, n))
         /\ At(Without(jcur, n), jcur, parent)
         /\ Without(jcur, n)[jcur].freed <=> Dangling
<1> DEFINE t == Without(jcur, n)
<1>1. /\ nodes \in Seq(Node) /\ Tree(nodes) /\ At(nodes, jcur, parent)
      /\ Len(nodes) \in Nat /\ jcur \in 1..Len(nodes)
  BY LenProperties DEF TreeInv, Tree, At
<1>2. /\ t \in Seq(Node) /\ Len(t) = Len(nodes)
      /\ \A i \in 1..Len(nodes) :
            /\ t[i].above = nodes[i].above /\ t[i].name = nodes[i].name /\ t[i].kind = nodes[i].kind
            /\ t[i].freed <=> nodes[i].freed \/ Within(i, jcur, n)
  BY <1>1, WithoutFields
<1>3. \A i \in 1..Len(nodes) : i <= jcur => ~Within(i, jcur, n)
  BY <1>1, WithinLater
<1>4. \A i \in 1..Len(nodes) : \A k \in 1..Len(nodes[i].above) :
         /\ nodes[i].above[k] \in 1..Len(nodes) /\ nodes[i].above[k] < i
         /\ Within(nodes[i].above[k], jcur, n) => Within(i, jcur, n)
  BY <1>1, PathElement, WithinBelow
<1> HIDE DEF t
<1>5. Paths(t)
  <2> SUFFICES ASSUME NEW i \in 1..Len(t), NEW k \in 1..Len(t[i].above)
               PROVE  /\ t[i].above[k] \in 1..i - 1
                      /\ t[t[i].above[k]].above = SubSeq(t[i].above, 1, k - 1)
    BY DEF Paths
  <2> DEFINE a == nodes[i].above
  <2>1. i \in 1..Len(nodes) /\ t[i].above = a /\ k \in 1..Len(a)
    BY <1>2
  <2>2. a[k] \in 1..i - 1 /\ nodes[a[k]].above = SubSeq(a, 1, k - 1)
    BY <1>1, <2>1 DEF Tree, Paths
  <2>3. a[k] \in 1..Len(nodes)
    BY <1>4, <2>1
  <2> HIDE DEF a
  <2>4. t[a[k]].above = nodes[a[k]].above
    BY <1>2, <2>3
  <2>5. QED
    BY <2>1, <2>2, <2>4
<1>6. AliveAbove(t)
  <2> SUFFICES ASSUME NEW i \in 1..Len(t), ~t[i].freed, NEW k \in 1..Len(t[i].above)
               PROVE  ~t[t[i].above[k]].freed
    BY DEF AliveAbove
  <2> DEFINE a == nodes[i].above
  <2>1. i \in 1..Len(nodes) /\ t[i].above = a /\ k \in 1..Len(a)
        /\ ~nodes[i].freed /\ ~Within(i, jcur, n)
    BY <1>2
  <2>2. ~nodes[a[k]].freed
    BY <1>1, <2>1 DEF Tree, AliveAbove
  <2>3. a[k] \in 1..Len(nodes) /\ ~Within(a[k], jcur, n)
    BY <1>4, <2>1
  <2> HIDE DEF a
  <2>4. ~t[a[k]].freed
    BY <1>2, <2>2, <2>3
  <2>5. QED
    BY <2>1, <2>4
<1>7. Named(t)
  BY <1>1, <1>2 DEF Named, Tree
<1>8. Tree(t)
  BY <1>1, <1>2, <1>3, <1>5, <1>6, <1>7 DEF Tree
<1>9. At(t, jcur, parent) /\ (t[jcur].freed <=> nodes[jcur].freed)
  <2>1. \A k \in 1..Len(parent) : parent[k] \in 1..Len(nodes) /\ parent[k] < jcur
    BY <1>1, <1>4 DEF At
  <2>2. t[jcur].freed <=> nodes[jcur].freed
    BY <1>1, <1>2, <1>3
  <2>3. \A k \in 1..Len(parent) : ~t[parent[k]].freed /\ t[parent[k]].kind = nodes[parent[k]].kind
    <3> SUFFICES ASSUME NEW k \in 1..Len(parent)
                 PROVE  ~t[parent[k]].freed /\ t[parent[k]].kind = nodes[parent[k]].kind
      OBVIOUS
    <3>1. parent[k] \in 1..Len(nodes) /\ parent[k] <= jcur /\ ~nodes[parent[k]].freed
      BY <1>1, <2>1 DEF At
    <3>2. ~Within(parent[k], jcur, n)
      BY <3>1, <1>3
    <3>3. QED
      BY <3>1, <3>2, <1>2
  <2>4. Len(parent) \in Nat
    BY <1>1, NodeFields DEF At
  <2>5. QED
    BY <1>1, <1>2, <2>2, <2>3, <2>4 DEF At
<1>10. QED
  BY <1>8, <1>9 DEF t, Dangling

\* The name is free in it.
LEMMA NameFree ==
  ASSUME TreeInv, NEW n \in Name, NEW i \in 1..Len(nodes),
         Without(jcur, n)[i].above = Append(parent, jcur), Without(jcur, n)[i].name = n
  PROVE  Without(jcur, n)[i].freed
<1>1. nodes \in Seq(Node) /\ jcur \in 1..Len(nodes) /\ parent = nodes[jcur].above
  BY DEF TreeInv, Tree, At
<1>2. nodes[i].above = Append(parent, jcur) /\ nodes[i].name = n
  BY <1>1, WithoutFields
<1>3. parent \in Seq(1..MaxNodes) /\ Len(parent) \in Nat
  BY <1>1, NodeFields
<1>4. Append(parent, jcur) # <<>> /\ Last(Append(parent, jcur)) = jcur
  BY <1>3 DEF Last
<1>5. Within(i, jcur, n)
  BY <1>2, <1>4 DEF Within
<1>6. QED
  BY <1>1, <1>5, WithoutFields

-----------------------------------------------------------------------------
(* A new node, the way back, and the options.                              *)

LEMMA StartOfAppend ==
  ASSUME NEW S, NEW p \in Seq(S), NEW x \in S, NEW m \in 0..Len(p)
  PROVE  SubSeq(Append(p, x), 1, m) = SubSeq(p, 1, m)
<1>1. /\ Len(p) \in Nat /\ m \in Int /\ 1 \in Int
      /\ \A i \in 1..m : i \in 1..Len(p) /\ p[i] \in S /\ Append(p, x)[i] = p[i]
  BY LenProperties, ElementOfSeq, AppendProperties
<1>2. /\ SubSeq(p, 1, m) \in Seq(S) /\ Len(SubSeq(p, 1, m)) = IF 1 <= m THEN m - 1 + 1 ELSE 0
      /\ \A i \in 1..m - 1 + 1 : SubSeq(p, 1, m)[i] = p[1 + i - 1]
  BY <1>1, SubSeqProperties
<1> DEFINE q == Append(p, x)
<1>3. \A i \in 1..m : q[i] \in S
  BY <1>1
<1> HIDE DEF q
<1>4. /\ SubSeq(q, 1, m) \in Seq(S) /\ Len(SubSeq(q, 1, m)) = IF 1 <= m THEN m - 1 + 1 ELSE 0
      /\ \A i \in 1..m - 1 + 1 : SubSeq(q, 1, m)[i] = q[1 + i - 1]
  BY <1>1, <1>3, SubSeqProperties
<1>5. \A i \in 1..Len(SubSeq(p, 1, m)) : SubSeq(q, 1, m)[i] = SubSeq(p, 1, m)[i]
  BY <1>1, <1>2, <1>4 DEF q
<1>6. Len(SubSeq(q, 1, m)) = Len(SubSeq(p, 1, m))
  BY <1>2, <1>4
<1>7. SubSeq(q, 1, m) = SubSeq(p, 1, m)
  BY <1>2, <1>4, <1>5, <1>6, SeqEqual
<1>8. QED
  BY <1>7 DEF q

LEMMA Grown ==
  ASSUME NEW t, NEW c, NEW p, NEW node \in Node,
         Tree(t), At(t, c, p), ~t[c].freed, Len(t) < MaxNodes,
         node.above = Append(p, c),
         node.freed => t[c].kind = "array" /\ node.name # NoName,
         ~node.freed => \/ node.name = NoName
                        \/ \A i \in 1..Len(t) :
                              t[i].above = Append(p, c) /\ t[i].name = node.name => t[i].freed
  PROVE  Tree(Append(t, node)) /\ At(Append(t, node), Len(t) + 1, Append(p, c))
<1> DEFINE u == Append(t, node)
           N == Len(t)
           q == Append(p, c)
<1>1. /\ t \in Seq(Node) /\ N \in Nat /\ c \in 1..N /\ p = t[c].above
      /\ p \in Seq(1..MaxNodes) /\ Len(p) \in Nat /\ MaxNodes \in Nat
  BY NodeFields, OptionTreeAssumption DEF Tree, At
<1>2. /\ u \in Seq(Node) /\ Len(u) = N + 1 /\ u[N + 1] = node
      /\ \A i \in 1..N : u[i] = t[i]
  BY <1>1, AppendProperties
<1>3. /\ Len(q) = Len(p) + 1 /\ q[Len(p) + 1] = c
      /\ \A k \in 1..Len(p) : q[k] = p[k]
  BY <1>1, AppendProperties
<1>4. \A i \in 1..N : \A k \in 1..Len(t[i].above) :
         t[i].above[k] \in 1..N /\ t[i].above[k] < i
  BY PathElement
<1>5. \A k \in 1..Len(q) : q[k] \in 1..N /\ ~t[q[k]].freed
                           /\ t[q[k]].above = SubSeq(q, 1, k - 1)
  <2> SUFFICES ASSUME NEW k \in 1..Len(q)
               PROVE  /\ q[k] \in 1..N /\ ~t[q[k]].freed
                      /\ t[q[k]].above = SubSeq(q, 1, k - 1)
    OBVIOUS
  <2>1. CASE k = Len(p) + 1
    <3>1. SubSeq(q, 1, Len(p)) = SubSeq(p, 1, Len(p)) /\ SubSeq(p, 1, Len(p)) = p
      <4>1. c \in 1..MaxNodes /\ Len(p) \in 0..Len(p)
        BY <1>1
      <4>2. QED
        BY <1>1, <4>1, StartOfAppend, SubSeqFull
    <3>2. q[k] = c /\ k - 1 = Len(p)
      BY <1>1, <1>3, <2>1
    <3> HIDE DEF q
    <3>3. QED
      BY <1>1, <3>1, <3>2
  <2>2. CASE k \in 1..Len(p)
    <3>1. q[k] = p[k] /\ p[k] \in 1..N /\ ~t[p[k]].freed
      BY <1>1, <1>3, <1>4, <2>2 DEF At
    <3>2. t[p[k]].above = SubSeq(p, 1, k - 1)
      BY <1>1, <2>2 DEF Tree, Paths
    <3>3. SubSeq(q, 1, k - 1) = SubSeq(p, 1, k - 1)
      <4>1. c \in 1..MaxNodes /\ k - 1 \in 0..Len(p)
        BY <1>1, <2>2
      <4>2. QED
        BY <1>1, <4>1, StartOfAppend
    <3> HIDE DEF q
    <3>4. QED
      BY <3>1, <3>2, <3>3
  <2>3. k = Len(p) + 1 \/ k \in 1..Len(p)
    <3>1. Len(p) \in Nat /\ Len(q) = Len(p) + 1 /\ k \in 1..Len(q)
      BY <1>1, <1>3
    <3> HIDE DEF q
    <3>2. QED
      BY <3>1
  <2>4. QED
    BY <2>1, <2>2, <2>3
<1> HIDE DEF u, N, q
<1>6. Paths(u)
  <2> SUFFICES ASSUME NEW i \in 1..Len(u), NEW k \in 1..Len(u[i].above)
               PROVE  /\ u[i].above[k] \in 1..i - 1
                      /\ u[u[i].above[k]].above = SubSeq(u[i].above, 1, k - 1)
    BY DEF Paths
  <2>1. CASE i = N + 1
    <3>1. u[i].above = q /\ k \in 1..Len(q)
      BY <1>2, <2>1 DEF q
    <3>2. q[k] \in 1..N /\ t[q[k]].above = SubSeq(q, 1, k - 1)
      BY <1>5, <3>1
    <3>3. u[q[k]] = t[q[k]]
      BY <1>2, <3>2
    <3>4. QED
      BY <1>1, <2>1, <3>1, <3>2, <3>3
  <2>2. CASE i \in 1..N
    <3> DEFINE a == t[i].above
    <3>1. u[i].above = a /\ k \in 1..Len(a)
      BY <1>2, <2>2
    <3>2. a[k] \in 1..i - 1 /\ t[a[k]].above = SubSeq(a, 1, k - 1) /\ a[k] \in 1..N
      BY <1>4, <2>2, <3>1 DEF Tree, Paths, N
    <3> HIDE DEF a
    <3>3. u[a[k]] = t[a[k]]
      BY <1>2, <3>2
    <3>4. QED
      BY <3>1, <3>2, <3>3
  <2>3. QED
    BY <1>1, <1>2, <2>1, <2>2
<1>7. AliveAbove(u)
  <2> SUFFICES ASSUME NEW i \in 1..Len(u), ~u[i].freed, NEW k \in 1..Len(u[i].above)
               PROVE  ~u[u[i].above[k]].freed
    BY DEF AliveAbove
  <2>1. CASE i = N + 1
    <3>1. u[i].above = q /\ k \in 1..Len(q)
      BY <1>2, <2>1 DEF q
    <3>2. q[k] \in 1..N /\ ~t[q[k]].freed
      BY <1>5, <3>1
    <3>3. QED
      BY <1>2, <3>1, <3>2
  <2>2. CASE i \in 1..N
    <3> DEFINE a == t[i].above
    <3>1. u[i].above = a /\ k \in 1..Len(a) /\ ~t[i].freed
      BY <1>2, <2>2
    <3>2. a[k] \in 1..N /\ ~t[a[k]].freed
      BY <1>4, <2>2, <3>1 DEF Tree, AliveAbove, N
    <3> HIDE DEF a
    <3>3. QED
      BY <1>2, <3>1, <3>2
  <2>3. QED
    BY <1>1, <1>2, <2>1, <2>2
<1>8. Named(u)
  <2> SUFFICES ASSUME NEW i \in 1..Len(u), NEW j \in 1..Len(u), i # j,
                      ~u[i].freed, ~u[j].freed, u[i].above = u[j].above
               PROVE  u[i].name = NoName \/ u[i].name # u[j].name
    BY DEF Named
  <2>1. CASE i = N + 1
    <3>1. j \in 1..N /\ u[i] = node
      BY <1>1, <1>2, <2>1
    <3>2. ~t[j].freed /\ t[j].above = q /\ u[j].name = t[j].name
      BY <1>2, <3>1 DEF q
    <3>3. QED
      BY <3>1, <3>2 DEF N, q
  <2>2. CASE j = N + 1
    <3>1. i \in 1..N /\ u[j] = node
      BY <1>1, <1>2, <2>2
    <3>2. ~t[i].freed /\ t[i].above = q /\ u[i].name = t[i].name
      BY <1>2, <3>1 DEF q
    <3>3. QED
      BY <3>1, <3>2 DEF N, q
  <2>3. CASE i \in 1..N /\ j \in 1..N
    BY <1>2, <2>3 DEF Tree, Named, N
  <2>4. QED
    BY <1>1, <1>2, <2>1, <2>2, <2>3
<1>9. Tree(u)
  <2>1. Len(u) \in 1..MaxNodes
    BY <1>1, <1>2 DEF N
  <2>2. 1 \in 1..N /\ u[1] = t[1]
    BY <1>1, <1>2
  <2>3. QED
    BY <1>2, <1>6, <1>7, <1>8, <2>1, <2>2 DEF Tree
<1>10. At(u, N + 1, q)
  <2>1. N + 1 \in 1..Len(u) /\ q = u[N + 1].above
    BY <1>1, <1>2 DEF q
  <2>2. \A k \in 1..Len(q) : q[k] \in 1..N /\ u[q[k]] = t[q[k]] /\ ~u[q[k]].freed
    BY <1>2, <1>5
  <2>3. Len(q) > 0 /\ q[Len(q)] = c /\ u[c] = t[c]
    BY <1>1, <1>2, <1>3
  <2>4. QED
    BY <1>2, <2>1, <2>2, <2>3 DEF At
<1>11. QED
  BY <1>9, <1>10 DEF u, N, q

LEMMA PathLeft ==
  ASSUME TreeInv, parent # <<>>
  PROVE  At(nodes, Last(parent), Front(parent))
<1> DEFINE l == parent[Len(parent)]
<1>1. /\ nodes \in Seq(Node) /\ Tree(nodes) /\ jcur \in 1..Len(nodes) /\ parent = nodes[jcur].above
      /\ \A k \in 1..Len(parent) : ~nodes[parent[k]].freed
  BY DEF TreeInv, Tree, At
<1>2. parent \in Seq(1..MaxNodes) /\ Len(parent) \in Nat \ {0}
  BY <1>1, NodeFields, EmptySeq
<1>3. Len(parent) \in 1..Len(parent)
  BY <1>2
<1>4. /\ l \in 1..Len(nodes) /\ nodes[l].above = SubSeq(parent, 1, Len(parent) - 1)
      /\ Len(nodes[l].above) = Len(parent) - 1
      /\ \A k \in 1..Len(parent) - 1 : nodes[l].above[k] = parent[k]
  <2>1. nodes[l].above = SubSeq(parent, 1, Len(parent) - 1)
    BY <1>1, <1>3 DEF Tree, Paths
  <2>2. /\ l \in 1..Len(nodes) /\ Len(nodes[l].above) = Len(parent) - 1
        /\ \A k \in 1..Len(parent) - 1 : nodes[l].above[k] = parent[k]
    BY <1>1, <1>3, PathElement
  <2>3. QED
    BY <2>1, <2>2
<1>5. Last(parent) = l /\ Front(parent) = nodes[l].above
  BY <1>4 DEF Last, Front
<1>6. \A k \in 1..Len(nodes[l].above) : ~nodes[nodes[l].above[k]].freed
  BY <1>1, <1>2, <1>4
<1>7. ~nodes[l].freed
  BY <1>1, <1>3
<1> HIDE DEF l
<1>8. QED
  BY <1>4, <1>5, <1>6, <1>7 DEF At

LEMMA PathTyped == TreeInv => Append(parent, jcur) \in Seq(1..MaxNodes)
<1> SUFFICES ASSUME TreeInv
             PROVE  Append(parent, jcur) \in Seq(1..MaxNodes)
  OBVIOUS
<1>1. nodes \in Seq(Node) /\ jcur \in 1..Len(nodes) /\ parent = nodes[jcur].above
  BY DEF TreeInv, Tree, At
<1>2. parent \in Seq(1..MaxNodes)
  BY <1>1, NodeFields
<1>3. jcur \in 1..MaxNodes
  BY <1>1, OptionTreeAssumption DEF TreeInv, Tree
<1>4. QED
  BY <1>2, <1>3, AppendProperties

LEMMA DescendNamed ==
  ASSUME TreeInv, ~Dangling, NEW n \in Name, NEW k \in {"object", "array"},
         Descend(Without(jcur, n), NewNode(k, n, FALSE)), key' \in Names
  PROVE  TreeInv'
<1> DEFINE t == Without(jcur, n)
           node == NewNode(k, n, FALSE)
<1>1. /\ Tree(t) /\ At(t, jcur, parent) /\ ~t[jcur].freed
  BY WithoutTree
<1>2. nodes \in Seq(Node) /\ Len(t) = Len(nodes) /\ jcur \in 1..Len(nodes) /\ parent = nodes[jcur].above
  BY WithoutFields DEF TreeInv, Tree, At
<1>3. /\ node \in Node /\ node.above = Append(parent, jcur) /\ node.name = n /\ node.freed = FALSE
  BY PathTyped DEF Node, NewNode
<1>4. \A i \in 1..Len(t) : t[i].above = Append(parent, jcur) /\ t[i].name = n => t[i].freed
  BY <1>2, NameFree
<1>5. Len(t) < MaxNodes /\ nodes' = Append(t, node) /\ jcur' = Len(t) + 1 /\ parent' = Append(parent, jcur)
  BY <1>2 DEF Descend
<1> HIDE DEF t, node
<1>6. Tree(Append(t, node)) /\ At(Append(t, node), Len(t) + 1, Append(parent, jcur))
  BY <1>1, <1>3, <1>4, <1>5, Grown
<1>7. QED
  BY <1>5, <1>6 DEF TreeInv, Tree, At, Paths, AliveAbove, Named

LEMMA DescendBare ==
  ASSUME TreeInv, On("array"), NEW node \in Node, node.above = Append(parent, jcur),
         node.freed \/ node.name = NoName, node.freed => node.name # NoName,
         Descend(nodes, node), key' \in Names
  PROVE  TreeInv'
<1>1. Tree(nodes) /\ At(nodes, jcur, parent) /\ ~nodes[jcur].freed /\ nodes[jcur].kind = "array"
  BY DEF TreeInv, On, Dangling
<1>2. /\ Len(nodes) < MaxNodes /\ nodes' = Append(nodes, node) /\ jcur' = Len(nodes) + 1
      /\ parent' = Append(parent, jcur)
  BY DEF Descend
<1>3. Tree(Append(nodes, node)) /\ At(Append(nodes, node), Len(nodes) + 1, Append(parent, jcur))
  BY <1>1, <1>2, Grown
<1>4. QED
  BY <1>2, <1>3 DEF TreeInv, Tree, At, Paths, AliveAbove, Named

LEMMA LeafSet ==
  ASSUME TreeInv, NEW n \in Name, SetLeaf(n), key' \in Names
  PROVE  TreeInv'
<1> DEFINE t == Without(jcur, n)
<1>1. Tree(t) /\ At(t, jcur, parent)
  BY WithoutTree
<1>2. nodes' = t /\ jcur' = jcur /\ parent' = parent
  BY DEF SetLeaf
<1> HIDE DEF t
<1>3. QED
  BY <1>1, <1>2 DEF TreeInv, Tree, At, Paths, AliveAbove, Named

LEMMA OptionKept == TreeInv /\ Option => TreeInv'
<1> SUFFICES ASSUME TreeInv, Option
             PROVE  TreeInv'
  OBVIOUS
<1>1. key \in Names /\ {"id", "object", "method", "data"} \subseteq Name /\ Name \subseteq Names
  BY OptionTreeAssumption DEF TreeInv, Names
<1>2. CASE OptMember
  <2>1. PICK n \in {"id", "object", "method"} : SetLeaf(n)
    BY <1>2 DEF OptMember
  <2>2. n \in Name /\ key' \in Names
    BY <1>1, <1>2 DEF OptMember
  <2>3. QED
    BY <2>1, <2>2, LeafSet
<1>3. CASE OptData
  <2>1. /\ ~Dangling /\ Descend(Without(jcur, "data"), NewNode("array", "data", FALSE))
        /\ "data" \in Name /\ key' \in Names
    BY <1>1, <1>3 DEF OptData, On
  <2>2. QED
    BY <2>1, DescendNamed
<1>4. CASE OptArray
  <2>1. PICK n \in Name : Descend(Without(jcur, n), NewNode("array", n, FALSE))
    BY <1>4 DEF OptArray
  <2>2. ~Dangling /\ key' \in Names
    BY <1>4 DEF OptArray, On, Names
  <2>3. QED
    BY <2>1, <2>2, DescendNamed
<1>5. CASE OptKey
  BY <1>1, <1>5 DEF OptKey, TreeInv, Tree, At, Paths, AliveAbove, Named
<1>6. CASE OptValue
  <2>1. key \in Name /\ key' \in Names
    BY <1>1, <1>6 DEF OptValue, Names
  <2>2. CASE SetLeaf(key)
    BY <2>1, <2>2, LeafSet
  <2>3. CASE UNCHANGED <<nodes, jcur, parent>>
    BY <2>1, <2>3 DEF TreeInv, Tree, At, Paths, AliveAbove, Named
  <2>4. QED
    BY <1>6, <2>2, <2>3 DEF OptValue
<1>7. CASE OptObject
  <2>1. PICK n \in Name :
           IF On("object")
             THEN Descend(Without(jcur, n), NewNode("object", n, FALSE))
             ELSE Descend(nodes, NewNode("object", n, TRUE))
    BY <1>7 DEF OptObject
  <2>2. ~Dangling /\ key' \in Names
    BY <1>1, <1>7 DEF OptObject
  <2>3. CASE On("object")
    BY <2>1, <2>2, <2>3, DescendNamed
  <2>4. CASE ~On("object")
    <3>1. On("array")
      BY <2>2, <2>4, NodeFields DEF On, TreeInv, Tree, At
    <3>2. /\ NewNode("object", n, TRUE) \in Node /\ n # NoName
          /\ NewNode("object", n, TRUE).above = Append(parent, jcur)
          /\ NewNode("object", n, TRUE).freed = TRUE /\ NewNode("object", n, TRUE).name = n
      BY PathTyped, OptionTreeAssumption DEF NewNode, Node
    <3>3. QED
      BY <2>1, <2>2, <2>4, <3>1, <3>2, DescendBare
  <2>5. QED
    BY <2>3, <2>4
<1>8. CASE OptElement
  <2>1. /\ NewNode("object", NoName, FALSE) \in Node
        /\ NewNode("object", NoName, FALSE).above = Append(parent, jcur)
        /\ NewNode("object", NoName, FALSE).freed = FALSE
        /\ NewNode("object", NoName, FALSE).name = NoName
    BY PathTyped DEF NewNode, Node
  <2>2. QED
    BY <1>1, <1>8, <2>1, DescendBare DEF OptElement
<1>9. CASE OptUp
  <2>1. At(nodes, Last(parent), Front(parent))
    BY <1>9, PathLeft DEF OptUp
  <2>2. QED
    BY <1>9, <2>1 DEF OptUp, TreeInv, Tree, At, Paths, AliveAbove, Named
<1>10. QED
  BY <1>2, <1>3, <1>4, <1>5, <1>6, <1>7, <1>8, <1>9 DEF Option

LEMMA TreeInvInit == TreeInit => TreeInv
<1> SUFFICES ASSUME TreeInit
             PROVE  TreeInv
  OBVIOUS
<1> DEFINE root == [kind |-> "object", above |-> <<>>, name |-> NoName, freed |-> FALSE]
<1>1. root \in Node /\ Len(<<>>) = 0
  BY DEF Node
<1>2. nodes = <<root>> /\ jcur = 1 /\ parent = <<>> /\ key = NoName
  BY DEF TreeInit
<1>3. /\ nodes \in Seq(Node) /\ Len(nodes) = 1 /\ nodes[1] = root
      /\ root.above = <<>> /\ root.freed = FALSE
  BY <1>1, <1>2
<1> HIDE DEF root
<1>4. Tree(nodes)
  BY <1>1, <1>3, OptionTreeAssumption DEF Tree, Paths, AliveAbove, Named
<1>5. At(nodes, jcur, parent)
  BY <1>1, <1>2, <1>3 DEF At
<1>6. QED
  BY <1>2, <1>4, <1>5 DEF TreeInv, Names

\* What OptionTree says of the cursor and the request.
LEMMA TreeInvSays == TreeInv => TreeTypeOK /\ CursorOnPath /\ RequestIsTree
<1> SUFFICES ASSUME TreeInv
             PROVE  TreeTypeOK /\ CursorOnPath /\ RequestIsTree
  OBVIOUS
<1>1. /\ nodes \in Seq(Node) /\ Tree(nodes) /\ At(nodes, jcur, parent) /\ jcur \in 1..Len(nodes)
      /\ parent = nodes[jcur].above /\ Len(nodes) \in Nat /\ DOMAIN nodes = 1..Len(nodes)
  BY LenProperties DEF TreeInv, Tree, At
<1>2. DOMAIN parent = 1..Len(parent) /\ Len(parent) \in Nat /\ parent \in Seq(1..MaxNodes)
  BY <1>1, NodeFields
<1>3. \A k \in 1..Len(parent) : parent[k] \in 1..Len(nodes)
  BY <1>1, PathElement
<1>4. parent \in Seq(1..Len(nodes))
  <2>1. parent = [k \in 1..Len(parent) |-> parent[k]]
    BY <1>2, LenProperties
  <2>2. QED
    BY <1>2, <1>3, <2>1
<1>5. TreeTypeOK
  BY <1>1, <1>4 DEF TreeTypeOK, TreeInv, Names
<1>6. \A k \in 1..Len(parent) : nodes[parent[k]].above = SubSeq(parent, 1, k - 1)
  BY <1>1 DEF Tree, Paths
<1>7. CursorOnPath
  BY <1>1, <1>2, <1>6 DEF CursorOnPath, At, Dangling, Last
<1>8. \A i \in 1..Len(nodes) : ~nodes[i].freed => \A j \in ToSet(nodes[i].above) : ~nodes[j].freed
  <2> SUFFICES ASSUME NEW i \in 1..Len(nodes), ~nodes[i].freed, NEW j \in ToSet(nodes[i].above)
               PROVE  ~nodes[j].freed
    OBVIOUS
  <2>1. DOMAIN nodes[i].above = 1..Len(nodes[i].above)
    BY <1>1, NodeFields
  <2>2. PICK k \in 1..Len(nodes[i].above) : j = nodes[i].above[k]
    BY <2>1 DEF ToSet
  <2>3. QED
    BY <1>1, <2>2 DEF Tree, AliveAbove
<1>9. RequestIsTree
  BY <1>1, <1>8 DEF RequestIsTree, Tree, Named
<1>10. QED
  BY <1>5, <1>7, <1>9

\* A tree that is cut down to its root.
LEMMA RootOnly ==
  ASSUME TreeInv
  PROVE  Tree(SubSeq(nodes, 1, 1)) /\ At(SubSeq(nodes, 1, 1), 1, <<>>)
<1> DEFINE t == SubSeq(nodes, 1, 1)
<1>1. nodes \in Seq(Node) /\ Len(nodes) \in Nat \ {0} /\ nodes[1] \in Node
      /\ nodes[1].above = <<>> /\ ~nodes[1].freed
  BY NodeFields, OptionTreeAssumption DEF TreeInv, Tree
<1>2. 1 \in Int /\ \A i \in 1..1 : nodes[i] \in Node
  BY <1>1
<1>3. t \in Seq(Node) /\ Len(t) = (IF 1 <= 1 THEN 1 - 1 + 1 ELSE 0)
      /\ \A i \in 1..1 - 1 + 1 : t[i] = nodes[1 + i - 1]
  BY <1>2, SubSeqProperties
<1>4. Len(t) = 1 /\ t[1] = nodes[1] /\ Len(<<>>) = 0
  BY <1>3
<1> HIDE DEF t
<1>5. Tree(t) /\ At(t, 1, <<>>)
  BY <1>1, <1>3, <1>4, OptionTreeAssumption DEF Tree, At, Paths, AliveAbove, Named
<1>6. QED
  BY <1>5 DEF t
=============================================================================
