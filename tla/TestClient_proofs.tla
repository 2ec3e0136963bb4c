-------------------------- MODULE TestClient_proofs --------------------------
(***************************************************************************)
(* Theorems about TestClient, for any table, rows, requests of others and  *)
(* losses of the connection.                                               *)
(***************************************************************************)
EXTENDS TestClient, SequenceTheorems, FiniteSetTheorems, NaturalsInduction,
        WellFoundedInduction, TLAPS

\* A job has the fields of a job.
JobRecord ==
    job = [from |-> job.from, id |-> job.id, req |-> job.req, scripts |-> job.scripts]

NoneOpen == requests = <<>> /\ responses = <<>> /\ job.from # "client"

\* Where the client's request is: on its way, in process(), or answered.
Asked    == /\ \E r : requests = <<r>> /\ r.id = step_ - 1
            /\ responses = <<>> /\ job.from # "client"
InJob    == requests = <<>> /\ responses = <<>> /\ job.from = "client" /\ job.id = step_ - 1
Answered == /\ \E r : responses = <<r>> /\ r.id = step_ - 1
            /\ requests = <<>> /\ job.from # "client"

\* The client has a request in hand, and waits for its response, or it has none, and
\* waits only in vain.
OneRequest ==
    /\ step_ \in 0..13
    /\ vain \in BOOLEAN
    /\ JobRecord
    /\ \/ (Asked \/ InJob \/ Answered) /\ Waiting /\ ~vain /\ ~(step_ = 3 /\ place_ids_ = {})
       \/ NoneOpen /\ (Waiting <=> vain \/ (step_ = 3 /\ place_ids_ = {}))

\* Odd and even steps.
LEMMA Parity ==
  ASSUME NEW s \in 0..13
  PROVE  (s % 2 = 1) <=> s \in {1, 3, 5, 7, 9, 11, 13}
  OBVIOUS

LEMMA OpenSteps ==
  ASSUME OneRequest
  PROVE  /\ NoneOpen => Open = <<>>
         /\ Asked \/ InJob \/ Answered => Open = <<step_ - 1>>
<1> DEFINE a == [i \in DOMAIN responses |-> responses[i].id]
           b == IF JobOpen THEN <<job.id>> ELSE <<>>
           c == [i \in DOMAIN requests |-> requests[i].id]
<1>1. Open = a \o b \o c
  BY DEF Open
<1>2. b = IF job.from = "client" THEN <<job.id>> ELSE <<>>
  BY DEF JobOpen, NoJob
<1>3. (responses = <<>> => a = <<>>) /\ (requests = <<>> => c = <<>>)
  OBVIOUS
<1>4. \A x : /\ <<>> \o <<>> \o <<>> = <<>> /\ <<x>> \o <<>> \o <<>> = <<x>>
             /\ <<>> \o <<x>> \o <<>> = <<x>> /\ <<>> \o <<>> \o <<x>> = <<x>>
  OBVIOUS
<1>5. CASE NoneOpen
  <2>1. ~(Asked \/ InJob \/ Answered)
    BY <1>5 DEF NoneOpen, Asked, InJob, Answered
  <2>2. QED
    BY <1>1, <1>2, <1>3, <1>4, <1>5, <2>1 DEF NoneOpen
<1>6. CASE Asked
  <2>1. c = <<step_ - 1>> /\ a = <<>> /\ b = <<>>
    BY <1>2, <1>3, <1>6 DEF Asked
  <2>2. QED
    BY <1>1, <1>4, <1>6, <2>1 DEF Asked, NoneOpen
<1>7. CASE InJob
  BY <1>1, <1>2, <1>3, <1>4, <1>7 DEF InJob, NoneOpen
<1>8. CASE Answered
  <2>1. a = <<step_ - 1>> /\ c = <<>> /\ b = <<>>
    BY <1>2, <1>3, <1>8 DEF Answered
  <2>2. QED
    BY <1>1, <1>4, <1>8, <2>1 DEF Answered, NoneOpen
<1>9. QED
  BY <1>5, <1>6, <1>7, <1>8

\* What the client and the test say of it.
LEMMA OneRequestSays == OneRequest => AnswerFits /\ WaitsInVain
<1> SUFFICES ASSUME OneRequest
             PROVE  AnswerFits /\ WaitsInVain
  OBVIOUS
<1>1. <<step_ - 1>> # <<>>
  OBVIOUS
<1>2. QED
  BY <1>1, OpenSteps DEF OneRequest, AnswerFits, WaitsInVain, Stuck

\* Steps that leave the round where it is.
LEMMA RoundKept ==
  ASSUME OneRequest, UNCHANGED <<step_, vain, place_ids_, requests, responses>>,
         JobRecord', job'.from = job.from, job'.id = job.id
  PROVE  OneRequest'
  BY DEF OneRequest, Asked, InJob, Answered, NoneOpen, Waiting

LEMMA SendStep ==
  ASSUME OneRequest, OnSendSkip \/ OnSendRequest
  PROVE  OneRequest'
<1>1. UNCHANGED <<job, vain, place_ids_, responses>>
  BY DEF OnSendSkip, OnSendRequest, tableVars
<1>2. step_ \in 0..13 /\ ~Waiting /\ step_' = step_ + 1 /\ NoneOpen /\ vain \in BOOLEAN
  <2>1. step_ = 2 => ~Waiting
    BY DEF Waiting
  <2>2. QED
    BY <2>1 DEF OnSendSkip, OnSendRequest, Skips, OneRequest
<1>3. step_' \in 0..13 /\ Waiting'
  BY <1>2, Parity DEF Waiting
<1>4. ~vain /\ ~(step_ = 3 /\ place_ids_ = {})
  BY <1>2 DEF OneRequest
<1>5. CASE OnSendSkip
  BY <1>1, <1>2, <1>3, <1>5 DEF OnSendSkip, Skips, OneRequest, NoneOpen, JobRecord
<1>6. CASE OnSendRequest
  <2>1. ~(step_' = 3 /\ place_ids_' = {})
    BY <1>1, <1>2, <1>6 DEF OnSendRequest, Skips
  <2>2. PICK r : requests' = <<r>> /\ r.id = step_
    BY <1>2, <1>6 DEF OnSendRequest, NoneOpen
  <2>3. Asked'
    BY <1>1, <1>2, <2>2 DEF NoneOpen, Asked
  <2>4. QED
    BY <1>1, <1>3, <1>4, <2>1, <2>3 DEF OneRequest, JobRecord
<1>7. QED
  BY <1>5, <1>6

LEMMA ReceiveStep ==
  ASSUME OneRequest, OnRecv
  PROVE  OneRequest'
<1>1. UNCHANGED <<job, vain, requests>> /\ responses # <<>> /\ responses' = Tail(responses)
      /\ step_' = NextStep(step_)
  BY DEF OnRecv, tableVars
<1>2. Answered /\ Waiting /\ ~vain /\ step_ \in 0..13
  BY <1>1 DEF OneRequest, NoneOpen, Asked, InJob
<1>3. step_' \in 0..13 /\ ~Waiting'
  BY <1>1, <1>2, Parity DEF NextStep, Waiting
<1>4. NoneOpen'
  BY <1>1, <1>2 DEF Answered, NoneOpen
<1>5. step_' # 3
  BY <1>3, Parity DEF Waiting
<1>6. QED
  BY <1>1, <1>2, <1>3, <1>4, <1>5 DEF OneRequest, JobRecord

LEMMA AcceptStep ==
  ASSUME OneRequest, Accept
  PROVE  OneRequest'
<1>1. /\ UNCHANGED <<step_, vain, place_ids_, responses>> /\ requests # <<>>
      /\ requests' = Tail(requests)
      /\ job' = [from |-> "client", id |-> Head(requests).id, req |-> Head(requests).req,
                 scripts |-> Scripts(Head(requests).req)]
  BY DEF Accept, Begin, clientVars
<1>2. Asked
  BY <1>1 DEF OneRequest, NoneOpen, InJob, Answered
<1>3. InJob' /\ JobRecord'
  BY <1>1, <1>2 DEF Asked, InJob, JobRecord
<1>4. QED
  BY <1>1, <1>2, <1>3 DEF OneRequest, Waiting, Asked, NoneOpen

LEMMA RespondStep ==
  ASSUME OneRequest, Respond
  PROVE  OneRequest'
<1> PICK r \in Replies :
       /\ responses' = IF job.from = "client" /\ Fits(r) THEN Append(responses, r) ELSE responses
       /\ vain' = (vain \/ (job.from = "client" /\ ~Fits(r)))
  BY DEF Respond
<1>1. UNCHANGED <<step_, place_ids_, requests>> /\ job' = NoJob /\ r.id = job.id
  BY DEF Respond, clientVars, Replies, Reply
<1>2. JobRecord' /\ job'.from # "client"
  BY <1>1 DEF NoJob, JobRecord
<1>3. CASE job.from # "client"
  <2>1. UNCHANGED <<vain, responses>>
    BY <1>3 DEF OneRequest
  <2>2. QED
    BY <1>1, <1>2, <1>3, <2>1 DEF OneRequest, Asked, InJob, Answered, NoneOpen, Waiting
<1>4. CASE job.from = "client"
  <2>1. InJob /\ Waiting /\ ~vain /\ ~(step_ = 3 /\ place_ids_ = {})
    BY <1>4 DEF OneRequest, Asked, Answered, NoneOpen
  <2>2. CASE Fits(r)
    <3>1. responses' = <<r>>
      <4>1. responses = <<>> /\ Append(<<>>, r) = <<r>>
        BY <2>1 DEF InJob
      <4>2. QED
        BY <1>4, <2>2, <4>1
    <3>2. ~vain'
      BY <2>1, <2>2
    <3>3. Answered'
      BY <1>1, <1>2, <2>1, <3>1 DEF InJob, Answered
    <3>4. QED
      BY <1>1, <1>2, <2>1, <3>2, <3>3 DEF OneRequest, Waiting
  <2>3. CASE ~Fits(r)
    <3>1. responses' = <<>> /\ vain' = TRUE
      BY <1>4, <2>1, <2>3 DEF InJob
    <3>2. NoneOpen'
      BY <1>1, <1>2, <2>1, <3>1 DEF InJob, NoneOpen
    <3>3. QED
      BY <1>1, <1>2, <2>1, <3>1, <3>2 DEF OneRequest, Waiting
  <2>4. QED
    BY <2>2, <2>3
<1>5. QED
  BY <1>3, <1>4

LEMMA LossStep ==
  ASSUME OneRequest, Lose \/ Crash
  PROVE  OneRequest'
<1>1. /\ UNCHANGED <<step_, place_ids_>> /\ requests' = <<>> /\ responses' = <<>>
      /\ vain' = (vain \/ Open # <<>>)
  BY DEF Lose, Crash, Down
<1>2. JobRecord' /\ job'.from # "client"
  <2>1. CASE Lose
    BY <2>1 DEF Lose, JobOpen, NoJob, OneRequest, JobRecord
  <2>2. CASE Crash
    BY <2>2 DEF Crash, NoJob, JobRecord
  <2>3. QED
    BY <2>1, <2>2
<1>3. NoneOpen'
  BY <1>1, <1>2 DEF NoneOpen
<1>4. <<step_ - 1>> # <<>>
  OBVIOUS
<1>5. CASE NoneOpen
  BY <1>1, <1>2, <1>3, <1>5, OpenSteps DEF OneRequest, Waiting, Asked, InJob, Answered
<1>6. CASE Asked \/ InJob \/ Answered
  BY <1>1, <1>2, <1>3, <1>4, <1>6, OpenSteps DEF OneRequest, Waiting, NoneOpen
<1>7. QED
  BY <1>5, <1>6 DEF OneRequest

LEMMA OneRequestNext ==
  ASSUME OneRequest, [Next]_vars
  PROVE  OneRequest'
<1>1. CASE OnSendSkip \/ OnSendRequest
  BY <1>1, SendStep
<1>2. CASE OnRecv
  BY <1>2, ReceiveStep
<1>3. CASE Accept
  BY <1>3, AcceptStep
<1>4. CASE Respond
  BY <1>4, RespondStep
<1>5. CASE Lose \/ Crash
  BY <1>5, LossStep
<1>6. CASE Execute \/ Fail
  <2>1. UNCHANGED <<step_, vain, place_ids_, requests, responses>>
    BY <1>6 DEF Execute, Fail, clientVars
  <2>2. PICK q : job' = [job EXCEPT !.scripts = q]
    BY <1>6 DEF Execute, Exec, Fail, ExecFail
  <2>3. JobRecord' /\ job'.from = job.from /\ job'.id = job.id
    BY <2>2 DEF OneRequest, JobRecord
  <2>4. QED
    BY <2>1, <2>3, RoundKept
<1>7. CASE Other
  <2>1. /\ UNCHANGED <<step_, vain, place_ids_, requests, responses>>
        /\ job = NoJob /\ job'.from = "other" /\ JobRecord'
    BY <1>7 DEF Other, Begin, clientVars, JobRecord
  <2>2. job.from # "client"
    BY <2>1 DEF NoJob
  <2>3. QED
    BY <2>1, <2>2 DEF OneRequest, Asked, InJob, Answered, NoneOpen, Waiting
<1>8. CASE Session \/ OnSendIdle \/ OnSendWait \/ OnSendEnd \/ Connect \/ UNCHANGED vars
  <2>1. UNCHANGED <<job, step_, vain, place_ids_, requests, responses>>
    BY <1>8 DEF Session, SessionBegin, OnSession, SessionRequest, OnSendIdle, OnSendWait, OnSendEnd,
                Connect, vars, tableVars, clientVars
  <2>2. QED
    BY <2>1, RoundKept DEF OneRequest, JobRecord
<1>9. QED
  BY <1>1, <1>2, <1>3, <1>4, <1>5, <1>6, <1>7, <1>8 DEF Next, Send, Process

LEMMA OneRequestAlways == Spec => []OneRequest
<1>1. Init => OneRequest
  <2> SUFFICES ASSUME Init
               PROVE  OneRequest
    OBVIOUS
  <2>1. step_ \in 0..13 /\ step_ # 3 /\ ~Waiting
    BY Parity DEF Init, Waiting
  <2>2. NoneOpen /\ JobRecord
    BY DEF Init, NoneOpen, JobRecord, NoJob
  <2>3. vain = FALSE
    BY DEF Init
  <2>4. QED
    BY <2>1, <2>2, <2>3 DEF OneRequest
<1>2. OneRequest /\ [Next]_vars => OneRequest'
  BY OneRequestNext
<1>3. QED
  BY <1>1, <1>2, PTL DEF Spec

\* The client never takes a response for that to another request, though it looks
\* at no id (test-client.h:95-128).
THEOREM ResponsesFit == Spec => []AnswerFits
  BY OneRequestAlways, OneRequestSays, PTL

\* It waits in vain in the three cases that WaitsInVain names, and in no other.
THEOREM VainWaits == Spec => []WaitsInVain
  BY OneRequestAlways, OneRequestSays, PTL

-----------------------------------------------------------------------------
(* Sequences and sets.                                                     *)

LEMMA LeastNatural ==
  ASSUME NEW T, T \subseteq Nat, T # {}
  PROVE  \E x \in T : \A y \in T : x <= y
<1> DEFINE R == OpToRel(<, Nat)
<1>1. IsWellFoundedOn(R, Nat)
  BY NatLessThanWellFounded
<1> HIDE DEF R
<1>2. PICK x \in T : \A y \in T : <<y, x>> \notin R
  BY <1>1, WFMin
<1>3. \A y \in T : ~(y < x)
  BY <1>2 DEF R, OpToRel
<1>4. QED
  BY <1>3

\* A set of integers in increasing order.
Sorts(q, s) ==
    /\ q \in [1..Cardinality(s) -> s]
    /\ s = {q[i] : i \in 1..Cardinality(s)}
    /\ \A i, j \in 1..Cardinality(s) : i < j => q[i] < q[j]

\* A non-empty set has a least element, if what is left without one of its
\* elements is in order.
LEMMA SortedLeast ==
  ASSUME NEW s, s \subseteq Int, IsFiniteSet(s), NEW x \in s, NEW q, Sorts(q, s \ {x})
  PROVE  \E m \in s : \A y \in s : m <= y
<1> DEFINE n == Cardinality(s \ {x})
<1>1. n \in Nat
  BY FS_RemoveElement, FS_CardinalityType
<1>2. /\ q \in [1..n -> s \ {x}] /\ s \ {x} = {q[i] : i \in 1..n}
      /\ \A i, j \in 1..n : i < j => q[i] < q[j]
  BY DEF Sorts
<1> HIDE DEF n
<1>3. (\A y \in s : y \in Int) /\ \A i \in 1..n : q[i] \in Int
  BY <1>2
<1>4. \A y \in s : y = x \/ \E i \in 1..n : y = q[i]
  BY <1>2
<1>5. CASE n = 0
  BY <1>1, <1>4, <1>5
<1>6. CASE n # 0
  <2>1. q[1] \in s /\ \A i \in 1..n : q[1] <= q[i]
    <3>1. 1 \in 1..n /\ \A i \in 1..n : q[i] \in s
      BY <1>1, <1>2, <1>6
    <3>2. \A i \in 1..n : i = 1 \/ q[1] < q[i]
      BY <1>1, <1>2, <3>1
    <3>3. QED
      BY <1>3, <3>1, <3>2
  <2>2. 1 \in 1..n /\ x \in Int
    BY <1>1, <1>6
  <2>3. CASE x <= q[1]
    <3>1. \A i \in 1..n : x <= q[i]
      BY <1>3, <2>1, <2>3, <2>2
    <3>2. \A y \in s : x <= y
      BY <1>4, <2>2, <3>1
    <3>3. QED
      BY <3>2
  <2>4. CASE ~(x <= q[1])
    <3>1. q[1] <= x
      BY <1>3, <2>4, <2>2
    <3>2. \A y \in s : q[1] <= y
      BY <1>4, <2>1, <3>1
    <3>3. QED
      BY <2>1, <3>2
  <2>5. QED
    BY <2>3, <2>4
<1>7. QED
  BY <1>5, <1>6

\* The least element is put before the others.
LEMMA SortedBefore ==
  ASSUME NEW s, s \subseteq Int, IsFiniteSet(s), NEW m \in s, \A y \in s : m <= y,
         NEW q, Sorts(q, s \ {m})
  PROVE  \E r : Sorts(r, s)
<1> DEFINE n == Cardinality(s)
           r == [i \in 1..n |-> IF i = 1 THEN m ELSE q[i - 1]]
<1>1. n \in Nat /\ n # 0 /\ Cardinality(s \ {m}) = n - 1
  BY FS_RemoveElement, FS_CardinalityType, FS_EmptySet
<1>2. q \in [1..n - 1 -> s \ {m}] /\ s \ {m} = {q[i] : i \in 1..n - 1}
      /\ \A i, j \in 1..n - 1 : i < j => q[i] < q[j]
  BY <1>1 DEF Sorts
<1>3. \A i \in 1..n : i # 1 => i - 1 \in 1..n - 1
  BY <1>1
<1>4. \A i \in 1..n : i # 1 => q[i - 1] \in s /\ m < q[i - 1]
  <2>1. \A i \in 1..n - 1 : q[i] \in s /\ q[i] # m
    BY <1>2
  <2>2. \A y \in s : y \in Int /\ m <= y
    OBVIOUS
  <2>3. \A y \in s : y # m => m < y
    BY <2>2
  <2>4. QED
    BY <1>3, <2>1, <2>3, Zenon
<1>5. r \in [1..n -> s]
  BY <1>4
<1>6. \A y \in s : \E i \in 1..n : y = r[i]
  <2> SUFFICES ASSUME NEW y \in s, y # m
               PROVE  \E i \in 1..n : y = r[i]
    BY <1>1
  <2>1. PICK i \in 1..n - 1 : y = q[i]
    BY <1>2
  <2>2. i + 1 \in 1..n /\ i + 1 # 1 /\ (i + 1) - 1 = i
    BY <1>1
  <2>3. QED
    BY <2>1, <2>2
<1>7. \A i, j \in 1..n : i < j => r[i] < r[j]
  <2> SUFFICES ASSUME NEW i \in 1..n, NEW j \in 1..n, i < j
               PROVE  r[i] < r[j]
    OBVIOUS
  <2>1. j # 1 /\ r[j] = q[j - 1]
    BY <1>1
  <2>2. CASE i = 1
    BY <1>4, <2>1, <2>2
  <2>3. CASE i # 1
    <3>1. r[i] = q[i - 1] /\ i - 1 \in 1..n - 1 /\ j - 1 \in 1..n - 1 /\ i - 1 < j - 1
      BY <1>1, <1>3, <2>1, <2>3
    <3>2. QED
      BY <1>2, <2>1, <3>1
  <2>4. QED
    BY <2>2, <2>3
<1> HIDE DEF n, r
<1>8. s = {r[i] : i \in 1..n}
  BY <1>5, <1>6
<1>9. QED
  BY <1>5, <1>7, <1>8 DEF Sorts, n

\* A finite set of integers can be put in order: of those that cannot, one has the
\* fewest elements.
LEMMA Sorted ==
  ASSUME NEW s, s \subseteq Int, IsFiniteSet(s)
  PROVE  \E q : Sorts(q, s)
<1> DEFINE Bad(t) == IsFiniteSet(t) /\ ~\E q : Sorts(q, t)
           B == {Cardinality(t) : t \in {t \in SUBSET Int : Bad(t)}}
<1> SUFFICES ASSUME Bad(s)
             PROVE  FALSE
  OBVIOUS
<1>1. B \subseteq Nat /\ B # {}
  <2>1. s \in {t \in SUBSET Int : Bad(t)}
    OBVIOUS
  <2>2. QED
    BY <2>1, FS_CardinalityType
<1>2. PICK n \in B : \A k \in B : n <= k
  BY <1>1, LeastNatural
<1>3. PICK t \in SUBSET Int : Bad(t) /\ Cardinality(t) = n
  OBVIOUS
<1>4. t # {}
  <2>1. SUFFICES Sorts([i \in {} |-> 0], {})
    BY <1>3
  <2>2. Cardinality({}) = 0 /\ 1..0 = {}
    BY FS_EmptySet
  <2>3. QED
    BY <2>2 DEF Sorts
<1>5. \A x \in t : \E q : Sorts(q, t \ {x})
  <2> SUFFICES ASSUME NEW x \in t
               PROVE  \E q : Sorts(q, t \ {x})
    OBVIOUS
  <2>1. IsFiniteSet(t \ {x}) /\ Cardinality(t \ {x}) = n - 1 /\ n \in Nat
    BY <1>1, <1>3, FS_RemoveElement
  <2>2. n - 1 \notin B
    BY <1>1, <1>2, <2>1
  <2>3. t \ {x} \in SUBSET Int
    OBVIOUS
  <2>4. ~Bad(t \ {x})
    BY <2>1, <2>2, <2>3
  <2>5. QED
    BY <2>1, <2>4
<1>6. PICK m \in t : \A y \in t : m <= y
  <2>1. PICK x \in t : TRUE
    BY <1>4
  <2>2. PICK q : Sorts(q, t \ {x})
    BY <1>5
  <2>3. QED
    BY <1>3, <2>2, SortedLeast
<1>7. \E r : Sorts(r, t)
  <2>1. PICK q : Sorts(q, t \ {m})
    BY <1>5
  <2>2. QED
    BY <1>3, <1>6, <2>1, SortedBefore
<1>8. QED
  BY <1>3, <1>7

\* What a read tells of the rows in their order.
LEMMA InOrderSorts ==
  ASSUME NEW ids, ids \subseteq Id
  PROVE  /\ Cardinality(ids) \in Nat
         /\ InOrder(ids) \in [1..Cardinality(ids) -> ids]
         /\ ids = {InOrder(ids)[i] : i \in 1..Cardinality(ids)}
         /\ \A i, j \in 1..Cardinality(ids) : i < j => InOrder(ids)[i] < InOrder(ids)[j]
<1> DEFINE Ok(q) == /\ ids = {q[i] : i \in DOMAIN q}
                    /\ \A i, j \in DOMAIN q : i < j => q[i] < q[j]
<1>1. IsFiniteSet(ids) /\ ids \subseteq Int
  BY SqliteTableAssumption, FS_Subset
<1>2. Cardinality(ids) \in Nat
  BY <1>1, FS_CardinalityType
<1>3. PICK q : Sorts(q, ids)
  BY <1>1, Sorted
<1>4. q \in [1..Cardinality(ids) -> ids] /\ Ok(q)
  BY <1>3 DEF Sorts
<1>5. InOrder(ids) = CHOOSE p \in [1..Cardinality(ids) -> ids] : Ok(p)
  BY DEF InOrder
<1> HIDE DEF Ok
<1>6. InOrder(ids) \in [1..Cardinality(ids) -> ids] /\ Ok(InOrder(ids))
  BY <1>4, <1>5
<1>7. QED
  BY <1>2, <1>6 DEF Ok

-----------------------------------------------------------------------------
(* The statements of requests.                                             *)

LEMMA SeqOf ==
  ASSUME NEW S, NEW n \in Nat, NEW f \in [1..n -> S]
  PROVE  f \in Seq(S) /\ Len(f) = n /\ DOMAIN f = 1..n /\ (n # 0 => f # <<>>)
  OBVIOUS

\* One statement for each object, each legal.
LEMMA OneScriptTyped ==
  ASSUME NEW r \in Request, NEW op \in {"insert", "delete"},
         r.method = IF op = "insert" THEN "create" ELSE "delete"
  PROVE  OneScript(op, r.data) \in Seq(Seq(Statement) \ {<<>>})
<1> DEFINE d == r.data
           f == [i \in DOMAIN d |-> Stmt(op, d[i])]
<1>1. d \in Seq(Object) /\ Len(d) \in Nat /\ DOMAIN d = 1..Len(d)
  BY DEF Request
<1>2. \A k \in DOMAIN d :
         /\ d[k] \in Object /\ d[k].id # NoId
         /\ r.method = "create" => d[k].columns # NoColumns
  BY <1>1 DEF Request
<1>3. \A k \in DOMAIN d : Stmt(op, d[k]) \in Statement
  BY <1>2 DEF Statement, Stmt, Object
<1>4. CASE d = <<>>
  BY <1>4 DEF OneScript
<1>5. CASE d # <<>>
  <2>1. f \in [1..Len(d) -> Statement] /\ Len(d) # 0
    BY <1>1, <1>3, <1>5
  <2> HIDE DEF f
  <2>2. f \in Seq(Statement) /\ f # <<>>
    BY <1>1, <2>1, SeqOf
  <2>3. OneScript(op, d) = <<f>>
    BY <1>5 DEF OneScript, f
  <2>4. QED
    BY <2>2, <2>3
<1>6. QED
  BY <1>4, <1>5

\* The first object with an id.
LEMMA FirstFound ==
  ASSUME NEW d \in Seq(Object)
  PROVE  LET found == {i \in DOMAIN d : HasId(d[i])}
         IN  /\ Cardinality(found) \in Nat
             /\ Cardinality(found) # 0 =>
                   /\ Min(found) \in DOMAIN d
                   /\ d[Min(found)].id # NoId
                   /\ \A j \in 1..Min(found) - 1 : d[j].id = NoId
<1> DEFINE found == {i \in DOMAIN d : HasId(d[i])}
<1>1. DOMAIN d = 1..Len(d) /\ Len(d) \in Nat
  OBVIOUS
<1>2. found \subseteq 1..Len(d) /\ found \subseteq Nat /\ IsFiniteSet(found)
  <2>1. found \in SUBSET (1..Len(d)) /\ IsFiniteSet(1..Len(d))
    BY <1>1, FS_Interval
  <2>2. QED
    BY <1>1, <2>1, FS_Subset
<1>3. Cardinality(found) \in Nat
  BY <1>2, FS_CardinalityType
<1>4. ASSUME Cardinality(found) # 0
      PROVE  /\ Min(found) \in DOMAIN d
             /\ d[Min(found)].id # NoId
             /\ \A j \in 1..Min(found) - 1 : d[j].id = NoId
  <2>1. found # {}
    BY <1>4, FS_EmptySet
  <2>2. Min(found) \in found /\ \A j \in found : Min(found) <= j
    BY <1>2, <2>1, LeastNatural DEF Min
  <2>3. \A j \in 1..Min(found) - 1 : j \in DOMAIN d /\ j \notin found
    <3> DEFINE m == Min(found)
    <3>1. m \in 1..Len(d)
      BY <1>2, <2>2
    <3> HIDE DEF m
    <3>2. \A j \in 1..m - 1 : j \in 1..Len(d) /\ ~(m <= j)
      BY <1>1, <3>1
    <3>3. QED
      BY <1>1, <2>2, <3>2 DEF m
  <2>4. QED
    BY <2>2, <2>3 DEF HasId
<1>5. QED
  BY <1>3, <1>4

\* A statement of an update of d.
Updates(d, s) ==
    \/ s = SyntaxError
    \/ \E i \in DOMAIN d :
          /\ d[i].id # NoId /\ \A j \in 1..i - 1 : d[j].id = NoId
          /\ d[i].columns # NoColumns
          /\ s = SetStatement(d[i])

\* An update has one statement that may do something, for the first object with
\* an id; the others do not parse.
LEMMA UpdateSays ==
  ASSUME NEW d \in Seq(Object)
  PROVE  /\ UpdateScripts(d) \in Seq(Seq(Statement) \ {<<>>})
         /\ \A n \in DOMAIN UpdateScripts(d) : \A k \in DOMAIN UpdateScripts(d)[n] :
               Updates(d, UpdateScripts(d)[n][k])
<1> DEFINE found == {i \in DOMAIN d : HasId(d[i])}
           m == Min(found)
           c == Cardinality(found)
           Row(n) == [k \in 1..n |-> IF k = 1 THEN SetStatement(d[m]) ELSE SyntaxError]
           u == [n \in 1..c |-> Row(n)]
<1>1. UpdateScripts(d) = u
  BY DEF UpdateScripts
<1>2. /\ c \in Nat
      /\ c # 0 => /\ m \in DOMAIN d /\ d[m].id # NoId
                  /\ \A j \in 1..m - 1 : d[j].id = NoId
  BY FirstFound
<1> HIDE DEF c, m, found
<1>3. ASSUME c # 0
      PROVE  /\ SetStatement(d[m]) \in Statement
             /\ \/ SetStatement(d[m]) = SyntaxError
                \/ d[m].columns # NoColumns
  <2>1. d[m] \in Object /\ d[m].id # NoId
    BY <1>2, <1>3
  <2>2. d[m].columns # NoColumns => Streamed[d[m].columns] \in Value
    BY <2>1, SqliteTableAssumption DEF Object
  <2>3. QED
    BY <2>1, <2>2 DEF SetStatement, Statement, Object
<1>4. ASSUME NEW n \in 1..c
      PROVE  Row(n) \in Seq(Statement) \ {<<>>}
  <2>1. n \in Nat /\ n # 0 /\ c # 0
    BY <1>2
  <2>2. Row(n) \in [1..n -> Statement]
    BY <1>3, <2>1 DEF Statement
  <2> HIDE DEF Row
  <2>3. QED
    BY <2>1, <2>2, SeqOf
<1>5. u \in Seq(Seq(Statement) \ {<<>>})
  <2>1. u \in [1..c -> Seq(Statement) \ {<<>>}]
    BY <1>4
  <2> HIDE DEF u
  <2>2. QED
    BY <1>2, <2>1, SeqOf
<1>6. ASSUME NEW n \in DOMAIN u, NEW k \in DOMAIN u[n]
      PROVE  Updates(d, u[n][k])
  <2>1. n \in 1..c /\ c # 0 /\ k \in 1..n
    BY <1>2
  <2>2. u[n][k] = IF k = 1 THEN SetStatement(d[m]) ELSE SyntaxError
    BY <2>1
  <2> HIDE DEF u
  <2>3. QED
    BY <1>2, <1>3, <2>1, <2>2 DEF Updates
<1> HIDE DEF u
<1>7. \A n \in DOMAIN u : \A k \in DOMAIN u[n] : Updates(d, u[n][k])
  BY <1>6, Zenon
<1>8. QED
  BY <1>1, <1>5, <1>7

LEMMA ScriptsTyped ==
  ASSUME NEW r \in Request
  PROVE  Scripts(r) \in Seq(Seq(Statement) \ {<<>>})
<1>1. r.method \in Method /\ r.data \in Seq(Object)
  BY DEF Request
<1>2. CASE r.method = "create"
  <2>1. OneScript("insert", r.data) \in Seq(Seq(Statement) \ {<<>>})
    BY <1>2, OneScriptTyped
  <2>2. QED
    BY <1>2, <2>1 DEF Scripts
<1>3. CASE r.method = "delete"
  <2>1. OneScript("delete", r.data) \in Seq(Seq(Statement) \ {<<>>})
    BY <1>3, OneScriptTyped
  <2>2. QED
    BY <1>3, <2>1 DEF Scripts
<1>4. CASE r.method = "update"
  BY <1>1, <1>4, UpdateSays DEF Scripts
<1>5. CASE r.method \in {"read", "unknown"}
  BY <1>5 DEF Scripts
<1>6. QED
  BY <1>1, <1>2, <1>3, <1>4, <1>5 DEF Method

-----------------------------------------------------------------------------
(* Types.                                                                  *)

\* The requests of a round.
LEMMA RequestTyped ==
  ASSUME NEW ids, ids \subseteq Id, NEW s \in {0, 2, 4, 6, 8, 10, 12}
  PROVE  RequestOf(s, InOrder(ids)) \in Request
<1> DEFINE q == InOrder(ids)
           n == Cardinality(ids)
<1>1. n \in Nat /\ q \in [1..n -> ids]
  BY InOrderSorts
<1> HIDE DEF q, n
<1>2. /\ 1 \in Id /\ 2 \in Id
      /\ Haidian \in Value /\ Changping \in Value /\ Chaoyang \in Value
  BY TestClientAssumption
<1>3. CASE s \in {0, 4, 8, 12}
  BY <1>3 DEF RequestOf, Request, Method
<1>4. CASE s = 2
  <2> DEFINE d == [i \in DOMAIN q |-> Named(q[i], NoColumns)]
  <2>1. \A i \in 1..n : Named(q[i], NoColumns) \in Object /\ q[i] # NoId
    BY <1>1, SqliteTableAssumption DEF Named, Object
  <2>2. d \in [1..n -> Object] /\ \A i \in 1..n : d[i].id = q[i]
    BY <1>1, <2>1 DEF Named
  <2>3. RequestOf(s, q) = [method |-> "delete", data |-> d]
    BY <1>4 DEF RequestOf
  <2> HIDE DEF d
  <2>4. d \in Seq(Object) /\ DOMAIN d = 1..n
    BY <1>1, <2>2, SeqOf
  <2>5. \A k \in DOMAIN d : d[k].id # NoId
    BY <2>1, <2>2, <2>4
  <2>6. [method |-> "delete", data |-> d] \in Request
    BY <2>4, <2>5 DEF Request, Method
  <2>7. QED
    BY <2>3, <2>6 DEF q
<1>5. CASE s = 6
  <2> DEFINE d == <<Named(1, Haidian), Named(2, Changping)>>
  <2>1. Named(1, Haidian) \in Object /\ Named(2, Changping) \in Object
    BY <1>2 DEF Named, Object
  <2>2. \A k \in DOMAIN d : d[k].id # NoId /\ d[k].columns # NoColumns
    BY <1>2, SqliteTableAssumption DEF Named
  <2>3. QED
    BY <1>5, <2>1, <2>2 DEF RequestOf, Request, Method
<1>6. CASE s = 10
  <2>1. Named(1, Chaoyang) \in Object
    BY <1>2 DEF Named, Object
  <2>2. QED
    BY <1>6, <2>1 DEF RequestOf, Request, Method
<1>7. QED
  BY <1>3, <1>4, <1>5, <1>6

JobSet == [from : {"client", "other"}, id : 0..13, req : Request,
           scripts : Seq(Seq(Statement) \ {<<>>})]

\* A statement that is valid leaves rows.
LEMMA EffectTyped ==
  ASSUME table \in Table, NEW s \in Statement, Valid(s)
  PROVE  Effect(s) \in Table
<1>1. s.op \in {"insert", "set", "delete"} /\ s.id \in Id
      /\ (s.op # "delete" => s.value \in Value)
  BY DEF Valid, Statement, SyntaxError
<1>2. QED
  BY <1>1 DEF Effect, Table

\* The script in hand.
LEMMA ScriptTyped ==
  ASSUME job = NoJob \/ job \in JobSet, HasStmt
  PROVE  /\ job \in JobSet
         /\ Script \in Seq(Statement) /\ Script # <<>> /\ NextStmt \in Statement
         /\ Tail(Script) \in Seq(Statement)
         /\ Tail(job.scripts) \in Seq(Seq(Statement) \ {<<>>})
<1>1. job \in JobSet /\ job.scripts \in Seq(Seq(Statement) \ {<<>>}) /\ job.scripts # <<>>
  BY DEF HasStmt, JobSet
<1>2. Script \in Seq(Statement) \ {<<>>}
  BY <1>1 DEF Script
<1>3. NextStmt \in Statement /\ Tail(Script) \in Seq(Statement)
  BY <1>2 DEF NextStmt
<1>4. Tail(job.scripts) \in Seq(Seq(Statement) \ {<<>>})
  BY <1>1
<1>5. QED
  BY <1>1, <1>2, <1>3, <1>4

\* What executing changes has its type.
LEMMA ExecTyped ==
  ASSUME table \in Table, job = NoJob \/ job \in JobSet, Exec \/ ExecFail
  PROVE  table' \in Table /\ job' \in JobSet
<1>1. HasStmt
  BY DEF Exec, ExecFail
<1>2. /\ job \in JobSet
      /\ Script \in Seq(Statement) /\ Script # <<>> /\ NextStmt \in Statement
      /\ Tail(Script) \in Seq(Statement)
      /\ Tail(job.scripts) \in Seq(Seq(Statement) \ {<<>>})
  BY <1>1, ScriptTyped
<1>3. CASE ExecFail
  BY <1>2, <1>3 DEF ExecFail, JobSet
<1>4. CASE Exec
  <2>1. table' \in Table
    BY <1>2, <1>4, EffectTyped DEF Exec
  <2> DEFINE rest == IF Tail(Script) = <<>> THEN Tail(job.scripts)
                                            ELSE <<Tail(Script)>> \o Tail(job.scripts)
  <2>2. rest \in Seq(Seq(Statement) \ {<<>>})
    <3>1. CASE Tail(Script) = <<>>
      BY <1>2, <3>1
    <3>2. CASE Tail(Script) # <<>>
      <4>1. <<Tail(Script)>> \in Seq(Seq(Statement) \ {<<>>})
        BY <1>2, <3>2
      <4>2. QED
        BY <1>2, <3>2, <4>1, ConcatProperties
    <3>3. QED
      BY <3>1, <3>2
  <2>3. job' = [job EXCEPT !.scripts = rest]
    BY <1>4 DEF Exec
  <2> HIDE DEF rest
  <2>4. QED
    BY <1>2, <2>1, <2>2, <2>3 DEF JobSet
<1>5. QED
  BY <1>3, <1>4

LEMMA BeginTyped ==
  ASSUME NEW from \in {"client", "other"}, NEW id \in 0..13, NEW req \in Request,
         Begin(from, id, req)
  PROVE  job' \in JobSet
  BY ScriptsTyped DEF Begin, JobSet

LEMMA ReplyTyped ==
  ASSUME table \in Table, job \in JobSet, NEW r \in Replies
  PROVE  r \in Response
<1>1. job.id \in Nat
  BY DEF JobSet
<1>2. QED
  BY <1>1 DEF Replies, Reply, Response

LEMMA RowsTyped ==
  ASSUME NEW r
  PROVE  RowsOf(r) \subseteq Id
  BY DEF RowsOf

LEMMA TypeInit == Init => TypeOK
<1> SUFFICES ASSUME Init
             PROVE  TypeOK
  OBVIOUS
<1>1. table \in Table /\ job = NoJob /\ 0 \in 0..MaxOthers /\ 0 \in 0..MaxLost
  BY TestClientAssumption DEF Init
<1>2. {link, writable, sent_, sending, vain} \subseteq BOOLEAN
  BY DEF Init
<1>3. seen \in [at : 0..13, rows : Table \cup {NoData}, ok : BOOLEAN]
  BY DEF Init, NoRead
<1>4. QED
  BY <1>1, <1>2, <1>3 DEF Init, TypeOK

LEMMA TypeNext ==
  ASSUME TypeOK, [Next]_vars
  PROVE  TypeOK'
<1> USE DEF tableVars, clientVars, bounds
<1>0. /\ table \in Table /\ (job = NoJob \/ job \in JobSet)
      /\ link \in BOOLEAN /\ writable \in BOOLEAN /\ sent_ \in BOOLEAN /\ sending \in BOOLEAN
      /\ vain \in BOOLEAN /\ seen \in [at : 0..13, rows : Table \cup {NoData}, ok : BOOLEAN]
      /\ session \in {"out", "sleep", "request"}
      /\ step_ \in 0..13 /\ place_ids_ \subseteq Id
      /\ requests \in Seq([id : 0..13, req : Request]) /\ responses \in Seq(Response)
      /\ others \in 0..MaxOthers /\ lost \in 0..MaxLost
      /\ MaxOthers \in Nat /\ MaxLost \in Nat
  BY TestClientAssumption DEF TypeOK, JobSet
<1>1. CASE Session
  BY <1>0, <1>1 DEF Session, SessionBegin, OnSession, SessionRequest, TypeOK, JobSet
<1>2. CASE OnSendIdle \/ OnSendWait \/ OnSendEnd
  BY <1>0, <1>2 DEF OnSendIdle, OnSendWait, OnSendEnd, TypeOK, JobSet
<1>3. CASE OnSendSkip
  <2>1. step_' \in 0..13
    BY <1>3 DEF OnSendSkip, Skips
  <2>2. QED
    BY <1>0, <1>3, <2>1 DEF OnSendSkip, TypeOK, JobSet
<1>4. CASE OnSendRequest
  <2> DEFINE r == [id |-> step_, req |-> RequestOf(step_, InOrder(place_ids_))]
  <2>1. step_ \in {0, 2, 4, 6, 8, 10, 12}
    <3>1. ~Waiting
      BY <1>4 DEF OnSendRequest
    <3>2. QED
      BY <1>0, <3>1, Parity DEF Waiting
  <2>2. r \in [id : 0..13, req : Request]
    BY <1>0, <2>1, RequestTyped
  <2>3. requests' = Append(requests, r)
    BY <1>4 DEF OnSendRequest
  <2> HIDE DEF r
  <2>4. requests' \in Seq([id : 0..13, req : Request])
    BY <1>0, <2>2, <2>3
  <2>5. step_' \in 0..13
    BY <1>4, <2>1 DEF OnSendRequest
  <2>6. QED
    BY <1>0, <1>4, <2>4, <2>5 DEF OnSendRequest, TypeOK, JobSet
<1>5. CASE OnRecv
  <2>1. step_' \in 0..13
    BY <1>0, <1>5 DEF OnRecv, NextStep
  <2>2. place_ids_' \subseteq Id
    BY <1>0, <1>5, RowsTyped DEF OnRecv
  <2>3. responses' \in Seq(Response)
    BY <1>0, <1>5 DEF OnRecv
  <2>4. QED
    BY <1>0, <1>5, <2>1, <2>2, <2>3 DEF OnRecv, TypeOK, JobSet
<1>6. CASE Accept
  <2>1. requests # <<>> /\ Head(requests) \in [id : 0..13, req : Request]
        /\ requests' = Tail(requests) /\ Tail(requests) \in Seq([id : 0..13, req : Request])
    BY <1>0, <1>6, HeadTailProperties DEF Accept
  <2>2. job' \in JobSet
    BY <1>6, <2>1, BeginTyped DEF Accept
  <2>3. QED
    BY <1>0, <1>6, <2>1, <2>2 DEF Accept, Begin, TypeOK, JobSet
<1>7. CASE Other
  <2>1. PICK r \in OtherRequest : Begin("other", 0, r)
    BY <1>7 DEF Other
  <2>2. job' \in JobSet
    BY <2>1, TestClientAssumption, BeginTyped
  <2>3. others' \in 0..MaxOthers
    BY <1>0, <1>7 DEF Other
  <2>4. seen' \in [at : 0..13, rows : Table \cup {NoData}, ok : BOOLEAN]
    BY <1>7 DEF Other, NoRead
  <2>5. QED
    BY <1>0, <1>7, <2>1, <2>2, <2>3, <2>4 DEF Other, Begin, TypeOK, JobSet
<1>8. CASE Execute \/ Fail
  <2>1. table' \in Table /\ job' \in JobSet
    BY <1>0, <1>8, ExecTyped DEF Execute, Fail
  <2>2. seen' \in [at : 0..13, rows : Table \cup {NoData}, ok : BOOLEAN]
    BY <1>0, <1>8 DEF Execute, Fail
  <2>3. QED
    BY <1>0, <1>8, <2>1, <2>2 DEF Execute, Fail, TypeOK, JobSet
<1>9. CASE Respond
  <2>1. PICK r \in Replies :
           /\ responses' = IF job.from = "client" /\ Fits(r) THEN Append(responses, r) ELSE responses
           /\ vain' = (vain \/ (job.from = "client" /\ ~Fits(r)))
           /\ See(r)
    BY <1>9 DEF Respond
  <2>2. r \in Response
    BY <1>0, <1>9, ReplyTyped DEF Respond, Ready
  <2>3. responses' \in Seq(Response) /\ vain' \in BOOLEAN
    BY <1>0, <2>1, <2>2
  <2>4. job' = NoJob
    BY <1>9 DEF Respond
  <2>5. seen' \in [at : 0..13, rows : Table \cup {NoData}, ok : BOOLEAN]
    <3>1. job.id \in 0..13 /\ r.data \in Table \cup {NoData}
      BY <1>0, <1>9, <2>2 DEF Respond, Ready, JobSet, Response
    <3>2. NoRead \in [at : 0..13, rows : Table \cup {NoData}, ok : BOOLEAN]
      BY DEF NoRead
    <3>3. [at |-> job.id, rows |-> r.data, ok |-> TRUE]
             \in [at : 0..13, rows : Table \cup {NoData}, ok : BOOLEAN]
      BY <3>1
    <3>4. QED
      BY <1>0, <2>1, <3>2, <3>3 DEF See
  <2>6. QED
    BY <1>0, <1>9, <2>3, <2>4, <2>5 DEF Respond, TypeOK, JobSet
<1>10. CASE Lose \/ Crash
  <2>1. job' = NoJob \/ job' \in JobSet
    BY <1>0, <1>10 DEF Lose, Crash, JobOpen, JobSet
  <2>2. lost' \in 0..MaxLost
    BY <1>0, <1>10 DEF Lose, Crash, Down
  <2>3. vain' \in BOOLEAN
    <3>1. vain' = (vain \/ Open # <<>>)
      BY <1>10, Zenon DEF Lose, Crash, Down
    <3>2. QED
      BY <1>0, <3>1, Zenon
  <2>4. /\ UNCHANGED <<table, seen, session, sent_, step_, place_ids_, sending, others>>
        /\ link' = FALSE /\ writable' = FALSE /\ requests' = <<>> /\ responses' = <<>>
    BY <1>10 DEF Lose, Crash, Down
  <2>5. {link, writable, sent_, sending, vain}' \subseteq BOOLEAN
    BY <1>0, <2>3, <2>4
  <2>6. requests' \in Seq([id : 0..13, req : Request]) /\ responses' \in Seq(Response)
    BY <2>4
  <2>7. QED
    BY <1>0, <2>1, <2>2, <2>4, <2>5, <2>6 DEF TypeOK, JobSet
<1>11. CASE Connect \/ UNCHANGED vars
  BY <1>0, <1>11 DEF Connect, vars, TypeOK, JobSet
<1>12. QED
  BY <1>1, <1>2, <1>3, <1>4, <1>5, <1>6, <1>7, <1>8, <1>9, <1>10, <1>11
     DEF Next, Send, Process

\* Types of every variable (test-client.h:14-155, sqlite_callback.h:18-324).
THEOREM TypeCorrect == Spec => []TypeOK
  BY TypeInit, TypeNext, PTL DEF Spec

-----------------------------------------------------------------------------
(* Updates.                                                                *)

\* Every statement of an update in hand is one that UpdateSays tells of.
UpdateJob ==
    job.req.method = "update" =>
       \A n \in DOMAIN job.scripts : \A k \in DOMAIN job.scripts[n] :
          Updates(job.req.data, job.scripts[n][k])

LEMMA BeginUpdate ==
  ASSUME NEW from, NEW id, NEW req \in Request, Begin(from, id, req)
  PROVE  UpdateJob'
<1>1. job'.req = req /\ job'.scripts = Scripts(req)
  BY DEF Begin
<1>2. CASE req.method = "update"
  <2>1. req.data \in Seq(Object) /\ Scripts(req) = UpdateScripts(req.data)
    BY <1>2 DEF Request, Scripts
  <2>2. QED
    BY <1>1, <2>1, UpdateSays DEF UpdateJob
<1>3. QED
  BY <1>1, <1>2 DEF UpdateJob

\* Scripts lose statements only.
LEMMA ExecUpdate ==
  ASSUME TypeOK, UpdateJob, Exec \/ ExecFail
  PROVE  UpdateJob'
<1>1. HasStmt /\ (job = NoJob \/ job \in JobSet)
  BY DEF Exec, ExecFail, TypeOK, JobSet
<1>2. /\ job \in JobSet
      /\ Script \in Seq(Statement) /\ Script # <<>> /\ Tail(Script) \in Seq(Statement)
      /\ Tail(job.scripts) \in Seq(Seq(Statement) \ {<<>>})
  BY <1>1, ScriptTyped
<1>3. job.scripts \in Seq(Seq(Statement) \ {<<>>}) /\ job.scripts # <<>>
  BY <1>1, <1>2 DEF HasStmt, JobSet
<1> DEFINE Means(s) == Updates(job.req.data, s)
           old == job.scripts
           rest == Tail(old)
<1> SUFFICES ASSUME job.req.method = "update"
             PROVE  /\ job'.req = job.req
                    /\ \A n \in DOMAIN job'.scripts : \A k \in DOMAIN job'.scripts[n] :
                          Means(job'.scripts[n][k])
  <2>1. job'.req = job.req
    BY <1>2 DEF Exec, ExecFail, JobSet
  <2>2. QED
    BY <2>1 DEF UpdateJob
<1>4. job'.req = job.req
  BY <1>2 DEF Exec, ExecFail, JobSet
<1>5. \A n \in DOMAIN old : \A k \in DOMAIN old[n] : Means(old[n][k])
  BY DEF UpdateJob
<1>6. /\ DOMAIN rest = 1..Len(rest) /\ Len(rest) \in Nat
      /\ \A n \in DOMAIN rest : rest[n] = old[n + 1] /\ n + 1 \in DOMAIN old
  BY <1>3
<1>7. \A n \in DOMAIN rest : \A k \in DOMAIN rest[n] : Means(rest[n][k])
  BY <1>5, <1>6
<1>8. \A k \in DOMAIN Tail(Script) : Means(Tail(Script)[k])
  <2>1. Script = old[1] /\ 1 \in DOMAIN old
    BY <1>3 DEF Script
  <2>2. \A k \in DOMAIN Tail(Script) : Tail(Script)[k] = Script[k + 1] /\ k + 1 \in DOMAIN Script
    BY <1>2
  <2>3. QED
    BY <1>5, <2>1, <2>2
<1>9. CASE ExecFail \/ Tail(Script) = <<>>
  <2>1. job'.scripts = rest
    BY <1>2, <1>9 DEF Exec, ExecFail, JobSet
  <2>2. QED
    BY <1>4, <1>7, <2>1
<1>10. CASE ~ExecFail /\ Tail(Script) # <<>>
  <2> DEFINE new == <<Tail(Script)>> \o rest
  <2>1. job'.scripts = new
    BY <1>2, <1>10 DEF Exec, JobSet
  <2>2. \A n \in DOMAIN new : new[n] = Tail(Script) \/ \E m \in DOMAIN rest : new[n] = rest[m]
    <3>1. <<Tail(Script)>> \in Seq(Seq(Statement)) /\ rest \in Seq(Seq(Statement))
      BY <1>2
    <3> DEFINE one == <<Tail(Script)>>
    <3>2. Len(one) = 1 /\ one[1] = Tail(Script)
      OBVIOUS
    <3> HIDE DEF rest, one
    <3>3. /\ new \in Seq(Seq(Statement)) /\ Len(new) = 1 + Len(rest)
          /\ \A n \in 1..1 + Len(rest) : new[n] = IF n <= 1 THEN one[n] ELSE rest[n - 1]
      BY <3>1, <3>2, ConcatProperties DEF one
    <3>4. DOMAIN new = 1..1 + Len(rest)
      BY <3>3
    <3>5. QED
      BY <1>6, <3>2, <3>3, <3>4
  <2> HIDE DEF new, rest, Means
  <2>3. \A n \in DOMAIN new : \A k \in DOMAIN new[n] : Means(new[n][k])
    BY <1>7, <1>8, <2>2
  <2>4. QED
    BY <1>4, <2>1, <2>3
<1>11. QED
  BY <1>9, <1>10

LEMMA UpdateInit == Init => UpdateJob
  BY DEF Init, UpdateJob, NoJob

LEMMA UpdateNext ==
  ASSUME TypeOK, UpdateJob, [Next]_vars
  PROVE  UpdateJob'
<1>1. CASE Execute \/ Fail
  BY <1>1, ExecUpdate DEF Execute, Fail
<1>2. CASE Accept
  <2>1. requests # <<>> /\ requests \in Seq([id : 0..13, req : Request])
    BY <1>2 DEF Accept, TypeOK
  <2>2. Head(requests) \in [id : 0..13, req : Request]
    BY <2>1, HeadTailProperties
  <2>3. QED
    BY <1>2, <2>2, BeginUpdate DEF Accept
<1>3. CASE Other
  BY <1>3, BeginUpdate, TestClientAssumption DEF Other
<1>4. CASE Respond \/ Crash
  BY <1>4 DEF Respond, Crash, NoJob, UpdateJob
<1>5. CASE Lose
  <2>1. job'.req = job.req /\ job'.scripts = job.scripts
    BY <1>5 DEF Lose, JobOpen, TypeOK
  <2>2. QED
    BY <2>1 DEF UpdateJob
<1>6. CASE Session \/ OnSendIdle \/ OnSendWait \/ OnSendSkip \/ OnSendRequest \/ OnSendEnd
             \/ OnRecv \/ Connect \/ UNCHANGED vars
  <2>1. UNCHANGED job
    BY <1>6 DEF Session, SessionBegin, OnSession, SessionRequest, OnSendIdle, OnSendWait,
                OnSendSkip, OnSendRequest, OnSendEnd, OnRecv, Connect, vars, tableVars
  <2>2. QED
    BY <2>1 DEF UpdateJob
<1>7. QED
  BY <1>1, <1>2, <1>3, <1>4, <1>5, <1>6 DEF Next, Send, Process

\* Only the execution of a statement changes the table.
LEMMA TableStep ==
  ASSUME [Next]_vars
  PROVE  UNCHANGED table \/ Exec
  BY DEF Next, Session, SessionBegin, OnSession, SessionRequest, Send, OnSendIdle, OnSendWait,
         OnSendSkip, OnSendRequest, OnSendEnd, OnRecv, Process, Accept, Begin, Execute, Fail,
         ExecFail, Respond, Other, Lose, Crash, Connect, vars, tableVars

\* An update changes no row but that of the first object with an id, and makes or
\* removes none, whatever the request has and whoever sent it, and wherever it
\* fails (sqlite_callback.h:172-241).
THEOREM UpdatesOnlyFirst == Spec => UpdatesFirstOnly
<1> DEFINE Kept == job # NoJob /\ job.req.method = "update" =>
              \A i \in Id : table'[i] # table[i] =>
                 /\ NoRow \notin {table[i], table'[i]}
                 /\ \E k \in DOMAIN job.req.data :
                       /\ job.req.data[k].id = i
                       /\ \A j \in 1..k - 1 : job.req.data[j].id = NoId
<1>1. TypeOK /\ UpdateJob /\ [Next]_vars => [Kept]_vars
  <2> SUFFICES ASSUME TypeOK, UpdateJob, Exec, job.req.method = "update",
                      NEW i \in Id, table'[i] # table[i]
               PROVE  /\ NoRow \notin {table[i], table'[i]}
                      /\ \E k \in DOMAIN job.req.data :
                            /\ job.req.data[k].id = i
                            /\ \A j \in 1..k - 1 : job.req.data[j].id = NoId
    BY TableStep
  <2>1. HasStmt /\ (job = NoJob \/ job \in JobSet) /\ table \in Table
    BY DEF Exec, TypeOK, JobSet
  <2>2. /\ job.scripts # <<>> /\ job.scripts \in Seq(Seq(Statement) \ {<<>>})
        /\ Script \in Seq(Statement) /\ Script # <<>> /\ job \in JobSet
    BY <2>1, ScriptTyped DEF HasStmt, JobSet
  <2>3. Updates(job.req.data, NextStmt)
    <3>1. Script = job.scripts[1] /\ 1 \in DOMAIN job.scripts
      BY <2>2 DEF Script
    <3>2. NextStmt = Script[1] /\ 1 \in DOMAIN Script
      BY <2>2 DEF NextStmt
    <3>3. QED
      BY <3>1, <3>2 DEF UpdateJob
  <2>4. Valid(NextStmt) /\ table' = Effect(NextStmt)
    BY DEF Exec
  <2>5. PICK k \in DOMAIN job.req.data :
           /\ job.req.data[k].id # NoId /\ \A j \in 1..k - 1 : job.req.data[j].id = NoId
           /\ job.req.data[k].columns # NoColumns
           /\ NextStmt = SetStatement(job.req.data[k])
    BY <2>3, <2>4 DEF Updates, Valid, SyntaxError
  <2>6. /\ job.req.data[k] \in Object
        /\ NextStmt.op = "set" /\ NextStmt.id \in Id /\ NextStmt.value \in Value
        /\ NextStmt.id = job.req.data[k].id
    <3>1. job.req.data \in Seq(Object)
      BY <2>2 DEF JobSet, Request
    <3>2. job.req.data[k] \in Object
      BY <3>1
    <3>3. QED
      BY <2>5, <3>2, SqliteTableAssumption DEF SetStatement, Object
  <2>7. table' = [table EXCEPT ![NextStmt.id] = IF @ = NoRow THEN NoRow ELSE NextStmt.value]
    BY <2>4, <2>6 DEF Effect
  <2>8. i = NextStmt.id /\ table[i] # NoRow /\ table'[i] = NextStmt.value
    BY <2>1, <2>6, <2>7 DEF Table
  <2>9. QED
    BY <2>5, <2>6, <2>8, SqliteTableAssumption
<1>2. Spec => [](TypeOK /\ UpdateJob)
  BY TypeCorrect, UpdateInit, UpdateNext, PTL DEF Spec
<1>3. QED
  BY <1>1, <1>2, PTL DEF Spec, UpdatesFirstOnly

-----------------------------------------------------------------------------
(* The request in hand.                                                    *)

\* The request in hand is that of the step before.
Wanted == RequestOf(step_ - 1, InOrder(place_ids_))

OwnRequest ==
    /\ requests # <<>> => requests[1].req = Wanted
    /\ job.from = "client" => job.req = Wanted

LEMMA OwnRequestNext ==
  ASSUME OneRequest, TypeOK, OwnRequest, [Next]_vars
  PROVE  OwnRequest'
<1>1. CASE OnSendSkip \/ OnSendRequest
  <2>1. NoneOpen /\ UNCHANGED <<job, place_ids_>> /\ step_' = step_ + 1 /\ step_ \in 0..13
    <3>1. ~Waiting
      <4>1. step_ = 2 => ~Waiting
        BY DEF Waiting
      <4>2. QED
        BY <1>1, <4>1 DEF OnSendSkip, OnSendRequest, Skips
    <3>2. QED
      BY <1>1, <3>1 DEF OnSendSkip, OnSendRequest, Skips, OneRequest, tableVars
  <2>2. step_' - 1 = step_
    BY <2>1
  <2>3. CASE OnSendSkip
    BY <2>1, <2>3 DEF OnSendSkip, NoneOpen, OwnRequest
  <2>4. CASE OnSendRequest
    <3>1. requests' = <<[id |-> step_, req |-> Wanted']>>
      BY <2>1, <2>2, <2>4 DEF OnSendRequest, NoneOpen, Wanted
    <3>2. QED
      BY <2>1, <3>1 DEF NoneOpen, OwnRequest
  <2>5. QED
    BY <1>1, <2>3, <2>4
<1>2. CASE OnRecv
  <2>1. Answered /\ UNCHANGED <<job, requests>>
    BY <1>2 DEF OnRecv, tableVars, OneRequest, NoneOpen, Asked, InJob
  <2>2. QED
    BY <2>1 DEF Answered, OwnRequest
<1>3. CASE Accept
  <2>1. /\ UNCHANGED <<step_, place_ids_, responses>> /\ requests # <<>>
        /\ requests' = Tail(requests) /\ job'.req = Head(requests).req
    BY <1>3 DEF Accept, Begin, clientVars
  <2>2. Asked
    BY <2>1 DEF OneRequest, NoneOpen, InJob, Answered
  <2>3. requests' = <<>> /\ job'.req = requests[1].req
    BY <2>1, <2>2 DEF Asked
  <2>4. QED
    BY <2>1, <2>3 DEF OwnRequest, Wanted
<1>4. CASE Respond \/ Crash \/ Lose \/ Other
  <2>1. UNCHANGED <<step_, place_ids_>> /\ job'.from # "client"
        /\ (requests' = requests \/ requests' = <<>>)
    BY <1>4 DEF Respond, Crash, Lose, Down, Other, Begin, clientVars, NoJob, JobOpen, TypeOK
  <2>2. QED
    BY <2>1 DEF OwnRequest, Wanted
<1>5. CASE Execute \/ Fail
  <2>1. UNCHANGED <<step_, place_ids_, requests>> /\ job'.from = job.from /\ job'.req = job.req
    BY <1>5 DEF Execute, Exec, Fail, ExecFail, clientVars, TypeOK, HasStmt
  <2>2. QED
    BY <2>1 DEF OwnRequest, Wanted
<1>6. CASE Session \/ OnSendIdle \/ OnSendWait \/ OnSendEnd \/ Connect \/ UNCHANGED vars
  <2>1. UNCHANGED <<job, step_, place_ids_, requests>>
    BY <1>6 DEF Session, SessionBegin, OnSession, SessionRequest, OnSendIdle, OnSendWait, OnSendEnd,
                Connect, vars, tableVars, clientVars
  <2>2. QED
    BY <2>1 DEF OwnRequest, Wanted
<1>7. QED
  BY <1>1, <1>2, <1>3, <1>4, <1>5, <1>6 DEF Next, Send, Process

-----------------------------------------------------------------------------
(* What a round leaves in the table.                                       *)

RowsIn(t) == {i \in Id : t[i] # NoRow}

Insert1 == Stmt("insert", Named(1, Haidian))
Insert2 == Stmt("insert", Named(2, Changping))
Set1    == SetStatement(Named(1, Chaoyang))

Idle == job = NoJob \/ job.scripts = <<>>

\* Nothing has been written since the read.
Before == Idle /\ table = seen.rows

\* The write is done, or given up.
After == Idle /\ WrittenPart(seen.rows) /\ (seen.ok => Written(seen.rows))

\* The rows that are left are deleted by q, in their order, and those below are gone.
Deletes(q) ==
    /\ q \in Seq(Statement) /\ q # <<>>
    /\ \A k \in DOMAIN q : q[k].op = "delete"
    /\ RowsIn(table) = {q[k].id : k \in DOMAIN q}
    /\ \A k, m \in DOMAIN q : k < m => q[k].id < q[m].id
    /\ \A i \in Id : table[i] \in {seen.rows[i], NoRow}
    /\ \A i \in RowsIn(seen.rows) \ RowsIn(table) : \A k \in DOMAIN q : i < q[k].id

\* A script of the write is in hand.
During ==
    LET t == seen.rows
    IN  /\ job # NoJob
        /\ \/ /\ seen.at = 0 /\ Len(job.scripts) = 1 /\ Deletes(job.scripts[1])
           \/ /\ seen.at = 4 /\ table = t
              /\ job.scripts = << <<Insert1, Insert2>> >>
           \/ /\ seen.at = 4 /\ t[1] = NoRow /\ table = [t EXCEPT ![1] = Haidian]
              /\ job.scripts = << <<Insert2>> >>
           \/ /\ seen.at = 8 /\ table = t /\ job.scripts = << <<Set1>> >>

Writes == seen.at \in {0, 4, 8} /\ step_ = seen.at + 3

\* The step is one between the read and the answer to the next.
InRound ==
    \/ /\ seen.at \in {0, 4, 8}
       /\ step_ \in {seen.at + 1, seen.at + 2, seen.at + 3, seen.at + 4, seen.at + 5}
    \/ seen.at = 12 /\ step_ \in {0, 1, 13}

\* Until the write is sent off the table is what was read; then it is being written,
\* by the client's request or one that outlived its connection, or what a part
\* of the write has made of it.
Round ==
    seen.rows # NoData =>
       /\ InRound
       /\ seen.at = 12 \/ step_ \in {seen.at + 1, seen.at + 2} => Before
       /\ seen.at = 0 /\ step_ \in {2, 3} => place_ids_ = RowsIn(seen.rows)
       /\ Writes => /\ (Idle /\ WrittenPart(seen.rows)) \/ During
                    /\ requests # <<>> => Before
                    /\ job.from = "client" => After \/ During
                    /\ responses # <<>> => After
       /\ seen.at # 12 /\ step_ \in {seen.at + 4, seen.at + 5} => After
       /\ responses # <<>> =>
             Writes \/ (step_ = seen.at + 1 /\ responses[1].data = seen.rows)

\* The scripts of the requests of a round.
LEMMA OwnScripts ==
  ASSUME NEW ids, ids \subseteq Id
  PROVE  /\ \A s \in {0, 4, 8, 12} : Scripts(RequestOf(s, InOrder(ids))) = <<>>
         /\ Scripts(RequestOf(6, InOrder(ids))) = << <<Insert1, Insert2>> >>
         /\ Scripts(RequestOf(10, InOrder(ids))) = << <<Set1>> >>
<1>1. \A s \in {0, 4, 8, 12} : Scripts(RequestOf(s, InOrder(ids))) = <<>>
  BY DEF RequestOf, Scripts
<1>2. Scripts(RequestOf(6, InOrder(ids))) = << <<Insert1, Insert2>> >>
  <2> DEFINE d == <<Named(1, Haidian), Named(2, Changping)>>
  <2>1. Scripts(RequestOf(6, InOrder(ids))) = << [i \in DOMAIN d |-> Stmt("insert", d[i])] >>
    BY DEF RequestOf, Scripts, OneScript
  <2>2. [i \in DOMAIN d |-> Stmt("insert", d[i])] = <<Insert1, Insert2>>
    BY DEF Insert1, Insert2
  <2>3. QED
    BY <2>1, <2>2
<1>3. Scripts(RequestOf(10, InOrder(ids))) = << <<Set1>> >>
  <2> DEFINE o == Named(1, Chaoyang)
             found == {i \in DOMAIN <<o>> : HasId(<<o>>[i])}
             Row(n) == [k \in 1..n |-> IF k = 1 THEN SetStatement(<<o>>[Min(found)]) ELSE SyntaxError]
  <2>1. Scripts(RequestOf(10, InOrder(ids))) = UpdateScripts(<<o>>)
    BY DEF RequestOf, Scripts
  <2>2. UpdateScripts(<<o>>) = [n \in 1..Cardinality(found) |-> Row(n)]
    BY DEF UpdateScripts
  <2>3. /\ 1 \in Id /\ 1 # NoId /\ Chaoyang # NoColumns
    BY SqliteTableAssumption, TestClientAssumption
  <2>4. found = {1}
    BY <2>3 DEF HasId, Named
  <2>5. Cardinality(found) = 1 /\ Min(found) = 1
    BY <2>4, FS_Singleton DEF Min
  <2>6. SetStatement(<<o>>[Min(found)]) = Set1
    BY <2>5 DEF Set1
  <2>7. Row(1) = <<Set1>>
    BY <2>6
  <2>8. [n \in 1..1 |-> Row(n)] = <<Row(1)>>
    OBVIOUS
  <2>9. QED
    BY <2>1, <2>2, <2>5, <2>7, <2>8
<1>4. QED
  BY <1>1, <1>2, <1>3

\* A delete of the rows that were read has a statement for each, in their order.
LEMMA OwnDelete ==
  ASSUME NEW ids, ids \subseteq Id
  PROVE  LET c == Scripts(RequestOf(2, InOrder(ids)))
         IN  \/ ids = {} /\ c = <<>>
             \/ /\ Len(c) = 1 /\ c[1] \in Seq(Statement) /\ c[1] # <<>>
                /\ \A k \in DOMAIN c[1] : c[1][k].op = "delete"
                /\ ids = {c[1][k].id : k \in DOMAIN c[1]}
                /\ \A k, m \in DOMAIN c[1] : k < m => c[1][k].id < c[1][m].id
<1> DEFINE q == InOrder(ids)
           n == Cardinality(ids)
           d == [i \in DOMAIN q |-> Named(q[i], NoColumns)]
           f == [i \in DOMAIN d |-> Stmt("delete", d[i])]
<1>1. /\ n \in Nat /\ q \in [1..n -> ids] /\ ids = {q[i] : i \in 1..n}
      /\ \A i, j \in 1..n : i < j => q[i] < q[j]
  BY InOrderSorts
<1>2. Scripts(RequestOf(2, q)) = OneScript("delete", d)
  BY DEF RequestOf, Scripts
<1> HIDE DEF q, n
<1>3. DOMAIN f = 1..n /\ \A k \in 1..n : f[k].op = "delete" /\ f[k].id = q[k]
  BY <1>1 DEF Stmt, Named
<1>4. \A k \in 1..n : Stmt("delete", d[k]) \in Statement
  <2>1. \A k \in 1..n : q[k] \in Id
    BY <1>1
  <2>2. QED
    BY <1>1, <2>1 DEF Statement, Stmt, Named
<1>5. f \in [1..n -> Statement] /\ DOMAIN d = 1..n
  BY <1>1, <1>4
<1>6. CASE n = 0
  <2>1. ids = {}
    BY <1>1, <1>6
  <2>2. d = <<>>
    BY <1>5, <1>6
  <2>3. QED
    BY <1>2, <2>1, <2>2 DEF OneScript, q
<1>7. CASE n # 0
  <2>1. d # <<>>
    BY <1>1, <1>5, <1>7
  <2>2. OneScript("delete", d) = <<f>>
    BY <2>1 DEF OneScript
  <2> HIDE DEF f
  <2>3. f \in Seq(Statement) /\ f # <<>>
    BY <1>1, <1>5, <1>7, SeqOf
  <2>4. ids = {f[k].id : k \in DOMAIN f}
    BY <1>1, <1>3
  <2>5. \A k, m \in DOMAIN f : k < m => f[k].id < f[m].id
    BY <1>1, <1>3
  <2>6. \A k \in DOMAIN f : f[k].op = "delete"
    BY <1>3
  <2> DEFINE c == Scripts(RequestOf(2, q))
  <2>7. Len(c) = 1 /\ c[1] = f
    BY <1>2, <2>2
  <2> HIDE DEF c
  <2>8. /\ Len(c) = 1 /\ c[1] \in Seq(Statement) /\ c[1] # <<>>
        /\ \A k \in DOMAIN c[1] : c[1][k].op = "delete"
        /\ ids = {c[1][k].id : k \in DOMAIN c[1]}
        /\ \A k, m \in DOMAIN c[1] : k < m => c[1][k].id < c[1][m].id
    BY <2>3, <2>4, <2>5, <2>6, <2>7
  <2>9. QED
    BY <2>8 DEF c, q
<1>8. QED
  BY <1>6, <1>7

LEMMA TailOf ==
  ASSUME NEW S, NEW q \in Seq(S), q # <<>>
  PROVE  /\ Tail(q) \in Seq(S)
         /\ \A k \in DOMAIN Tail(q) : Tail(q)[k] = q[k + 1] /\ k + 1 \in DOMAIN q
         /\ \A k \in DOMAIN q : k # 1 => k - 1 \in DOMAIN Tail(q) /\ Tail(q)[k - 1] = q[k]
         /\ Len(q) = 1 => Tail(q) = <<>>
<1>1. /\ Tail(q) \in Seq(S) /\ Len(q) \in Nat /\ DOMAIN q = 1..Len(q) /\ Len(q) # 0
      /\ Len(Tail(q)) = Len(q) - 1
      /\ \A k \in 1..Len(q) - 1 : Tail(q)[k] = q[k + 1]
  BY HeadTailProperties, EmptySeq
<1>2. DOMAIN Tail(q) = 1..Len(q) - 1
  BY <1>1
<1>3. \A k \in 1..Len(q) - 1 : k + 1 \in 1..Len(q)
  BY <1>1
<1>4. \A k \in 1..Len(q) : k = 1 \/ (k - 1 \in 1..Len(q) - 1 /\ (k - 1) + 1 = k)
  BY <1>1
<1> DEFINE t == Tail(q)
<1>5. /\ t \in Seq(S) /\ Len(t) = Len(q) - 1 /\ DOMAIN t = 1..Len(q) - 1
      /\ \A k \in 1..Len(q) - 1 : t[k] = q[k + 1]
  BY <1>1, <1>2
<1> HIDE DEF t
<1>6. Len(q) = 1 => t = <<>>
  BY <1>5, EmptySeq
<1>7. ASSUME NEW k \in DOMAIN q, k # 1
      PROVE  k - 1 \in DOMAIN t /\ t[k - 1] = q[k]
  <2>1. k - 1 \in 1..Len(q) - 1 /\ (k - 1) + 1 = k
    BY <1>1, <1>4, <1>7
  <2>2. t[k - 1] = q[(k - 1) + 1]
    BY <1>5, <2>1
  <2>3. QED
    BY <1>5, <1>7, <2>1, <2>2
<1>8. \A k \in DOMAIN t : t[k] = q[k + 1] /\ k + 1 \in DOMAIN q
  BY <1>1, <1>3, <1>5
<1>9. \A k \in DOMAIN q : k # 1 => k - 1 \in DOMAIN t /\ t[k - 1] = q[k]
  BY <1>7, Zenon
<1>10. QED
  BY <1>5, <1>6, <1>8, <1>9, Zenon DEF t

\* While rows are being deleted, those deleted are the first.
LEMMA DeletesPart ==
  ASSUME TypeOK, seen.rows # NoData, seen.at = 0, NEW q, Deletes(q)
  PROVE  WrittenPart(seen.rows)
<1>1. \A i \in Id : table[i] \in {seen.rows[i], NoRow}
  BY DEF Deletes
<1>2. ASSUME NEW i \in Id, NEW j \in Id, i < j, table[i] # NoRow
      PROVE  table[j] = seen.rows[j]
  <2>1. PICK k \in DOMAIN q : i = q[k].id
    BY <1>2 DEF Deletes, RowsIn
  <2>2. SUFFICES ASSUME table[j] # seen.rows[j]
                 PROVE  FALSE
    OBVIOUS
  <2>3. j \in RowsIn(seen.rows) \ RowsIn(table)
    BY <1>1, <2>2 DEF RowsIn
  <2>4. j < i
    BY <2>1, <2>3 DEF Deletes
  <2>5. i \in Int /\ j \in Int
    BY SqliteTableAssumption
  <2>6. QED
    BY <1>2, <2>4, <2>5
<1>3. QED
  BY <1>1, <1>2 DEF WrittenPart

LEMMA DuringPart ==
  ASSUME TypeOK, seen.rows # NoData, During
  PROVE  WrittenPart(seen.rows) /\ ~Idle
<1>1. WrittenPart(seen.rows)
  <2>1. CASE seen.at = 0
    BY <2>1, DeletesPart DEF During
  <2>2. CASE seen.at = 4
    BY <2>2 DEF During, WrittenPart
  <2>3. CASE seen.at = 8
    BY <2>3 DEF During, WrittenPart
  <2>4. QED
    BY <2>1, <2>2, <2>3 DEF During
<1>2. ~Idle
  BY DEF During, Idle
<1>3. QED
  BY <1>1, <1>2

LEMMA BeforePart ==
  ASSUME seen.at \in {0, 4, 8, 12}, Before
  PROVE  WrittenPart(seen.rows)
  BY DEF Before, WrittenPart

LEMMA RoundSays == TypeOK /\ Round => WritesInOrder
<1> SUFFICES ASSUME TypeOK, Round, seen.rows # NoData
             PROVE  /\ WrittenPart(seen.rows)
                    /\ seen.ok /\ step_ \in {seen.at + 4, seen.at + 5} => Written(seen.rows)
  BY DEF WritesInOrder
<1>1. InRound /\ step_ \in 0..13
  BY DEF Round, TypeOK
<1>2. CASE seen.at = 12 \/ step_ \in {seen.at + 1, seen.at + 2}
  <2>1. Before
    BY <1>2 DEF Round
  <2>2. seen.at \in {0, 4, 8, 12} /\ step_ \notin {seen.at + 4, seen.at + 5}
    BY <1>1, <1>2 DEF InRound
  <2>3. QED
    BY <2>1, <2>2, BeforePart
<1>3. CASE Writes
  <2>1. WrittenPart(seen.rows)
    BY <1>3, DuringPart DEF Round
  <2>2. step_ \notin {seen.at + 4, seen.at + 5}
    BY <1>3 DEF Writes
  <2>3. QED
    BY <2>1, <2>2
<1>4. CASE seen.at # 12 /\ step_ \in {seen.at + 4, seen.at + 5}
  BY <1>4 DEF Round, After
<1>5. QED
  BY <1>1, <1>2, <1>3, <1>4 DEF InRound, Writes

\* What depends on the table, the read and the job only.
LEMMA SameTable ==
  ASSUME UNCHANGED <<table, job, seen>>
  PROVE  /\ Idle' <=> Idle
         /\ Before' <=> Before
         /\ After' <=> After
         /\ During' <=> During
         /\ WrittenPart(seen.rows)' <=> WrittenPart(seen.rows)
<1>1. Idle' <=> Idle
  BY DEF Idle
<1>2. Before' <=> Before
  BY <1>1 DEF Before
<1>3. WrittenPart(seen.rows)' <=> WrittenPart(seen.rows)
  BY DEF WrittenPart
<1>4. Written(seen.rows)' <=> Written(seen.rows)
  BY DEF Written
<1>5. After' <=> After
  BY <1>1, <1>3, <1>4 DEF After
<1>6. During' <=> During
  <2>1. Deletes(job.scripts[1])' <=> Deletes(job.scripts[1])
    BY DEF Deletes, RowsIn
  <2>2. QED
    BY <2>1 DEF During
<1>7. QED
  BY <1>1, <1>2, <1>3, <1>5, <1>6

\* Steps that leave the round and the table where they are.
LEMMA RoundStays ==
  ASSUME Round, UNCHANGED <<table, job, step_, place_ids_, requests, responses, seen>>
  PROVE  Round'
<1>1. (InRound' <=> InRound) /\ (Writes' <=> Writes)
  BY DEF InRound, Writes
<1>2. RowsIn(seen.rows)' = RowsIn(seen.rows)
  BY DEF RowsIn
<1>3. QED
  BY <1>1, <1>2, SameTable DEF Round

\* What depends on the table and the read only, and on what is in hand.
LEMMA SamePart ==
  ASSUME UNCHANGED <<table, seen>>
  PROVE  /\ WrittenPart(seen.rows)' <=> WrittenPart(seen.rows)
         /\ Before' <=> Idle' /\ table = seen.rows
         /\ After' <=> Idle' /\ WrittenPart(seen.rows) /\ (seen.ok => Written(seen.rows))
<1>1. WrittenPart(seen.rows)' <=> WrittenPart(seen.rows)
  BY DEF WrittenPart
<1>2. Written(seen.rows)' <=> Written(seen.rows)
  BY DEF Written
<1>3. QED
  BY <1>1, <1>2 DEF Before, After

\* A request in hand writes at one step in the round, and reads at the others.
LEMMA StepsOfRound ==
  ASSUME InRound, step_ \in 0..13, Waiting
  PROVE  /\ step_ - 1 \in {0, 2, 4, 6, 8, 10, 12}
         /\ Writes <=> step_ - 1 \in {2, 6, 10}
         /\ Writes => step_ - 1 = seen.at + 2
<1>1. step_ \in {1, 3, 5, 7, 9, 11, 13}
  BY Parity DEF Waiting
<1>2. QED
  BY <1>1 DEF InRound, Writes

LEMMA AcceptRound ==
  ASSUME TypeOK, OneRequest, OwnRequest, Round, Accept
  PROVE  Round'
<1>1. /\ UNCHANGED <<table, step_, place_ids_, seen, responses>> /\ requests # <<>>
      /\ requests' = Tail(requests)
      /\ job' = [from |-> "client", id |-> Head(requests).id, req |-> Head(requests).req,
                 scripts |-> Scripts(Head(requests).req)]
  BY DEF Accept, Begin, clientVars
<1> SUFFICES ASSUME seen.rows # NoData
             PROVE  Round'
  BY <1>1 DEF Round
<1>2. Asked /\ Waiting /\ step_ \in 0..13
  BY <1>1 DEF OneRequest, NoneOpen, InJob, Answered
<1>3. requests' = <<>> /\ responses' = <<>>
  BY <1>1, <1>2 DEF Asked
<1>4. job'.from = "client" /\ job' # NoJob /\ job'.scripts = Scripts(Wanted)
  BY <1>1 DEF OwnRequest, NoJob
<1>5. InRound /\ InRound' /\ (Writes' <=> Writes) /\ RowsIn(seen.rows)' = RowsIn(seen.rows)
  BY <1>1 DEF Round, InRound, Writes, RowsIn
<1>6. place_ids_ \subseteq Id /\ table \in Table
  BY DEF TypeOK
<1>7. CASE ~Writes
  <2>1. step_ - 1 \in {0, 4, 8, 12}
    BY <1>2, <1>5, <1>7, StepsOfRound
  <2>2. job'.scripts = <<>>
    BY <1>4, <1>6, <2>1, OwnScripts DEF Wanted
  <2>3. Idle'
    BY <2>2 DEF Idle
  <2>4. (Before => Before') /\ (After => After')
    BY <1>1, <2>3, SamePart DEF Before, After
  <2>5. QED
    BY <1>1, <1>3, <1>5, <1>7, <2>4 DEF Round
<1>8. CASE Writes
  <2>1. Before /\ step_ - 1 = seen.at + 2 /\ seen.at \in {0, 4, 8}
    BY <1>1, <1>2, <1>5, <1>8, StepsOfRound DEF Round, Writes
  <2>2. table = seen.rows /\ WrittenPart(seen.rows)
    BY <2>1, BeforePart DEF Before
  <2>3. After' \/ During'
    <3>1. CASE seen.at = 0
      <4>1. step_ - 1 = 2 /\ step_ = 3
        BY <1>2, <2>1, <3>1
      <4>2. place_ids_ = RowsIn(table)
        BY <2>2, <3>1, <4>1 DEF Round
      <4> DEFINE c == job'.scripts
      <4>3. \/ place_ids_ = {} /\ c = <<>>
            \/ /\ Len(c) = 1 /\ c[1] \in Seq(Statement) /\ c[1] # <<>>
               /\ \A k \in DOMAIN c[1] : c[1][k].op = "delete"
               /\ place_ids_ = {c[1][k].id : k \in DOMAIN c[1]}
               /\ \A k, m \in DOMAIN c[1] : k < m => c[1][k].id < c[1][m].id
        BY <1>4, <1>6, <4>1, OwnDelete DEF Wanted
      <4> HIDE DEF c
      <4>4. CASE place_ids_ = {} /\ c = <<>>
        <5>1. Idle'
          BY <4>4 DEF Idle, c
        <5>2. Written(seen.rows)
          BY <1>6, <3>1, <4>2, <4>4 DEF Written, RowsIn, Table
        <5>3. QED
          BY <1>1, <2>2, <5>1, <5>2, SamePart
      <4>5. CASE /\ Len(c) = 1 /\ c[1] \in Seq(Statement) /\ c[1] # <<>>
                 /\ \A k \in DOMAIN c[1] : c[1][k].op = "delete"
                 /\ place_ids_ = {c[1][k].id : k \in DOMAIN c[1]}
                 /\ \A k, m \in DOMAIN c[1] : k < m => c[1][k].id < c[1][m].id
        <5>1. RowsIn(table)' = RowsIn(table) /\ RowsIn(seen.rows)' = RowsIn(table)
          BY <1>1, <2>2 DEF RowsIn
        <5>2. Deletes(job.scripts[1])'
          BY <1>1, <2>2, <4>2, <4>5, <5>1 DEF Deletes, c
        <5>3. QED
          BY <1>1, <1>4, <3>1, <4>5, <5>2 DEF During, c
      <4>6. QED
        BY <4>3, <4>4, <4>5
    <3>2. CASE seen.at = 4
      BY <1>1, <1>4, <1>6, <2>1, <2>2, <3>2, OwnScripts DEF During, Wanted
    <3>3. CASE seen.at = 8
      BY <1>1, <1>4, <1>6, <2>1, <2>2, <3>3, OwnScripts DEF During, Wanted
    <3>4. QED
      BY <2>1, <3>1, <3>2, <3>3
  <2>4. (Idle' /\ WrittenPart(seen.rows)') \/ During'
    BY <2>3 DEF After
  <2>5. /\ step_ = seen.at + 3 /\ seen.at # 12 /\ step_ \notin {seen.at + 1, seen.at + 2}
        /\ step_ \notin {seen.at + 4, seen.at + 5}
    BY <1>8 DEF Writes
  <2>6. seen.at = 0 /\ step_ \in {2, 3} => place_ids_ = RowsIn(seen.rows)
    BY DEF Round
  <2>7. QED
    BY <1>1, <1>3, <1>5, <2>3, <2>4, <2>5, <2>6 DEF Round
<1>9. QED
  BY <1>7, <1>8

\* A write has one script.
LEMMA DuringScript ==
  ASSUME TypeOK, During
  PROVE  /\ HasStmt /\ job \in JobSet /\ table \in Table
         /\ Script = job.scripts[1] /\ Tail(job.scripts) = <<>>
<1>1. job # NoJob /\ Len(job.scripts) = 1
  BY DEF During
<1>2. job \in JobSet /\ table \in Table
  BY <1>1 DEF TypeOK, JobSet
<1>3. job.scripts \in Seq(Seq(Statement) \ {<<>>}) /\ job.scripts # <<>>
  BY <1>1, <1>2 DEF JobSet
<1>4. Tail(job.scripts) = <<>>
  BY <1>1, <1>3, TailOf
<1>5. Script = job.scripts[1]
  BY <1>3 DEF Script
<1>6. QED
  BY <1>1, <1>2, <1>3, <1>4, <1>5 DEF HasStmt

\* One more row is deleted.
LEMMA DeleteOne ==
  ASSUME TypeOK, seen.rows # NoData, seen' = seen, NEW q, Deletes(q),
         table' = [table EXCEPT ![q[1].id] = NoRow]
  PROVE  /\ q[1].id \in Id
         /\ Tail(q) = <<>> => table' = [i \in Id |-> NoRow]
         /\ Tail(q) # <<>> => Deletes(Tail(q))'
<1> DEFINE z == Tail(q)
           x == q[1].id
<1>1. /\ q \in Seq(Statement) /\ q # <<>> /\ RowsIn(table) = {q[k].id : k \in DOMAIN q}
      /\ \A k \in DOMAIN q : q[k].op = "delete"
      /\ \A k, m \in DOMAIN q : k < m => q[k].id < q[m].id
      /\ \A i \in Id : table[i] \in {seen.rows[i], NoRow}
      /\ \A i \in RowsIn(seen.rows) \ RowsIn(table) : \A k \in DOMAIN q : i < q[k].id
  BY DEF Deletes
<1>2. /\ z \in Seq(Statement)
      /\ \A k \in DOMAIN z : z[k] = q[k + 1] /\ k + 1 \in DOMAIN q
      /\ \A k \in DOMAIN q : k # 1 => k - 1 \in DOMAIN z /\ z[k - 1] = q[k]
  BY <1>1, TailOf
<1>3. 1 \in DOMAIN q /\ DOMAIN z \subseteq Nat \ {0} /\ DOMAIN q \subseteq Nat
  BY <1>1, <1>2
<1>4. x \in Id /\ \A k \in DOMAIN q : q[k].id \in Id /\ q[k].id \in Int
  BY <1>1, <1>3, SqliteTableAssumption DEF RowsIn
<1>5. table \in Table /\ table' = [table EXCEPT ![x] = NoRow]
  BY DEF TypeOK
<1> HIDE DEF z, x
<1>6. \A i \in Id : table'[i] = IF i = x THEN NoRow ELSE table[i]
  BY <1>4, <1>5 DEF Table
<1>7. RowsIn(table)' = RowsIn(table) \ {x}
  BY <1>6 DEF RowsIn
<1>8. \A k \in DOMAIN z : z[k].id \in Int /\ x < z[k].id /\ z[k].op = "delete"
  <2>1. \A k \in DOMAIN z : k + 1 \in DOMAIN q /\ 1 < k + 1 /\ z[k] = q[k + 1]
    BY <1>2, <1>3
  <2>2. \A k \in DOMAIN q : 1 < k => q[1].id < q[k].id
    BY <1>1, <1>3
  <2>3. QED
    BY <1>1, <1>4, <2>1, <2>2 DEF x
<1>9. RowsIn(table)' = {z[k].id : k \in DOMAIN z}
  <2>1. ASSUME NEW i \in RowsIn(table)'
        PROVE  \E k \in DOMAIN z : i = z[k].id
    <3>1. PICK k \in DOMAIN q : i = q[k].id /\ k # 1
      BY <1>1, <1>7, <2>1 DEF x
    <3>2. QED
      BY <1>2, <3>1
  <2>2. ASSUME NEW k \in DOMAIN z
        PROVE  z[k].id \in RowsIn(table)'
    <3>1. z[k].id \in RowsIn(table)
      BY <1>1, <1>2
    <3>2. z[k].id # x
      BY <1>4, <1>8 DEF x
    <3>3. QED
      BY <1>7, <3>1, <3>2
  <2>3. QED
    BY <2>1, <2>2
<1>10. CASE z = <<>>
  <2>1. DOMAIN z = {}
    BY <1>10
  <2>2. RowsIn(table)' = {}
    BY <1>9, <2>1
  <2>3. \A i \in Id : table'[i] = NoRow
    BY <2>2 DEF RowsIn
  <2>4. table' = [i \in Id |-> table'[i]]
    BY <1>5 DEF Table
  <2>5. QED
    BY <1>4, <1>10, <2>3, <2>4 DEF x, z
<1>11. CASE z # <<>>
  <2>1. \A k, m \in DOMAIN z : k < m => z[k].id < z[m].id
    <3>1. \A k, m \in DOMAIN z : k < m => k + 1 < m + 1
      BY <1>3
    <3>2. QED
      BY <1>1, <1>2, <3>1
  <2>2. \A i \in Id : table'[i] \in {seen.rows[i], NoRow}
    BY <1>1, <1>6
  <2>3. ASSUME NEW i \in RowsIn(seen.rows), i \notin RowsIn(table)', NEW k \in DOMAIN z
        PROVE  i < z[k].id
    <3>1. CASE i = x
      BY <1>8, <3>1
    <3>2. CASE i # x
      <4>1. i \in RowsIn(seen.rows) \ RowsIn(table)
        BY <1>7, <2>3, <3>2
      <4>2. QED
        BY <1>1, <1>2, <4>1
    <3>3. QED
      BY <3>1, <3>2
  <2>4. RowsIn(seen.rows)' = RowsIn(seen.rows)
    BY DEF RowsIn
  <2>5. \A i \in RowsIn(seen.rows) \ RowsIn(table)' : \A k \in DOMAIN z : i < z[k].id
    BY <2>3
  <2>6. Deletes(z)'
    BY <1>2, <1>8, <1>9, <1>11, <2>1, <2>2, <2>4, <2>5 DEF Deletes
  <2>7. QED
    BY <1>4, <1>11, <2>6 DEF x, z
<1>12. QED
  BY <1>10, <1>11

LEMMA DuringExec ==
  ASSUME TypeOK, seen.rows # NoData, During, Exec, seen' = seen
  PROVE  After' \/ During'
<1>1. /\ job \in JobSet /\ table \in Table
      /\ Script = job.scripts[1] /\ Tail(job.scripts) = <<>>
  BY DuringScript
<1>2. table' = Effect(NextStmt) /\ Valid(NextStmt)
  BY DEF Exec
<1>3. \A x : <<x>> \o <<>> = <<x>> /\ <<x>> # <<>>
  OBVIOUS
<1>4. job'.scripts = IF Tail(Script) = <<>> THEN <<>> ELSE <<Tail(Script)>>
  BY <1>1, <1>3 DEF Exec, JobSet
<1>5. job' # NoJob
  <2>1. job.from \in {"client", "other"} /\ job'.from = job.from
    BY <1>1 DEF Exec, JobSet
  <2>2. QED
    BY <2>1 DEF NoJob
<1>6. /\ 1 \in Id /\ 2 \in Id /\ Haidian \in Value /\ Changping \in Value
      /\ Chaoyang \in Value /\ Chaoyang # NoColumns /\ NoRow \notin Value
  BY SqliteTableAssumption, TestClientAssumption
<1>7. job'.scripts = <<>> => Idle'
  BY DEF Idle
<1>8. seen.rows \in Table
  BY DEF TypeOK
<1>9. CASE seen.at = 0
  <2>1. PICK q : q = job.scripts[1] /\ Deletes(q)
    BY <1>9 DEF During
  <2>2. NextStmt = q[1] /\ q[1].op = "delete" /\ q[1] \in Statement
    <3>1. q \in Seq(Statement) /\ q # <<>> /\ \A k \in DOMAIN q : q[k].op = "delete"
      BY <2>1 DEF Deletes
    <3>2. 1 \in DOMAIN q /\ NextStmt = q[1]
      BY <1>1, <2>1, <3>1 DEF NextStmt
    <3>3. QED
      BY <3>1, <3>2
  <2>3. table' = [table EXCEPT ![q[1].id] = NoRow]
    BY <1>2, <2>2 DEF Effect
  <2>4. /\ Tail(q) = <<>> => table' = [i \in Id |-> NoRow]
        /\ Tail(q) # <<>> => Deletes(Tail(q))'
    BY <2>1, <2>3, DeleteOne
  <2>5. CASE Tail(q) = <<>>
    <3>1. Idle'
      BY <1>1, <1>4, <1>7, <2>1, <2>5
    <3>2. table' = [i \in Id |-> NoRow] /\ seen'.rows = seen.rows /\ seen'.at = 0
      BY <1>9, <2>4, <2>5
    <3>3. Written(seen.rows)' /\ WrittenPart(seen.rows)'
      BY <3>2 DEF Written, WrittenPart
    <3>4. QED
      BY <3>1, <3>3 DEF After
  <2>6. CASE Tail(q) # <<>>
    <3>1. job'.scripts = <<Tail(q)>>
      BY <1>1, <1>4, <2>1, <2>6
    <3>2. Len(job'.scripts) = 1 /\ job'.scripts[1] = Tail(q)
      BY <3>1
    <3>3. Deletes(job.scripts[1])'
      BY <2>4, <2>6, <3>2 DEF Deletes
    <3>4. QED
      BY <1>5, <1>9, <3>2, <3>3 DEF During
  <2>7. QED
    BY <2>5, <2>6
<1>10. CASE seen.at = 4 /\ table = seen.rows /\ job.scripts = << <<Insert1, Insert2>> >>
  <2>1. NextStmt = Insert1 /\ Tail(Script) = <<Insert2>>
    BY <1>1, <1>10 DEF NextStmt
  <2>2. job'.scripts = << <<Insert2>> >>
    BY <1>3, <1>4, <2>1
  <2>3. table[1] = NoRow /\ table' = [table EXCEPT ![1] = Haidian]
    BY <1>2, <2>1 DEF Valid, Effect, Insert1, Stmt, Named
  <2>4. QED
    BY <1>5, <1>10, <2>2, <2>3 DEF During
<1>11. CASE /\ seen.at = 4 /\ seen.rows[1] = NoRow
            /\ table = [seen.rows EXCEPT ![1] = Haidian] /\ job.scripts = << <<Insert2>> >>
  <2>1. NextStmt = Insert2 /\ Tail(Script) = <<>>
    BY <1>1, <1>11 DEF NextStmt
  <2>2. Idle'
    BY <1>4, <1>7, <2>1
  <2>3. table[2] = NoRow /\ table' = [table EXCEPT ![2] = Changping]
    BY <1>2, <2>1 DEF Valid, Effect, Insert2, Stmt, Named
  <2>4. seen.rows[2] = NoRow
    BY <1>6, <1>8, <1>11, <2>3 DEF Table
  <2>5. table' = [seen.rows EXCEPT ![1] = Haidian, ![2] = Changping]
    BY <1>11, <2>3
  <2>6. Written(seen.rows)' /\ WrittenPart(seen.rows)'
    BY <1>11, <2>4, <2>5 DEF Written, WrittenPart
  <2>7. QED
    BY <2>2, <2>6 DEF After
<1>12. CASE seen.at = 8 /\ table = seen.rows /\ job.scripts = << <<Set1>> >>
  <2>1. NextStmt = Set1 /\ Tail(Script) = <<>>
    BY <1>1, <1>12 DEF NextStmt
  <2>2. Idle'
    BY <1>4, <1>7, <2>1
  <2>3. Set1 = [op |-> "set", id |-> 1, value |-> Streamed[Chaoyang]]
    BY <1>6 DEF Set1, SetStatement, Named
  <2>4. table' = [table EXCEPT ![1] = IF @ = NoRow THEN NoRow ELSE Streamed[Chaoyang]]
    BY <1>2, <2>1, <2>3 DEF Effect
  <2>5. table' = Renamed(seen.rows)
    BY <1>12, <2>4 DEF Renamed
  <2>6. Renamed(seen.rows)' = Renamed(seen.rows)
    BY DEF Renamed
  <2>7. Written(seen.rows)' /\ WrittenPart(seen.rows)'
    BY <1>12, <2>5, <2>6 DEF Written, WrittenPart
  <2>8. QED
    BY <2>2, <2>7 DEF After
<1>13. QED
  BY <1>9, <1>10, <1>11, <1>12 DEF During

\* A statement that fails ends the write.
LEMMA DuringFail ==
  ASSUME TypeOK, seen.rows # NoData, During, ExecFail, seen' = [seen EXCEPT !.ok = FALSE]
  PROVE  After'
<1>1. job \in JobSet /\ Tail(job.scripts) = <<>>
  BY DuringScript
<1>2. Idle' /\ table' = table
  BY <1>1 DEF ExecFail, Idle, JobSet
<1>3. seen'.rows = seen.rows /\ seen'.at = seen.at /\ seen'.ok = FALSE
  BY DEF TypeOK
<1>4. WrittenPart(seen.rows)
  BY DuringPart
<1>5. WrittenPart(seen.rows)'
  BY <1>2, <1>3, <1>4 DEF WrittenPart, Renamed
<1>6. QED
  BY <1>2, <1>3, <1>5 DEF After

LEMMA ProcessRound ==
  ASSUME TypeOK, Round, Execute \/ Fail
  PROVE  Round'
<1>1. /\ UNCHANGED <<step_, place_ids_, requests, responses>>
      /\ Exec \/ ExecFail
      /\ seen' = seen \/ seen' = [seen EXCEPT !.ok = FALSE]
  BY DEF Execute, Fail, clientVars
<1>2. seen'.rows = seen.rows /\ seen'.at = seen.at
  BY <1>1 DEF TypeOK
<1> SUFFICES ASSUME seen.rows # NoData
             PROVE  Round'
  BY <1>2 DEF Round
<1>3. ~Idle
  BY <1>1 DEF Idle, Exec, ExecFail, HasStmt
<1>4. ~Before /\ ~After
  BY <1>3 DEF Before, After
<1>5. Writes /\ During /\ requests = <<>> /\ responses = <<>> /\ InRound
  BY <1>3, <1>4 DEF Round, InRound, Writes
<1>6. After' \/ During'
  <2>1. CASE Execute
    BY <1>5, <2>1, DuringExec DEF Execute
  <2>2. CASE Fail
    BY <1>5, <2>2, DuringFail DEF Fail
  <2>3. QED
    BY <2>1, <2>2
<1>7. (Idle' /\ WrittenPart(seen.rows)') \/ During'
  BY <1>6 DEF After
<1>8. InRound' /\ Writes' /\ RowsIn(seen.rows)' = RowsIn(seen.rows)
  BY <1>1, <1>2, <1>5 DEF InRound, Writes, RowsIn
<1>9. /\ step_ = seen.at + 3 /\ seen.at # 12 /\ step_ \notin {seen.at + 1, seen.at + 2}
      /\ step_ \notin {seen.at + 4, seen.at + 5}
  BY <1>5 DEF Writes
<1>10. seen.at = 0 /\ step_ \in {2, 3} => place_ids_ = RowsIn(seen.rows)
  BY DEF Round
<1>11. QED
  BY <1>1, <1>2, <1>5, <1>6, <1>7, <1>8, <1>9, <1>10 DEF Round

LEMMA RespondRound ==
  ASSUME TypeOK, OneRequest, OwnRequest, Round, Respond
  PROVE  Round'
<1> PICK r \in Replies :
       /\ responses' = IF job.from = "client" /\ Fits(r) THEN Append(responses, r) ELSE responses
       /\ See(r)
  BY DEF Respond
<1>1. /\ UNCHANGED <<table, step_, place_ids_, requests>> /\ job' = NoJob /\ job # NoJob
      /\ Idle /\ Idle' /\ job'.from # "client"
  BY DEF Respond, Ready, clientVars, Idle, NoJob
<1> SUFFICES ASSUME seen'.rows # NoData
             PROVE  Round'
  BY DEF Round
<1>2. ~During
  BY <1>1, DuringScript DEF Idle, HasStmt
<1>3. job.from = "client" => InJob /\ Waiting /\ step_ \in 0..13
  BY DEF OneRequest, NoneOpen, Asked, Answered
<1>4. job.from = "client" => job.req = RequestOf(step_ - 1, InOrder(place_ids_))
  BY DEF OwnRequest, Wanted
<1>5. Waiting /\ step_ \in 0..13 => step_ - 1 \in {0, 2, 4, 6, 8, 10, 12}
  BY Parity DEF Waiting
<1>6. CASE job.from = "client" /\ job.req.method = "read"
  <2>1. r.data # NoData /\ seen' = [at |-> job.id, rows |-> r.data, ok |-> TRUE]
    BY <1>6 DEF See, NoRead
  <2>2. r.data = table
    BY <1>6, <2>1 DEF Replies, Reply
  <2>3. step_ - 1 \in {0, 4, 8, 12} /\ step_ \in 0..13
    BY <1>3, <1>4, <1>5, <1>6 DEF RequestOf
  <2>4. seen'.rows = table /\ seen'.at = step_ - 1
    BY <1>3, <1>6, <2>1, <2>2 DEF InJob
  <2>5. Before'
    BY <1>1, <2>4 DEF Before
  <2>6. InRound' /\ ~Writes'
    BY <1>1, <2>3, <2>4 DEF InRound, Writes
  <2>7. /\ step_' = seen'.at + 1 /\ step_' \notin {2, 3}
        /\ step_' \notin {seen'.at + 4, seen'.at + 5}
    BY <1>1, <2>3, <2>4
  <2>8. responses' # <<>> => responses'[1].data = seen'.rows
    <3>1. responses' = Append(<<>>, r) \/ responses' = <<>>
      BY <1>3, <1>6 DEF InJob
    <3>2. Append(<<>>, r)[1] = r
      OBVIOUS
    <3>3. QED
      BY <2>1, <3>1, <3>2
  <2>9. QED
    BY <2>5, <2>6, <2>7, <2>8 DEF Round
<1>7. CASE ~(job.from = "client" /\ job.req.method = "read")
  <2>1. seen' = seen
    BY <1>7 DEF See
  <2>2. seen.rows # NoData
    BY <2>1
  <2>3. /\ InRound /\ InRound' /\ (Writes' <=> Writes)
        /\ RowsIn(seen.rows)' = RowsIn(seen.rows)
    BY <1>1, <2>1, <2>2 DEF Round, InRound, Writes, RowsIn
  <2>4. /\ Before => Before'
        /\ After => After'
        /\ WrittenPart(seen.rows) => WrittenPart(seen.rows)'
    BY <1>1, <2>1, SamePart DEF Before, After
  <2>5. CASE job.from = "client"
    <3>1. step_ - 1 \in {2, 6, 10} /\ requests = <<>>
      BY <1>3, <1>4, <1>5, <1>7, <2>5 DEF RequestOf, InJob
    <3>2. Writes
      BY <1>3, <2>3, <2>5, <3>1, StepsOfRound
    <3>3. After
      BY <1>2, <2>2, <2>5, <3>2 DEF Round
    <3>4. WrittenPart(seen.rows)' /\ After'
      BY <2>4, <3>3 DEF After
    <3>5. /\ seen.at # 12 /\ step_ \notin {seen.at + 1, seen.at + 2}
          /\ step_ \notin {seen.at + 4, seen.at + 5}
      BY <3>2 DEF Writes
    <3>6. seen.at = 0 /\ step_ \in {2, 3} => place_ids_ = RowsIn(seen.rows)
      BY <2>2 DEF Round
    <3>7. QED
      BY <1>1, <2>1, <2>3, <3>1, <3>2, <3>4, <3>5, <3>6 DEF Round
  <2>6. CASE job.from # "client"
    <3>1. responses' = responses
      BY <2>6
    <3>2. QED
      BY <1>1, <1>2, <2>1, <2>2, <2>3, <2>4, <3>1 DEF Round
  <2>7. QED
    BY <2>5, <2>6
<1>8. QED
  BY <1>6, <1>7

LEMMA ReceiveRound ==
  ASSUME TypeOK, OneRequest, Round, OnRecv
  PROVE  Round'
<1>1. /\ UNCHANGED <<table, job, seen, requests>> /\ responses # <<>>
      /\ responses' = Tail(responses)
      /\ place_ids_' = IF step_ = 1 THEN RowsOf(responses[1]) ELSE place_ids_
      /\ step_' = NextStep(step_)
  BY DEF OnRecv, tableVars
<1> SUFFICES ASSUME seen.rows # NoData
             PROVE  Round'
  BY <1>1 DEF Round
<1>2. Answered /\ step_ \in 0..13
  BY <1>1 DEF OneRequest, NoneOpen, Asked, InJob
<1>3. requests' = <<>> /\ responses' = <<>> /\ job'.from # "client"
  BY <1>1, <1>2 DEF Answered
<1>4. InRound /\ (Writes \/ (step_ = seen.at + 1 /\ responses[1].data = seen.rows))
  BY <1>1 DEF Round
<1>5. RowsIn(seen.rows)' = RowsIn(seen.rows)
  BY <1>1 DEF RowsIn
<1>6. CASE Writes
  <2>1. After'
    BY <1>1, <1>6, SameTable DEF Round
  <2>2. seen.at \in {0, 4, 8} /\ step_' = seen.at + 4
    BY <1>1, <1>6 DEF Writes, NextStep
  <2>3. /\ InRound' /\ ~Writes' /\ step_' \notin {2, 3}
        /\ step_' \notin {seen.at + 1, seen.at + 2} /\ seen.at # 12
    BY <1>1, <2>2 DEF InRound, Writes
  <2>4. QED
    BY <1>1, <1>3, <2>1, <2>3 DEF Round
<1>7. CASE step_ = seen.at + 1 /\ responses[1].data = seen.rows
  <2>1. Before'
    BY <1>1, <1>7, SameTable DEF Round
  <2>2. seen.at \in {0, 4, 8, 12}
    BY <1>4 DEF InRound
  <2>3. step_' = IF seen.at = 12 THEN 0 ELSE seen.at + 2
    BY <1>1, <1>7, <2>2 DEF NextStep
  <2>4. /\ InRound' /\ ~Writes'
        /\ step_' \notin {seen.at + 4, seen.at + 5}
    BY <1>1, <2>2, <2>3 DEF InRound, Writes
  <2>5. seen.at = 0 => place_ids_' = RowsIn(seen.rows)
    BY <1>1, <1>7 DEF RowsOf, RowsIn
  <2>6. QED
    BY <1>1, <1>3, <1>5, <2>1, <2>4, <2>5 DEF Round
<1>8. QED
  BY <1>4, <1>6, <1>7

LEMMA SendRound ==
  ASSUME OneRequest, Round, OnSendSkip \/ OnSendRequest
  PROVE  Round'
<1>1. /\ UNCHANGED <<table, job, place_ids_, responses, seen>> /\ step_' = step_ + 1
      /\ step_ \in 0..13 /\ ~Waiting
  <2>1. step_ = 2 => ~Waiting
    BY DEF Waiting
  <2>2. QED
    BY <2>1 DEF OnSendSkip, OnSendRequest, Skips, OneRequest, tableVars
<1> SUFFICES ASSUME seen.rows # NoData
             PROVE  Round'
  BY <1>1 DEF Round
<1>2. NoneOpen
  BY <1>1 DEF OneRequest
<1>3. responses' = <<>> /\ job'.from # "client"
  BY <1>1, <1>2 DEF NoneOpen
<1>4. step_ \in {0, 2, 4, 6, 8, 10, 12}
  BY <1>1, Parity DEF Waiting
<1>5. InRound /\ RowsIn(seen.rows)' = RowsIn(seen.rows)
  BY <1>1 DEF Round, RowsIn
<1>6. InRound' /\ (seen.at = 12 \/ step_ \in {seen.at + 2, seen.at + 4})
  BY <1>1, <1>4, <1>5 DEF InRound
<1>7. CASE seen.at = 12
  <2>1. Before' /\ ~Writes'
    BY <1>1, <1>7, SameTable DEF Round, Writes
  <2>2. QED
    BY <1>1, <1>3, <1>6, <1>7, <2>1 DEF Round
<1>8. CASE seen.at # 12 /\ step_ = seen.at + 2
  <2>1. Before /\ Before'
    BY <1>1, <1>8, SameTable DEF Round
  <2>2. seen.at \in {0, 4, 8}
    BY <1>5, <1>8 DEF InRound
  <2>3. Idle' /\ WrittenPart(seen.rows)'
    BY <1>1, <2>1, <2>2, BeforePart, SamePart DEF Before
  <2>4. seen.at = 0 => place_ids_ = RowsIn(seen.rows)
    BY <1>8 DEF Round
  <2>5. step_' \notin {seen.at + 1, seen.at + 2, seen.at + 4, seen.at + 5}
    BY <1>1, <1>8, <2>2
  <2>6. QED
    BY <1>1, <1>3, <1>5, <1>6, <1>8, <2>1, <2>3, <2>4, <2>5 DEF Round
<1>9. CASE seen.at # 12 /\ step_ = seen.at + 4
  <2>1. After'
    BY <1>1, <1>9, SameTable DEF Round
  <2>2. seen.at \in {0, 4, 8}
    BY <1>5, <1>9 DEF InRound
  <2>3. ~Writes' /\ step_' \notin {2, 3} /\ step_' \notin {seen.at + 1, seen.at + 2}
    BY <1>1, <1>9, <2>2 DEF Writes
  <2>4. QED
    BY <1>1, <1>3, <1>6, <1>9, <2>1, <2>3 DEF Round
<1>10. QED
  BY <1>6, <1>7, <1>8, <1>9

LEMMA LossRound ==
  ASSUME TypeOK, Round, Lose \/ Crash
  PROVE  Round'
<1>1. /\ UNCHANGED <<table, step_, place_ids_, seen>> /\ requests' = <<>> /\ responses' = <<>>
      /\ job'.from # "client"
      /\ Idle => Idle'
  <2>1. job' = NoJob \/ job' = job \/ job' = [job EXCEPT !.from = "other"]
    BY DEF Lose, Crash
  <2>2. Idle => Idle'
    <3>1. job = NoJob \/ job \in JobSet
      BY DEF TypeOK, JobSet
    <3>2. [job EXCEPT !.from = "other"].scripts = job.scripts
      BY <3>1 DEF JobSet, NoJob
    <3>3. NoJob.scripts = <<>>
      BY DEF NoJob
    <3>4. QED
      BY <2>1, <3>2, <3>3 DEF Idle
  <2>3. job'.from # "client"
    <3>1. job # NoJob => job.from \in {"client", "other"}
      BY DEF TypeOK
    <3>2. QED
      BY <3>1 DEF Lose, Crash, JobOpen, NoJob, TypeOK
  <2>4. QED
    BY <2>2, <2>3 DEF Lose, Crash, Down
<1> SUFFICES ASSUME seen.rows # NoData
             PROVE  Round'
  BY <1>1 DEF Round
<1>2. /\ InRound' /\ (Writes' <=> Writes) /\ RowsIn(seen.rows)' = RowsIn(seen.rows)
  BY <1>1 DEF Round, InRound, Writes, RowsIn
<1>3. /\ Before => Before'
      /\ After => After'
      /\ WrittenPart(seen.rows) => WrittenPart(seen.rows)'
  BY <1>1, SamePart DEF Before, After
<1>4. Writes => (Idle' /\ WrittenPart(seen.rows)') \/ During'
  <2> SUFFICES ASSUME Writes
               PROVE  (Idle' /\ WrittenPart(seen.rows)') \/ During'
    OBVIOUS
  <2>1. CASE Idle /\ WrittenPart(seen.rows)
    BY <1>1, <1>3, <2>1
  <2>2. CASE During /\ Crash
    <3>1. Idle'
      BY <2>2 DEF Crash, Idle
    <3>2. QED
      BY <1>3, <2>2, <3>1, DuringPart
  <2>3. CASE During /\ Lose
    <3>1. job \in JobSet
      BY <2>3, DuringScript
    <3>2. job'.scripts = job.scripts /\ job' # NoJob
      BY <2>3, <3>1 DEF Lose, JobOpen, JobSet, NoJob, During
    <3>3. Deletes(job.scripts[1])' <=> Deletes(job.scripts[1])
      BY <1>1, <3>2 DEF Deletes, RowsIn
    <3>4. During'
      BY <1>1, <2>3, <3>2, <3>3 DEF During
    <3>5. QED
      BY <3>4
  <2>4. QED
    BY <2>1, <2>2, <2>3 DEF Round
<1>5. QED
  BY <1>1, <1>2, <1>3, <1>4 DEF Round

LEMMA RoundNext ==
  ASSUME TypeOK, OneRequest, OwnRequest, Round, [Next]_vars
  PROVE  Round'
<1>1. CASE Accept
  BY <1>1, AcceptRound
<1>2. CASE Execute \/ Fail
  BY <1>2, ProcessRound
<1>3. CASE Respond
  BY <1>3, RespondRound
<1>4. CASE OnRecv
  BY <1>4, ReceiveRound
<1>5. CASE OnSendSkip \/ OnSendRequest
  BY <1>5, SendRound
<1>6. CASE Lose \/ Crash
  BY <1>6, LossRound
<1>7. CASE Other
  BY <1>7 DEF Other, NoRead, Round
<1>8. CASE Session \/ OnSendIdle \/ OnSendWait \/ OnSendEnd \/ Connect \/ UNCHANGED vars
  <2>1. UNCHANGED <<table, job, step_, place_ids_, requests, responses, seen>>
    BY <1>8 DEF Session, SessionBegin, OnSession, SessionRequest, OnSendIdle, OnSendWait, OnSendEnd,
                Connect, vars, tableVars, clientVars
  <2>2. QED
    BY <2>1, RoundStays
<1>9. QED
  BY <1>1, <1>2, <1>3, <1>4, <1>5, <1>6, <1>7, <1>8 DEF Next, Send, Process

\* What the client's writes leave, whatever the table, the rows in it and the text
\* that jgb streams for a name: a first part of the write, wherever statements fail
\* and connections and the server are lost, and all of it when the next read is sent
\* unless a statement failed (test-client.h:28-129, sqlite_callback.h:29-76, 80-236).
THEOREM RoundWrites == Spec => []WritesInOrder
<1>1. Init => OwnRequest /\ Round
  <2>1. Init => OwnRequest
    BY DEF Init, OwnRequest, NoJob
  <2>2. Init => Round
    BY DEF Init, NoRead, Round
  <2>3. QED
    BY <2>1, <2>2
<1>2. Spec => [](OwnRequest /\ Round)
  BY <1>1, TypeCorrect, OneRequestAlways, OwnRequestNext, RoundNext, PTL DEF Spec
<1>3. QED
  BY <1>2, TypeCorrect, RoundSays, PTL
=============================================================================
