---------------------- MODULE EnsureCredentialsProofs ----------------------
(***************************************************************************)
(* Theorems about EnsureCredentials.tla, for any number of accounts,       *)
(* objects and calls.                                                      *)
(*                                                                         *)
(* The inductive invariant is the conjunction of the invariants that the   *)
(* runs check.  What they say of the queue is gathered in QueueOK, stated  *)
(* of any queue and any state of the calls, so that each way a handler     *)
(* changes the queue is one lemma.                                         *)
(***************************************************************************)
EXTENDS EnsureCredentials, FiniteSetTheorems, SequenceTheorems, TLAPS

QueueOK(q, cl) ==
    /\ q \in Seq(Task)
    /\ \A i, j \in DOMAIN q : IdOf[q[i].object] = IdOf[q[j].object] => i = j
    /\ \A c \in Calls : cl[c].state = "waiting" => \E i \in DOMAIN q : c \in q[i].calls
    /\ \A i \in DOMAIN q : \A c \in q[i].calls :
          cl[c].state = "waiting" /\ IdOf[cl[c].object] = IdOf[q[i].object]
    /\ \A i \in DOMAIN q : q[i].priority = "high" <=> q[i].calls # {}

\* The invariant of the queue, the flag, the worker thread and the calls.
Inv ==
    /\ TypeOK
    /\ HeadIsChecked
    /\ OneTaskPerId
    /\ CallsQueuedOnce
    /\ PriorityTracksClients
    /\ NeverIdleWithWork
    /\ OneObjectPerId(exported)

\* The flag and the worker thread, and what they say of the head.
WorkerOK ==
    /\ running \in BOOLEAN
    /\ check \in Check \cup {None}
    /\ HeadIsChecked
    /\ NeverIdleWithWork

\* What no handler of the queue touches but by one assignment.
RestOK ==
    /\ exported \subseteq Objects
    /\ OneObjectPerId(exported)
    /\ unborn \subseteq Objects
    /\ attention \in [Objects -> BOOLEAN]
    /\ credentials \in [Ids -> {"valid", "expired"}]
    /\ netTimer \in BOOLEAN
    /\ call \in [Calls -> Call]

\* The invariant in three parts: each handler disturbs them by other means.
LEMMA InvIsQueueOK == Inv <=> QueueOK(queue, call) /\ WorkerOK /\ RestOK
  BY DEF Inv, TypeOK, OneTaskPerId, CallsQueuedOnce, PriorityTracksClients, QueueOK,
         Waiting, WorkerOK, RestOK

\* The same of the next state, in the direction that the steps below need.
LEMMA InvIsQueueOKNext == QueueOK(queue', call') /\ WorkerOK' /\ RestOK' => Inv'
<1>1. (QueueOK(queue, call) /\ WorkerOK /\ RestOK)' => Inv'
  BY InvIsQueueOK, PTL
<1> QED BY <1>1

\* Sorting the queue keeps what is in it.
LEMMA SortedQueueOK ==
    ASSUME NEW q, NEW cl, QueueOK(q, cl), NEW r \in Sorted(q)
    PROVE  QueueOK(r, cl) /\ Len(r) = Len(q)
<1>1. PICK p \in StableOrders(q) : r = [i \in DOMAIN q |-> q[p[i]]]
  BY DEF Sorted
<1>2. /\ q \in Seq(Task)
      /\ DOMAIN q = 1..Len(q)
      /\ Len(q) \in Nat
      /\ \A i \in DOMAIN q : q[i] \in Task
  BY DEF QueueOK
<1>3. /\ p \in [DOMAIN q -> DOMAIN q]
      /\ \A k \in DOMAIN q : \E i \in DOMAIN q : p[i] = k
  BY <1>1 DEF StableOrders
<1>4. \A i, j \in DOMAIN q : p[i] = p[j] => i = j
  <2>1. ASSUME NEW i \in DOMAIN q, NEW j \in DOMAIN q, i < j
        PROVE  p[i] # p[j]
    <3>1. \/ q[p[i]].priority = "high" /\ q[p[j]].priority = "low"
          \/ q[p[i]].priority = q[p[j]].priority /\ p[i] < p[j]
      BY <1>1, <2>1 DEF StableOrders
    <3>2. p[i] \in Int /\ p[j] \in Int
      BY <1>2, <1>3
    <3> QED BY <3>1, <3>2
  <2> QED BY <2>1, <1>2
<1>5. /\ DOMAIN r = DOMAIN q
      /\ \A i \in DOMAIN q : r[i] = q[p[i]]
  BY <1>1
<1>6. r \in Seq(Task) /\ Len(r) = Len(q)
  <2>1. r \in [1..Len(q) -> Task]
    BY <1>1, <1>2, <1>3
  <2> QED BY <2>1, <1>2
<1>7. \A i, j \in DOMAIN r : IdOf[r[i].object] = IdOf[r[j].object] => i = j
  <2>1. \A i, j \in DOMAIN q : IdOf[q[i].object] = IdOf[q[j].object] => i = j
    BY DEF QueueOK
  <2> SUFFICES ASSUME NEW i \in DOMAIN q, NEW j \in DOMAIN q,
                      IdOf[q[p[i]].object] = IdOf[q[p[j]].object]
               PROVE  i = j
    BY <1>5
  <2>2. p[i] = p[j]
    BY <1>3, <2>1
  <2> QED BY <1>4, <2>2
<1>8. \A c \in Calls : cl[c].state = "waiting" => \E i \in DOMAIN r : c \in r[i].calls
  BY <1>3, <1>5 DEF QueueOK
<1>9. \A i \in DOMAIN r : \A c \in r[i].calls :
        cl[c].state = "waiting" /\ IdOf[cl[c].object] = IdOf[r[i].object]
  BY <1>3, <1>5 DEF QueueOK
<1>10. \A i \in DOMAIN r : r[i].priority = "high" <=> r[i].calls # {}
  BY <1>3, <1>5 DEF QueueOK
<1> QED BY <1>6, <1>7, <1>8, <1>9, <1>10 DEF QueueOK

\* A task of high priority for a new call on a new id joins the queue.
LEMMA AppendQueueOK ==
    ASSUME NEW q, NEW cl, NEW cl2, QueueOK(q, cl), NEW o \in Objects, NEW c \in Calls,
           PositionsOf(q, IdOf[o]) = {},
           cl[c].state # "waiting",
           cl2[c].state = "waiting", cl2[c].object = o,
           \A d \in Calls \ {c} : cl2[d] = cl[d]
    PROVE  QueueOK(Append(q, NewTask(o, "high", {c})), cl2)
<1> DEFINE t == NewTask(o, "high", {c})
           r == Append(q, t)
<1>1. q \in Seq(Task) /\ Len(q) \in Nat /\ DOMAIN q = 1..Len(q)
  BY DEF QueueOK
<1>2. t \in Task /\ t.object = o /\ t.priority = "high" /\ t.calls = {c}
  BY DEF Task, NewTask
<1>3. /\ r \in Seq(Task)
      /\ DOMAIN r = 1..(Len(q) + 1)
      /\ \A i \in DOMAIN q : r[i] = q[i]
      /\ r[Len(q) + 1] = t
  BY <1>1, <1>2, AppendProperties, LenProperties
<1> HIDE DEF t, r
<1>4. \A i \in DOMAIN r : i \in DOMAIN q \/ i = Len(q) + 1
  BY <1>1, <1>3
<1>5. \A i \in DOMAIN q : IdOf[q[i].object] # IdOf[o]
  BY DEF PositionsOf
<1>6. \A i, j \in DOMAIN r : IdOf[r[i].object] = IdOf[r[j].object] => i = j
  <2>1. \A i, j \in DOMAIN q : IdOf[q[i].object] = IdOf[q[j].object] => i = j
    BY DEF QueueOK
  <2> QED BY <2>1, <1>2, <1>3, <1>4, <1>5
<1>7. \A i \in DOMAIN q : \A d \in q[i].calls : d # c /\ d \in Calls
  <2> TAKE i \in DOMAIN q
  <2>1. q[i] \in Task
    BY <1>1, ElementOfSeq
  <2>2. q[i].calls \subseteq Calls
    BY <2>1 DEF Task
  <2> QED BY <2>2 DEF QueueOK
<1>8. \A d \in Calls : cl2[d].state = "waiting" => \E i \in DOMAIN r : d \in r[i].calls
  <2> TAKE d \in Calls
  <2>1. CASE d = c
    BY <2>1, <1>1, <1>2, <1>3
  <2>2. CASE d # c
    <3>1. cl2[d].state = "waiting" => \E i \in DOMAIN q : d \in q[i].calls
      BY <2>2 DEF QueueOK
    <3> QED BY <3>1, <1>1, <1>3
  <2> QED BY <2>1, <2>2
<1>9. \A i \in DOMAIN r : \A d \in r[i].calls :
        cl2[d].state = "waiting" /\ IdOf[cl2[d].object] = IdOf[r[i].object]
  <2> TAKE i \in DOMAIN r
  <2>1. CASE i \in DOMAIN q
    <3>1. \A d \in q[i].calls :
            cl[d].state = "waiting" /\ IdOf[cl[d].object] = IdOf[q[i].object]
      BY <2>1 DEF QueueOK
    <3>2. \A d \in q[i].calls : cl2[d] = cl[d]
      BY <2>1, <1>7
    <3> QED BY <3>1, <3>2, <2>1, <1>3
  <2>2. CASE i = Len(q) + 1
    BY <2>2, <1>2, <1>3
  <2> QED BY <2>1, <2>2, <1>4
<1>10. \A i \in DOMAIN r : r[i].priority = "high" <=> r[i].calls # {}
  <2>1. \A i \in DOMAIN q : q[i].priority = "high" <=> q[i].calls # {}
    BY DEF QueueOK
  <2> QED BY <2>1, <1>2, <1>3, <1>4
<1> QED BY <1>3, <1>6, <1>8, <1>9, <1>10 DEF QueueOK, r, t

\* A new call joins the task of its id.
LEMMA CoalesceQueueOK ==
    ASSUME NEW q, NEW cl, NEW cl2, QueueOK(q, cl), NEW c \in Calls,
           NEW o \in Objects, NEW i \in PositionsOf(q, IdOf[o]),
           cl[c].state # "waiting",
           cl2[c].state = "waiting", cl2[c].object = o,
           \A d \in Calls \ {c} : cl2[d] = cl[d]
    PROVE  /\ QueueOK(Coalesce(q, i, c), cl2)
           /\ Len(Coalesce(q, i, c)) = Len(q)
           /\ \A j \in DOMAIN q : Coalesce(q, i, c)[j].object = q[j].object
<1> DEFINE r == Coalesce(q, i, c)
           t == [q[i] EXCEPT !.priority = "high", !.calls = @ \cup {c}]
<1>1. q \in Seq(Task) /\ Len(q) \in Nat /\ DOMAIN q = 1..Len(q)
  BY DEF QueueOK
<1>2. i \in DOMAIN q /\ q[i] \in Task /\ IdOf[q[i].object] = IdOf[o]
  BY <1>1 DEF PositionsOf
<1>3. /\ t \in Task
      /\ t.object = q[i].object
      /\ t.priority = "high"
      /\ t.calls = q[i].calls \cup {c}
  BY <1>2 DEF Task
<1>4. r = [q EXCEPT ![i] = t]
  BY <1>1, <1>2 DEF Coalesce
<1>5. /\ r \in Seq(Task)
      /\ DOMAIN r = DOMAIN q
      /\ Len(r) = Len(q)
      /\ r[i] = t
      /\ \A j \in DOMAIN q : j # i => r[j] = q[j]
  BY <1>1, <1>2, <1>3, <1>4, ExceptSeq, LenProperties
<1>6. \A j \in DOMAIN q : r[j].object = q[j].object
  BY <1>3, <1>5
<1>7. \A j, k \in DOMAIN r : IdOf[r[j].object] = IdOf[r[k].object] => j = k
  BY <1>5, <1>6 DEF QueueOK
<1>8. \A j \in DOMAIN q : \A d \in q[j].calls : d # c /\ d \in Calls
  <2> TAKE j \in DOMAIN q
  <2>1. q[j] \in Task
    BY <1>1, ElementOfSeq
  <2>2. q[j].calls \subseteq Calls
    BY <2>1 DEF Task
  <2> QED BY <2>2 DEF QueueOK
<1>9. \A d \in Calls : cl2[d].state = "waiting" => \E j \in DOMAIN r : d \in r[j].calls
  <2> TAKE d \in Calls
  <2>1. CASE d = c
    BY <2>1, <1>2, <1>3, <1>5
  <2>2. CASE d # c
    <3>1. cl2[d].state = "waiting" => \E j \in DOMAIN q : d \in q[j].calls
      BY <2>2 DEF QueueOK
    <3>2. \A j \in DOMAIN q : q[j].calls \subseteq r[j].calls
      BY <1>3, <1>5
    <3> QED BY <3>1, <3>2, <1>5
  <2> QED BY <2>1, <2>2
<1>10. \A j \in DOMAIN r : \A d \in r[j].calls :
         cl2[d].state = "waiting" /\ IdOf[cl2[d].object] = IdOf[r[j].object]
  <2> TAKE j \in DOMAIN r
  <2>1. \A d \in q[j].calls :
          cl2[d].state = "waiting" /\ IdOf[cl2[d].object] = IdOf[q[j].object]
    <3>1. \A d \in q[j].calls :
            cl[d].state = "waiting" /\ IdOf[cl[d].object] = IdOf[q[j].object]
      BY <1>5 DEF QueueOK
    <3>2. \A d \in q[j].calls : cl2[d] = cl[d]
      BY <1>5, <1>8
    <3> QED BY <3>1, <3>2
  <2>2. CASE j = i
    BY <2>1, <2>2, <1>2, <1>3, <1>5
  <2>3. CASE j # i
    BY <2>1, <2>3, <1>5
  <2> QED BY <2>2, <2>3
<1>11. \A j \in DOMAIN r : r[j].priority = "high" <=> r[j].calls # {}
  <2>1. \A j \in DOMAIN q : q[j].priority = "high" <=> q[j].calls # {}
    BY DEF QueueOK
  <2> QED BY <2>1, <1>3, <1>5
<1> QED BY <1>5, <1>6, <1>7, <1>9, <1>10, <1>11 DEF QueueOK

\* The daemon's own checks u join the queue, for ids that were not in it.
LEMMA BackgroundQueueOK ==
    ASSUME NEW q, NEW cl, QueueOK(q, cl), NEW u \in Seq(Task),
           \A i \in DOMAIN u : u[i].priority = "low" /\ u[i].calls = {},
           \A i, j \in DOMAIN u : IdOf[u[i].object] = IdOf[u[j].object] => i = j,
           \A i \in DOMAIN u : PositionsOf(q, IdOf[u[i].object]) = {}
    PROVE  QueueOK(q \o u, cl) /\ \A i \in DOMAIN q : i \in DOMAIN (q \o u) /\ (q \o u)[i] = q[i]
<1> DEFINE r == q \o u
           n == Len(u)
<1>1. q \in Seq(Task) /\ Len(q) \in Nat /\ DOMAIN q = 1..Len(q)
  BY DEF QueueOK
<1>2. n \in Nat /\ DOMAIN u = 1..n
  BY LenProperties
<1> HIDE DEF n
<1>4. /\ r \in Seq(Task)
      /\ DOMAIN r = 1..(Len(q) + n)
      /\ \A i \in DOMAIN q : i \in DOMAIN r /\ r[i] = q[i]
      /\ \A i \in DOMAIN r : i \notin DOMAIN q => i - Len(q) \in 1..n /\ r[i] = u[i - Len(q)]
  <2>1. /\ r \in Seq(Task)
        /\ Len(r) = Len(q) + n
        /\ \A i \in 1..(Len(q) + n) : r[i] = IF i <= Len(q) THEN q[i] ELSE u[i - Len(q)]
    BY <1>1, ConcatProperties DEF n
  <2>2. DOMAIN r = 1..(Len(q) + n)
    BY <2>1, LenProperties
  <2> HIDE DEF r
  <2> QED BY <2>1, <2>2, <1>1, <1>2
<1> HIDE DEF r
<1>5. \A i \in DOMAIN q, k \in 1..n : IdOf[q[i].object] # IdOf[u[k].object]
  BY <1>2 DEF PositionsOf
<1>6. \A i, j \in DOMAIN r : IdOf[r[i].object] = IdOf[r[j].object] => i = j
  <2>1. \A i, j \in DOMAIN q : IdOf[q[i].object] = IdOf[q[j].object] => i = j
    BY DEF QueueOK
  <2> TAKE i, j \in DOMAIN r
  <2>2. i \in Int /\ j \in Int
    BY <1>1, <1>4
  <2>3. CASE i \in DOMAIN q /\ j \in DOMAIN q
    BY <2>1, <2>3, <1>4
  <2>4. CASE i \in DOMAIN q /\ j \notin DOMAIN q
    BY <2>4, <1>2, <1>4, <1>5
  <2>5. CASE i \notin DOMAIN q /\ j \in DOMAIN q
    BY <2>5, <1>2, <1>4, <1>5
  <2>6. CASE i \notin DOMAIN q /\ j \notin DOMAIN q
    <3>1. /\ i - Len(q) \in 1..n /\ r[i].object = u[i - Len(q)].object
          /\ j - Len(q) \in 1..n /\ r[j].object = u[j - Len(q)].object
      BY <2>6, <1>2, <1>4
    <3> QED BY <3>1, <2>2, <1>1, <1>2
  <2> QED BY <2>3, <2>4, <2>5, <2>6
<1>7. \A d \in Calls : cl[d].state = "waiting" => \E i \in DOMAIN r : d \in r[i].calls
  <2>1. \A d \in Calls : cl[d].state = "waiting" => \E i \in DOMAIN q : d \in q[i].calls
    BY DEF QueueOK
  <2> QED BY <2>1, <1>4
<1>8. \A i \in DOMAIN r : \A d \in r[i].calls :
        cl[d].state = "waiting" /\ IdOf[cl[d].object] = IdOf[r[i].object]
  <2>1. \A i \in DOMAIN q : \A d \in q[i].calls :
          cl[d].state = "waiting" /\ IdOf[cl[d].object] = IdOf[q[i].object]
    BY DEF QueueOK
  <2> QED BY <2>1, <1>2, <1>4
<1>9. \A i \in DOMAIN r : r[i].priority = "high" <=> r[i].calls # {}
  <2>1. \A i \in DOMAIN q : q[i].priority = "high" <=> q[i].calls # {}
    BY DEF QueueOK
  <2> QED BY <2>1, <1>2, <1>4
<1> QED BY <1>4, <1>6, <1>7, <1>8, <1>9 DEF QueueOK, r

\* The task at the head is answered and leaves.
LEMMA TailQueueOK ==
    ASSUME NEW q, NEW cl, NEW cl2, QueueOK(q, cl), q # <<>>,
           \A c \in Head(q).calls : cl2[c].state # "waiting",
           \A c \in Calls \ Head(q).calls : cl2[c] = cl[c]
    PROVE  QueueOK(Tail(q), cl2)
<1> DEFINE r == Tail(q)
<1>1. q \in Seq(Task) /\ Len(q) \in Nat /\ DOMAIN q = 1..Len(q) /\ Len(q) > 0
  <2>1. q \in Seq(Task)
    BY DEF QueueOK
  <2> QED BY <2>1, EmptySeq, LenProperties
<1>2. /\ r \in Seq(Task)
      /\ DOMAIN r = 1..(Len(q) - 1)
      /\ \A i \in DOMAIN r : i + 1 \in DOMAIN q /\ i + 1 # 1 /\ r[i] = q[i + 1]
  BY <1>1, HeadTailProperties, LenProperties
<1>3. 1 \in DOMAIN q /\ Head(q) = q[1]
  BY <1>1
<1> HIDE DEF r
<1>4. \A i, j \in DOMAIN q : IdOf[q[i].object] = IdOf[q[j].object] => i = j
  BY DEF QueueOK
<1>5. \A i \in DOMAIN q : \A c \in q[i].calls :
        /\ c \in Calls
        /\ cl[c].state = "waiting"
        /\ IdOf[cl[c].object] = IdOf[q[i].object]
  <2> TAKE i \in DOMAIN q
  <2>1. q[i] \in Task
    BY <1>1, ElementOfSeq
  <2>2. q[i].calls \subseteq Calls
    BY <2>1 DEF Task
  <2> QED BY <2>2 DEF QueueOK
<1>6. \A i \in DOMAIN q : i # 1 => \A c \in q[i].calls : c \notin q[1].calls
  BY <1>3, <1>4, <1>5
<1>7. \A i, j \in DOMAIN r : IdOf[r[i].object] = IdOf[r[j].object] => i = j
  <2> TAKE i, j \in DOMAIN r
  <2>1. i \in Int /\ j \in Int
    BY <1>1, <1>2
  <2> QED BY <2>1, <1>2, <1>4
<1>8. \A c \in Calls : cl2[c].state = "waiting" => \E i \in DOMAIN r : c \in r[i].calls
  <2> SUFFICES ASSUME NEW c \in Calls, cl2[c].state = "waiting"
               PROVE  \E i \in DOMAIN r : c \in r[i].calls
    OBVIOUS
  <2>1. c \notin q[1].calls /\ cl[c].state = "waiting"
    BY <1>3
  <2>2. PICK k \in DOMAIN q : c \in q[k].calls
    BY <2>1 DEF QueueOK
  <2>3. k # 1 /\ k \in 1..Len(q)
    BY <2>1, <2>2, <1>1
  <2>4. k - 1 \in DOMAIN r /\ (k - 1) + 1 = k
    BY <2>3, <1>1, <1>2
  <2>5. r[k - 1] = q[k]
    BY <2>4, <1>2
  <2> QED BY <2>2, <2>4, <2>5
<1>9. \A i \in DOMAIN r : \A c \in r[i].calls :
        cl2[c].state = "waiting" /\ IdOf[cl2[c].object] = IdOf[r[i].object]
  <2> SUFFICES ASSUME NEW i \in DOMAIN r, NEW c \in r[i].calls
               PROVE  cl2[c].state = "waiting" /\ IdOf[cl2[c].object] = IdOf[r[i].object]
    OBVIOUS
  <2>1. r[i] = q[i + 1] /\ i + 1 \in DOMAIN q /\ i + 1 # 1
    BY <1>2
  <2>2. c \in Calls /\ c \notin q[1].calls
    BY <2>1, <1>5, <1>6
  <2>3. cl2[c] = cl[c]
    BY <2>2, <1>3
  <2> QED BY <2>1, <2>3, <1>5
<1>10. \A i \in DOMAIN r : r[i].priority = "high" <=> r[i].calls # {}
  <2>1. \A i \in DOMAIN q : q[i].priority = "high" <=> q[i].calls # {}
    BY DEF QueueOK
  <2> QED BY <2>1, <1>2
<1> QED BY <1>2, <1>7, <1>8, <1>9, <1>10 DEF QueueOK, r

\* Starting the next task of a good queue, or resting when there is none.
LEMMA StartNextOK ==
    ASSUME NEW q, QueueOK(q, call'), StartNext(q)
    PROVE  QueueOK(queue', call') /\ WorkerOK'
<1>1. CASE q = <<>>
  BY <1>1 DEF StartNext, WorkerOK, HeadIsChecked, NeverIdleWithWork
<1>2. CASE q # <<>>
  <2>1. queue' \in Sorted(q) /\ running' = TRUE /\ check' = NewCheck(Head(queue').object)
    BY <1>2 DEF StartNext
  <2>2. QueueOK(queue', call') /\ Len(queue') = Len(q)
    BY <2>1, SortedQueueOK
  <2>3. queue' \in Seq(Task) /\ q \in Seq(Task)
    BY <2>2 DEF QueueOK
  <2>4. queue' # <<>>
    BY <2>2, <2>3, <1>2, EmptySeq
  <2>5. Head(queue').object \in Objects
    <3>1. Head(queue') \in Task
      BY <2>3, <2>4, HeadTailProperties
    <3> QED BY <3>1 DEF Task
  <2>6. check' \in Check /\ check'.object = Head(queue').object
    BY <2>1, <2>5 DEF NewCheck, Check, Answers
  <2>7. check' # None
    BY <2>6, NoneAssumption
  <2> QED BY <2>1, <2>2, <2>4, <2>6, <2>7
          DEF WorkerOK, HeadIsChecked, NeverIdleWithWork
<1> QED BY <1>1, <1>2

\* A handler that leaves the task being checked at the head of q, and then
\* looks at the queue.
LEMMA QueueCheckOK ==
    ASSUME WorkerOK, NEW q, QueueOK(q, call'),
           queue # <<>> => q # <<>> /\ Head(q).object = Head(queue).object,
           QueueCheck(q)
    PROVE  QueueOK(queue', call') /\ WorkerOK'
<1>1. CASE running
  BY <1>1 DEF QueueCheck, WorkerOK, HeadIsChecked, NeverIdleWithWork
<1>2. CASE ~running
  BY <1>2, StartNextOK DEF QueueCheck
<1> QED BY <1>1, <1>2

\* The invariant holds at first.
LEMMA InitInv == Init => Inv
<1> SUFFICES ASSUME Init PROVE QueueOK(queue, call) /\ WorkerOK /\ RestOK
  BY InvIsQueueOK
<1>1. QueueOK(queue, call)
  BY EmptySeq DEF Init, QueueOK
<1>2. WorkerOK
  BY DEF Init, WorkerOK, HeadIsChecked, NeverIdleWithWork
<1>3. RestOK
  BY DEF Init, RestOK, Call
<1> QED BY <1>1, <1>2, <1>3

\* A client's call keeps the invariant.
LEMMA EnsureCredentialsInv ==
    ASSUME Inv, NEW c \in Calls, NEW o \in Objects, EnsureCredentials(c, o)
    PROVE  Inv'
<1>1. QueueOK(queue, call) /\ WorkerOK /\ RestOK
  BY InvIsQueueOK
<1>2. call' = [call EXCEPT ![c] = [state |-> "waiting", object |-> o]]
  BY DEF EnsureCredentials
<1>3. call \in [Calls -> Call]
  BY <1>1 DEF RestOK
<1>4. /\ call[c].state # "waiting"
      /\ call'[c].state = "waiting"
      /\ call'[c].object = o
      /\ \A d \in Calls \ {c} : call'[d] = call[d]
  BY <1>2, <1>3 DEF EnsureCredentials, Waiting
<1>5. RestOK'
  <2>1. [state |-> "waiting", object |-> o] \in Call
    BY DEF Call
  <2> QED BY <2>1, <1>1, <1>2 DEF RestOK, EnsureCredentials, envVars
<1>6. queue \in Seq(Task)
  BY <1>1 DEF QueueOK
<1>7. QueueOK(queue', call') /\ WorkerOK'
  <2> DEFINE same == PositionsOf(queue, IdOf[o])
             t == NewTask(o, "high", {c})
  <2>1. CASE same = {} /\ QueueCheck(Append(queue, t))
    <3>1. QueueOK(Append(queue, t), call')
      BY <2>1, <1>1, <1>4, AppendQueueOK
    <3>2. queue # <<>> =>
            /\ Append(queue, t) # <<>>
            /\ Head(Append(queue, t)) = Head(queue)
      <4>1. t \in Task
        BY DEF NewTask, Task
      <4> HIDE DEF t
      <4> QED BY <4>1, <1>6, HeadTailAppend, AppendProperties
    <3> HIDE DEF t
    <3> QED BY <3>1, <3>2, <2>1, <1>1, QueueCheckOK
  <2>2. CASE \E i \in same : queue' = Coalesce(queue, i, c) /\ UNCHANGED <<running, check>>
    <3>1. PICK i \in same : queue' = Coalesce(queue, i, c)
      BY <2>2
    <3>2. /\ QueueOK(queue', call')
          /\ Len(queue') = Len(queue)
          /\ \A j \in DOMAIN queue : queue'[j].object = queue[j].object
      BY <3>1, <1>1, <1>4, CoalesceQueueOK
    <3>3. queue' \in Seq(Task)
      BY <3>2 DEF QueueOK
    <3>4. queue # <<>> => queue' # <<>> /\ Head(queue').object = Head(queue).object
      BY <3>2, <3>3, <1>6, EmptySeq
    <3>5. queue' # <<>> => queue # <<>>
      BY <3>2, <3>3, <1>6, EmptySeq
    <3>6. UNCHANGED <<running, check>>
      BY <2>2
    <3> QED BY <3>2, <3>4, <3>5, <3>6, <1>1
            DEF WorkerOK, HeadIsChecked, NeverIdleWithWork
  <2> QED BY <2>1, <2>2 DEF EnsureCredentials
<1> QED BY <1>5, <1>7, InvIsQueueOKNext

\* The daemon's own round of checks puts tasks of low priority, for ids that
\* were not queued, behind the queue and looks at it.
LEMMA CheckCredentialsRound ==
    ASSUME Inv, CheckCredentials
    PROVE  \E u \in Seq(Task) :
              /\ \A i \in DOMAIN u : u[i].object \in exported
              /\ \A i \in DOMAIN u : u[i].priority = "low" /\ u[i].calls = {}
              /\ \A i, j \in DOMAIN u : IdOf[u[i].object] = IdOf[u[j].object] => i = j
              /\ \A i \in DOMAIN u : PositionsOf(queue, IdOf[u[i].object]) = {}
              /\ QueueCheck(queue \o u)
<1>1. QueueOK(queue, call) /\ WorkerOK /\ RestOK
  BY InvIsQueueOK
<1> DEFINE fresh == {o \in exported : PositionsOf(queue, IdOf[o]) = {}}
           n == Cardinality(fresh)
<1>3. n \in Nat
  <2>1. fresh \subseteq Objects
    BY <1>1 DEF RestOK
  <2> QED BY <2>1, ObjectsAssumption, FS_Subset, FS_CardinalityType
<1>4. PICK s \in SetToSeqs(fresh) :
        QueueCheck(queue \o [i \in DOMAIN s |-> NewTask(s[i], "low", {})])
  BY DEF CheckCredentials
<1>5. /\ s \in [1..n -> fresh]
      /\ \A i, j \in 1..n : i # j => s[i] # s[j]
  BY DEF SetToSeqs
<1> HIDE DEF n
<1>6. s \in [1..n -> Objects] /\ DOMAIN s = 1..n
  BY <1>1, <1>5 DEF RestOK
<1>7. \A i, j \in 1..n : IdOf[s[i]] = IdOf[s[j]] => i = j
  BY <1>1, <1>5 DEF RestOK, OneObjectPerId
<1>8. \A i \in 1..n : PositionsOf(queue, IdOf[s[i]]) = {}
  BY <1>5
<1> DEFINE u == [i \in 1..n |-> NewTask(s[i], "low", {})]
<1>9. \A i \in 1..n : u[i] \in Task /\ u[i].object = s[i]
                      /\ u[i].priority = "low" /\ u[i].calls = {}
  BY <1>6 DEF Task, NewTask
<1>10. QueueCheck(queue \o u)
  BY <1>4, <1>6
<1>11. u \in Seq(Task) /\ DOMAIN u = 1..n
  <2>1. u \in [1..n -> Task]
    BY <1>9
  <2> QED BY <2>1, <1>3
<1> HIDE DEF u
<1>12. \A i \in DOMAIN u : u[i].object = s[i] /\ u[i].priority = "low" /\ u[i].calls = {}
  BY <1>9, <1>11
<1>13. \A i, j \in DOMAIN u : IdOf[u[i].object] = IdOf[u[j].object] => i = j
  BY <1>7, <1>11, <1>12
<1>14. ASSUME NEW i \in DOMAIN u PROVE PositionsOf(queue, IdOf[u[i].object]) = {}
  <2>1. PositionsOf(queue, IdOf[s[i]]) = {} /\ u[i].object = s[i]
    BY <1>8, <1>11, <1>12
  <2> QED BY <2>1
<1>15. \A i \in DOMAIN u : u[i].object \in exported
  BY <1>5, <1>11, <1>12
<1> QED BY <1>10, <1>11, <1>12, <1>13, <1>14, <1>15

\* That round keeps the invariant.
LEMMA CheckCredentialsInv == ASSUME Inv, CheckCredentials PROVE Inv'
<1>1. QueueOK(queue, call) /\ WorkerOK /\ RestOK
  BY InvIsQueueOK
<1>2. call' = call /\ RestOK'
  BY <1>1 DEF CheckCredentials, RestOK, envVars
<1>3. PICK u \in Seq(Task) :
        /\ \A i \in DOMAIN u : u[i].priority = "low" /\ u[i].calls = {}
        /\ \A i, j \in DOMAIN u : IdOf[u[i].object] = IdOf[u[j].object] => i = j
        /\ \A i \in DOMAIN u : PositionsOf(queue, IdOf[u[i].object]) = {}
        /\ QueueCheck(queue \o u)
  BY CheckCredentialsRound
<1> DEFINE r == queue \o u
<1>4. QueueOK(r, call) /\ \A i \in DOMAIN queue : i \in DOMAIN r /\ r[i] = queue[i]
  BY <1>1, <1>3, BackgroundQueueOK
<1>5. QueueCheck(r)
  BY <1>3
<1> HIDE DEF r
<1>6. queue \in Seq(Task) /\ r \in Seq(Task)
  BY <1>1, <1>4 DEF QueueOK
<1>7. queue # <<>> => r # <<>> /\ Head(r).object = Head(queue).object
  <2> SUFFICES ASSUME queue # <<>> PROVE r # <<>> /\ Head(r) = Head(queue)
    OBVIOUS
  <2>1. 1 \in DOMAIN queue
    BY <1>6, EmptySeq, LenProperties
  <2>2. 1 \in DOMAIN r /\ r[1] = queue[1]
    BY <1>4, <2>1
  <2> QED BY <2>2, <1>6, EmptySeq
<1> QED BY <1>1, <1>2, <1>4, <1>5, <1>7, QueueCheckOK, InvIsQueueOKNext

\* The end of a check keeps the invariant: the task whose clients are answered
\* is the one that was checked, and they wait for no other.
LEMMA CollectInv == ASSUME Inv, Collect PROVE Inv'
<1>1. QueueOK(queue, call) /\ WorkerOK /\ RestOK
  BY InvIsQueueOK
<1>2. queue # <<>> /\ check \in Check
  BY <1>1 DEF Collect, WorkerOK, HeadIsChecked
<1>3. Verdict \in Answers
  BY <1>2 DEF Collect, Verdict, Check, Answers
<1> DEFINE head == Head(queue)
<1>4. head.object \in Objects /\ head.calls \subseteq Calls
  <2>1. queue \in Seq(Task)
    BY <1>1 DEF QueueOK
  <2>2. head \in Task
    BY <1>2, <2>1, HeadTailProperties
  <2> QED BY <2>2 DEF Task
<1>5. /\ call' = Answered(head, Verdict)
      /\ attention' = [attention EXCEPT ![head.object] = Attention(@, Verdict)]
      /\ StartNext(Tail(queue))
      /\ UNCHANGED <<envVars, netTimer>>
  BY DEF Collect
<1> HIDE DEF head
<1>6. /\ \A c \in head.calls : call'[c] = [state |-> Verdict, object |-> None]
      /\ \A c \in Calls \ head.calls : call'[c] = call[c]
      /\ call' \in [Calls -> Call]
  BY <1>1, <1>3, <1>4, <1>5 DEF Answered, RestOK, Call
<1>7. attention' \in [Objects -> BOOLEAN]
  <2>1. \A b \in BOOLEAN : Attention(b, Verdict) \in BOOLEAN
    BY DEF Attention
  <2> QED BY <2>1, <1>1, <1>4, <1>5 DEF RestOK
<1>8. QueueOK(Tail(queue), call')
  <2>1. \A c \in head.calls : call'[c].state # "waiting"
    BY <1>3, <1>6 DEF Answers
  <2> QED BY <2>1, <1>1, <1>2, <1>6, TailQueueOK DEF head
<1>9. RestOK'
  BY <1>1, <1>5, <1>6, <1>7 DEF RestOK, envVars
<1> QED BY <1>5, <1>8, <1>9, StartNextOK, InvIsQueueOKNext

\* The check's progress in its thread keeps the invariant.
LEMMA WorkerInv ==
    ASSUME Inv, Timeout \/ \E r \in Answers : ProviderReturns(r)
    PROVE  Inv'
<1>1. QueueOK(queue, call) /\ WorkerOK /\ RestOK
  BY InvIsQueueOK
<1>2. check # None /\ check \in Check
  BY <1>1 DEF WorkerOK, Timeout, ProviderReturns
<1>3. check' \in Check /\ check'.object = check.object
  BY <1>2 DEF Timeout, ProviderReturns, Check, Answers
<1>4. check' # None
  BY <1>3, NoneAssumption
<1>5. UNCHANGED <<queue, running, call, envVars, attention, netTimer>>
  BY DEF Timeout, ProviderReturns
<1>6. WorkerOK'
  BY <1>1, <1>2, <1>3, <1>4, <1>5 DEF WorkerOK, HeadIsChecked, NeverIdleWithWork
<1>7. RestOK'
  BY <1>1, <1>5 DEF RestOK, envVars
<1> QED BY <1>1, <1>5, <1>6, <1>7, InvIsQueueOKNext

\* What happens around the queue keeps the invariant.
LEMMA SurroundingsInv ==
    ASSUME Inv,
           \/ NetworkChanged
           \/ Reload
           \/ \E id \in Ids : CredentialsChange(id)
           \/ UNCHANGED vars
    PROVE  Inv'
<1>1. QueueOK(queue, call) /\ WorkerOK /\ RestOK
  BY InvIsQueueOK
<1>2. UNCHANGED <<queue, running, check, call>>
  BY DEF NetworkChanged, Reload, CredentialsChange, vars
<1>3. WorkerOK'
  BY <1>1, <1>2 DEF WorkerOK, HeadIsChecked, NeverIdleWithWork
<1>4. RestOK'
  <2>1. CASE Reload
    BY <2>1, <1>1 DEF Reload, RestOK
  <2>2. CASE ~Reload
    BY <2>2, <1>1 DEF NetworkChanged, CredentialsChange, RestOK, envVars, vars
  <2> QED BY <2>1, <2>2
<1> QED BY <1>1, <1>2, <1>3, <1>4, InvIsQueueOKNext

\* Every state the daemon reaches satisfies the invariant, for any number of
\* accounts, objects and clients.
THEOREM InvHolds == Spec => []Inv
<1>1. Init => Inv
  BY InitInv
<1>2. Inv /\ [Next]_vars => Inv'
  <2> SUFFICES ASSUME Inv, [Next]_vars PROVE Inv'
    OBVIOUS
  <2>1. CASE \E c \in Calls, o \in Objects : EnsureCredentials(c, o)
    BY <2>1, EnsureCredentialsInv
  <2>2. CASE CheckCredentials
    BY <2>2, CheckCredentialsInv
  <2>3. CASE Collect
    BY <2>3, CollectInv
  <2>4. CASE Timeout \/ \E r \in Answers : ProviderReturns(r)
    BY <2>4, WorkerInv
  <2>5. CASE \/ NetworkChanged
             \/ Reload
             \/ \E id \in Ids : CredentialsChange(id)
             \/ UNCHANGED vars
    BY <2>5, SurroundingsInv
  <2> QED BY <2>1, <2>2, <2>3, <2>4, <2>5 DEF Next
<1> QED BY <1>1, <1>2, PTL DEF Spec

\* The variables keep their types.
THEOREM TypeCorrect == Spec => []TypeOK
  BY InvHolds, PTL DEF Inv

\* The task at the head of the queue is the one being checked, and something
\* is being checked exactly when the flag says so: g_assert (task ==
\* task_queued) in ensure_credentials_queue_collector never fails.
THEOREM HeadAssertionHolds == Spec => []HeadIsChecked
  BY InvHolds, PTL DEF Inv

\* No account is queued twice.
THEOREM QueueHasOneTaskPerId == Spec => []OneTaskPerId
  BY InvHolds, PTL DEF Inv

\* No call is lost and none is held by two tasks or after its answer.
THEOREM NoCallLostOrDoubled == Spec => []CallsQueuedOnce
  BY InvHolds, PTL DEF Inv

\* A task is urgent if and only if a client waits for it.
THEOREM PriorityIsClients == Spec => []PriorityTracksClients
  BY InvHolds, PTL DEF Inv

\* The queue never rests with tasks in it.
THEOREM QueueNeverStalls == Spec => []NeverIdleWithWork
  BY InvHolds, PTL DEF Inv
=============================================================================
