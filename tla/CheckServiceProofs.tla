------------------------- MODULE CheckServiceProofs -------------------------
(***************************************************************************)
(* What the clients of the credentials queue see, for any number of        *)
(* accounts, objects and calls: EnsureCredentials.tla implements           *)
(* CheckService.tla, clients go first and in their order, and no answer    *)
(* is older than its call unless the call joined a running check.          *)
(***************************************************************************)
EXTENDS CredentialFreshness, EnsureCredentialsProofs

\* The ids the tasks of q are about, and the id each call of cl asks about:
\* the values of Service's variables in any state of the queue.
IdsOf(q) == {IdOf[q[i].object] : i \in DOMAIN q}
AboutOf(cl) ==
    [c \in Calls |-> IF cl[c].object = None THEN None ELSE IdOf[cl[c].object]]

\* Everything the lemmas below use of a queue in order.
LEMMA QueueFacts ==
    ASSUME NEW q, NEW cl, QueueOK(q, cl)
    PROVE  /\ q \in Seq(Task)
           /\ Len(q) \in Nat
           /\ DOMAIN q = 1..Len(q)
           /\ q # <<>> => 1 \in DOMAIN q /\ Head(q) = q[1]
           /\ \A i \in DOMAIN q : /\ q[i].object \in Objects
                                  /\ q[i].calls \subseteq Calls
                                  /\ IdOf[q[i].object] \in Ids
                                  /\ IdOf[q[i].object] # None
<1>1. q \in Seq(Task)
  BY DEF QueueOK
<1>2. Len(q) \in Nat /\ DOMAIN q = 1..Len(q)
  BY <1>1, LenProperties
<1>3. q # <<>> => 1 \in DOMAIN q /\ Head(q) = q[1]
  BY <1>1, <1>2, EmptySeq
<1>4. ASSUME NEW i \in DOMAIN q
      PROVE  /\ q[i].object \in Objects
             /\ q[i].calls \subseteq Calls
             /\ IdOf[q[i].object] \in Ids
             /\ IdOf[q[i].object] # None
  <2>1. q[i] \in Task
    BY <1>1, ElementOfSeq
  <2>2. q[i].object \in Objects /\ q[i].calls \subseteq Calls
    BY <2>1 DEF Task
  <2> QED BY <2>2, IdOfAssumption, NoneAssumption
<1> QED BY <1>1, <1>2, <1>3, <1>4

\* A sorted queue has the same tasks, and before an urgent task there are only
\* urgent ones that were before it.
LEMMA SortedOrder ==
    ASSUME NEW q, NEW cl, QueueOK(q, cl), NEW r \in Sorted(q)
    PROVE  /\ DOMAIN r = DOMAIN q
           /\ IdsOf(r) = IdsOf(q)
           /\ \A i \in DOMAIN r : r[i].priority = "high" => r[1].priority = "high"
           /\ \A i, j, k, l \in DOMAIN q :
                (/\ i < j /\ q[i].priority = "high" /\ q[j].priority = "high"
                 /\ r[k].object = q[i].object /\ r[l].object = q[j].object)
                  => k < l
<1>1. PICK p \in StableOrders(q) : r = [i \in DOMAIN q |-> q[p[i]]]
  BY DEF Sorted
<1>2. Len(q) \in Nat /\ DOMAIN q = 1..Len(q)
  BY QueueFacts
<1>3. /\ p \in [DOMAIN q -> DOMAIN q]
      /\ \A k \in DOMAIN q : \E i \in DOMAIN q : p[i] = k
      /\ \A i, j \in DOMAIN q : i < j =>
            \/ q[p[i]].priority = "high" /\ q[p[j]].priority = "low"
            \/ q[p[i]].priority = q[p[j]].priority /\ p[i] < p[j]
  BY <1>1 DEF StableOrders
<1>4. DOMAIN r = DOMAIN q /\ \A i \in DOMAIN q : r[i] = q[p[i]]
  BY <1>1
<1>5. IdsOf(r) = IdsOf(q)
  BY <1>3, <1>4 DEF IdsOf
<1>6. ASSUME NEW i \in DOMAIN r, r[i].priority = "high"
      PROVE  r[1].priority = "high"
  <2>1. CASE i = 1
    BY <2>1, <1>6
  <2>2. CASE i # 1
    <3>1. 1 \in DOMAIN q /\ i \in DOMAIN q /\ 1 < i
      BY <2>2, <1>2, <1>4
    <3>2. \/ q[p[1]].priority = "high"
          \/ q[p[1]].priority = q[p[i]].priority
      BY <3>1, <1>3
    <3> QED BY <3>1, <3>2, <1>4, <1>6
  <2> QED BY <2>1, <2>2
<1>7. ASSUME NEW i \in DOMAIN q, NEW j \in DOMAIN q, NEW k \in DOMAIN q, NEW l \in DOMAIN q,
             i < j, q[i].priority = "high", q[j].priority = "high",
             r[k].object = q[i].object, r[l].object = q[j].object
      PROVE  k < l
  <2>1. \A a, b \in DOMAIN q : IdOf[q[a].object] = IdOf[q[b].object] => a = b
    BY DEF QueueOK
  <2>2. p[k] = i /\ p[l] = j
    BY <2>1, <1>3, <1>4, <1>7
  <2>3. i \in Int /\ j \in Int /\ k \in Int /\ l \in Int
    BY <1>2
  <2>4. ~(l < k)
    <3> SUFFICES ASSUME l < k PROVE FALSE
      OBVIOUS
    <3>1. \/ q[p[l]].priority = "high" /\ q[p[k]].priority = "low"
          \/ q[p[l]].priority = q[p[k]].priority /\ p[l] < p[k]
      BY <1>3
    <3>2. j < i
      BY <3>1, <2>2, <1>7
    <3> QED BY <3>2, <2>3, <1>7
  <2>5. k # l
    BY <2>2, <2>3, <1>7
  <2> QED BY <2>3, <2>4, <2>5
<1> QED BY <1>4, <1>5, <1>6, <1>7

\* What starting the next task of a good queue leaves: the same tasks, and at
\* the head one a client waits for, unless no client waits for any.
LEMMA StartNextOrder ==
    ASSUME NEW q, QueueOK(q, call'), StartNext(q)
    PROVE  /\ IdsOf(queue') = IdsOf(q)
           /\ running' <=> q # <<>>
           /\ queue' = <<>> <=> q = <<>>
           /\ running' => \/ Head(queue').calls # {}
                          \/ \A i \in DOMAIN queue' : queue'[i].calls = {}
<1>1. CASE q = <<>>
  BY <1>1 DEF StartNext
<1>2. CASE q # <<>>
  <2>1. queue' \in Sorted(q) /\ running' = TRUE
    BY <1>2 DEF StartNext
  <2>2. QueueOK(queue', call') /\ Len(queue') = Len(q)
    BY <2>1, SortedQueueOK
  <2>3. q \in Seq(Task) /\ queue' \in Seq(Task)
    BY <2>2, QueueFacts
  <2>4. queue' # <<>>
    BY <2>2, <2>3, <1>2, EmptySeq
  <2>5. /\ IdsOf(queue') = IdsOf(q)
        /\ \A i \in DOMAIN queue' :
              queue'[i].priority = "high" => queue'[1].priority = "high"
    BY <2>1, SortedOrder
  <2>6. 1 \in DOMAIN queue' /\ Head(queue') = queue'[1]
    BY <2>2, <2>4, QueueFacts
  <2>7. \A i \in DOMAIN queue' : queue'[i].priority = "high" <=> queue'[i].calls # {}
    BY <2>2 DEF QueueOK
  <2> QED BY <2>1, <2>4, <2>5, <2>6, <2>7, <1>2
<1> QED BY <1>1, <1>2

\* The id at the head of a queue whose head comes first is one that
\* CheckService may pick.
LEMMA HeadIsEligible ==
    ASSUME NEW q, NEW cl \in [Calls -> Call], QueueOK(q, cl), q # <<>>,
           \/ Head(q).calls # {}
           \/ \A i \in DOMAIN q : q[i].calls = {}
    PROVE  IdOf[Head(q).object] \in Service!Eligible(IdsOf(q), AboutOf(cl))
<1> DEFINE awaited == {id \in IdsOf(q) : \E c \in Calls : AboutOf(cl)[c] = id}
           id == IdOf[Head(q).object]
<1>1. 1 \in DOMAIN q /\ Head(q) = q[1]
  BY QueueFacts
<1>2. id \in IdsOf(q)
  BY <1>1 DEF IdsOf
<1>3. CASE Head(q).calls # {}
  <2>1. PICK c \in Head(q).calls : TRUE
    BY <1>3
  <2>2. c \in Calls
    BY <2>1, <1>1, QueueFacts
  <2>3. cl[c].state = "waiting" /\ IdOf[cl[c].object] = id
    BY <2>1, <1>1 DEF QueueOK
  <2>4. cl[c].object # None
    <3>1. cl[c] \in Call
      BY <2>2
    <3>2. cl[c].object \in Objects
      BY <2>3, <3>1 DEF Call, Answers
    <3> QED BY <3>2, NoneAssumption
  <2>5. AboutOf(cl)[c] = id
    BY <2>2, <2>3, <2>4 DEF AboutOf
  <2>6. id \in awaited
    BY <2>2, <2>5, <1>2
  <2> QED BY <2>6 DEF Service!Eligible
<1>4. CASE \A i \in DOMAIN q : q[i].calls = {}
  <2>1. ASSUME NEW c \in Calls PROVE AboutOf(cl)[c] = None
    <3>1. cl[c].state # "waiting"
      BY <1>4 DEF QueueOK
    <3>2. cl[c] \in Call
      OBVIOUS
    <3>3. cl[c].object = None
      BY <3>1, <3>2 DEF Call
    <3> QED BY <3>3 DEF AboutOf
  <2>2. \A x \in IdsOf(q) : x # None
    BY QueueFacts DEF IdsOf
  <2>3. awaited = {}
    BY <2>1, <2>2
  <2> QED BY <2>3, <1>2 DEF Service!Eligible
<1> QED BY <1>3, <1>4

\* Nothing is being checked in CheckService exactly when the flag is clear,
\* and the id being checked is that of the head.
LEMMA CheckingIsHead ==
    ASSUME Inv
    PROVE  /\ running <=> queue # <<>>
           /\ running => /\ IdOf[Head(queue).object] # None
                         /\ IdOf[Head(queue).object] \in IdsOf(queue)
<1>1. QueueOK(queue, call) /\ WorkerOK
  BY InvIsQueueOK
<1>2. running <=> queue # <<>>
  BY <1>1 DEF WorkerOK, HeadIsChecked, NeverIdleWithWork
<1>3. queue # <<>> => 1 \in DOMAIN queue /\ Head(queue) = queue[1]
  BY <1>1, QueueFacts
<1> QED BY <1>1, <1>2, <1>3, QueueFacts DEF IdsOf

\* The steps of the service, in terms of the queue.
Wanted == IdsOf(queue)
Checking == IF running THEN IdOf[Head(queue).object] ELSE None
State == [c \in Calls |-> call[c].state]
About == AboutOf(call)

\* The next task that the daemon starts is one the service may pick.
LEMMA StartNextPicks ==
    ASSUME NEW q, QueueOK(q, call'), call' \in [Calls -> Call], StartNext(q)
    PROVE  /\ Wanted' = IdsOf(q)
           /\ Wanted' = {} => Checking' = None
           /\ Wanted' # {} => Checking' \in Service!Eligible(Wanted', About')
<1>1. /\ IdsOf(queue') = IdsOf(q)
      /\ running' <=> q # <<>>
      /\ queue' = <<>> <=> q = <<>>
      /\ running' => \/ Head(queue').calls # {}
                     \/ \A i \in DOMAIN queue' : queue'[i].calls = {}
  BY StartNextOrder
<1>2. QueueOK(queue', call')
  BY StartNextOK
<1>3. IdsOf(q) = {} <=> q = <<>>
  <2>1. q # <<>> => 1 \in DOMAIN q
    BY QueueFacts
  <2>2. DOMAIN <<>> = {}
    OBVIOUS
  <2> QED BY <2>1, <2>2 DEF IdsOf
<1>4. Wanted' = IdsOf(queue') /\ About' = AboutOf(call')
  BY DEF Wanted, About, IdsOf, AboutOf
<1>5. CASE q = <<>>
  BY <1>1, <1>3, <1>4, <1>5 DEF Checking
<1>6. CASE q # <<>>
  <2>1. IdOf[Head(queue').object] \in Service!Eligible(IdsOf(queue'), AboutOf(call'))
    BY <1>1, <1>2, <1>6, HeadIsEligible
  <2>2. Checking' = IdOf[Head(queue').object]
    BY <1>1, <1>6 DEF Checking
  <2> QED BY <2>1, <2>2, <1>1, <1>3, <1>4, <1>6
<1> QED BY <1>5, <1>6

\* The two ways tasks about ids reach the queue.  While a check runs the queue
\* keeps what it has in place, and only the calls cs join its tasks.
Joins(ids, cs) ==
    /\ running
    /\ UNCHANGED <<running, check>>
    /\ IdsOf(queue') = IdsOf(queue) \cup ids
    /\ \A i \in DOMAIN queue :
          /\ i \in DOMAIN queue'
          /\ queue'[i].object = queue[i].object
          /\ queue'[i].calls \subseteq queue[i].calls \cup cs

\* While none runs the queue is empty, and the first of them starts.
Starts(ids) ==
    /\ ~running
    /\ queue = <<>>
    /\ \E q \in Seq(Task) : QueueOK(q, call') /\ IdsOf(q) = ids /\ StartNext(q)

\* A client's call brings its account to the queue in one of these ways.
LEMMA EnsureCredentialsStep ==
    ASSUME Inv, NEW c \in Calls, NEW o \in Objects, EnsureCredentials(c, o)
    PROVE  Joins({IdOf[o]}, {c}) \/ Starts({IdOf[o]})
<1>1. QueueOK(queue, call) /\ RestOK /\ WorkerOK
  BY InvIsQueueOK
<1>2. /\ call[c].state # "waiting"
      /\ call'[c].state = "waiting"
      /\ call'[c].object = o
      /\ \A d \in Calls \ {c} : call'[d] = call[d]
  BY <1>1 DEF EnsureCredentials, Waiting, RestOK
<1>3. queue \in Seq(Task) /\ Len(queue) \in Nat /\ DOMAIN queue = 1..Len(queue)
  BY <1>1, QueueFacts
<1>4. running <=> queue # <<>>
  BY CheckingIsHead
<1> DEFINE same == PositionsOf(queue, IdOf[o])
           t == NewTask(o, "high", {c})
<1>5. CASE same = {} /\ QueueCheck(Append(queue, t))
  <2> DEFINE r == Append(queue, t)
  <2>1. QueueOK(r, call')
    BY <1>1, <1>2, <1>5, AppendQueueOK
  <2>2. t \in Task /\ t.object = o
    BY DEF Task, NewTask
  <2> HIDE DEF t
  <2>3. /\ r \in Seq(Task)
        /\ DOMAIN r = 1..(Len(queue) + 1)
        /\ \A i \in DOMAIN queue : r[i] = queue[i]
        /\ r[Len(queue) + 1] = t
    BY <1>3, <2>2, AppendProperties, LenProperties
  <2> HIDE DEF r
  <2>4. \A i \in DOMAIN r : i \in DOMAIN queue \/ i = Len(queue) + 1
    BY <1>3, <2>3
  <2>5. \A i \in DOMAIN queue : i \in DOMAIN r
    BY <1>3, <2>3
  <2>6. Len(queue) + 1 \in DOMAIN r
    BY <1>3, <2>3
  <2>7. IdsOf(r) = IdsOf(queue) \cup {IdOf[o]}
    BY <2>2, <2>3, <2>4, <2>5, <2>6 DEF IdsOf
  <2>8. CASE running
    <3>1. queue' = r /\ UNCHANGED <<running, check>>
      BY <1>5, <2>8 DEF QueueCheck, r
    <3> QED BY <3>1, <2>3, <2>5, <2>7, <2>8 DEF Joins
  <2>9. CASE ~running
    <3>1. queue = <<>> /\ StartNext(r)
      BY <1>4, <1>5, <2>9 DEF QueueCheck, r
    <3>2. IdsOf(queue) = {}
      BY <3>1 DEF IdsOf
    <3> QED BY <3>1, <3>2, <2>1, <2>3, <2>7, <2>9 DEF Starts
  <2> QED BY <2>8, <2>9
<1>6. CASE \E i \in same : queue' = Coalesce(queue, i, c) /\ UNCHANGED <<running, check>>
  <2>1. PICK i \in same : queue' = Coalesce(queue, i, c) /\ UNCHANGED <<running, check>>
    BY <1>6
  <2>2. i \in DOMAIN queue /\ IdOf[queue[i].object] = IdOf[o]
    BY DEF PositionsOf
  <2>3. running
    BY <2>2, <1>4
  <2>4. DOMAIN queue' = DOMAIN queue
    BY <2>1 DEF Coalesce
  <2>5. \A j \in DOMAIN queue : /\ queue'[j].object = queue[j].object
                                /\ queue'[j].calls \subseteq queue[j].calls \cup {c}
    <3> TAKE j \in DOMAIN queue
    <3>1. queue[j] \in Task
      BY <1>3, ElementOfSeq
    <3>2. CASE j = i
      BY <3>1, <3>2, <2>1, <2>2 DEF Coalesce, Task
    <3>3. CASE j # i
      BY <3>3, <2>1, <2>2 DEF Coalesce
    <3> QED BY <3>2, <3>3
  <2>6. IdsOf(queue') = IdsOf(queue) /\ IdOf[o] \in IdsOf(queue)
    BY <2>2, <2>4, <2>5 DEF IdsOf
  <2> QED BY <2>1, <2>3, <2>4, <2>5, <2>6 DEF Joins
<1> QED BY <1>5, <1>6 DEF EnsureCredentials

\* So does the daemon's own round of checks, for some set of accounts.
LEMMA CheckCredentialsStep ==
    ASSUME Inv, CheckCredentials
    PROVE  \E S \in SUBSET Ids : Joins(S, {}) \/ Starts(S)
<1>1. QueueOK(queue, call) /\ call' = call
  BY InvIsQueueOK DEF CheckCredentials
<1>2. PICK u \in Seq(Task) :
        /\ \A i \in DOMAIN u : u[i].priority = "low" /\ u[i].calls = {}
        /\ \A i, j \in DOMAIN u : IdOf[u[i].object] = IdOf[u[j].object] => i = j
        /\ \A i \in DOMAIN u : PositionsOf(queue, IdOf[u[i].object]) = {}
        /\ QueueCheck(queue \o u)
  BY CheckCredentialsRound
<1> DEFINE r == queue \o u
<1>3. QueueOK(r, call') /\ \A i \in DOMAIN queue : i \in DOMAIN r /\ r[i] = queue[i]
  BY <1>1, <1>2, BackgroundQueueOK
<1>4. QueueCheck(r)
  BY <1>2
<1> HIDE DEF r
<1>5. r \in Seq(Task) /\ \A i \in DOMAIN r : IdOf[r[i].object] \in Ids
  BY <1>3, QueueFacts
<1>6. IdsOf(r) \in SUBSET Ids
  BY <1>5 DEF IdsOf
<1>7. IdsOf(r) = IdsOf(queue) \cup IdsOf(r)
  BY <1>3 DEF IdsOf
<1>8. CASE running
  <2>1. queue' = r /\ UNCHANGED <<running, check>>
    BY <1>4, <1>8 DEF QueueCheck
  <2>2. Joins(IdsOf(r), {})
    BY <2>1, <1>3, <1>7, <1>8 DEF Joins
  <2> QED BY <2>2, <1>6
<1>9. CASE ~running
  <2>1. queue = <<>> /\ StartNext(r)
    BY <1>4, <1>9, CheckingIsHead DEF QueueCheck
  <2>2. Starts(IdsOf(r))
    BY <2>1, <1>3, <1>5, <1>9 DEF Starts
  <2> QED BY <2>2, <1>6
<1> QED BY <1>8, <1>9

\* Where tasks join behind the running check, the service goes on with it.
LEMMA JoinsKeepsChecking ==
    ASSUME Inv, Inv', NEW ids, NEW cs, Joins(ids, cs)
    PROVE  /\ Wanted' = Wanted \cup ids
           /\ Checking # None
           /\ Checking' = Checking
           /\ Head(queue').object = Head(queue).object
           /\ Head(queue').calls \subseteq Head(queue).calls \cup cs
<1>1. (Inv => QueueOK(queue, call))'
  BY InvIsQueueOK, PTL
<1>2. QueueOK(queue, call) /\ QueueOK(queue', call')
  BY <1>1, InvIsQueueOK
<1>3. queue # <<>> /\ IdOf[Head(queue).object] # None
  BY CheckingIsHead DEF Joins
<1>4. 1 \in DOMAIN queue /\ Head(queue) = queue[1]
  BY <1>2, <1>3, QueueFacts
<1>5. 1 \in DOMAIN queue' /\ queue'[1].object = queue[1].object
      /\ queue'[1].calls \subseteq queue[1].calls \cup cs
  BY <1>4 DEF Joins
<1>6. Head(queue') = queue'[1]
  <2>1. queue' # <<>>
    BY <1>5
  <2> QED BY <2>1, <1>2, QueueFacts
<1>7. Checking' = Checking /\ Checking # None
  BY <1>3, <1>4, <1>5, <1>6 DEF Checking, Joins
<1>8. Wanted' = IdsOf(queue')
  BY DEF Wanted, IdsOf
<1> QED BY <1>4, <1>5, <1>6, <1>7, <1>8 DEF Wanted, Joins

\* A client's call is Ask.
LEMMA EnsureCredentialsAsks ==
    ASSUME Inv, Inv', NEW c \in Calls, NEW o \in Objects, EnsureCredentials(c, o)
    PROVE  Service!Ask(c, IdOf[o])
<1>1. RestOK /\ RestOK'
  <2>1. (Inv => RestOK)'
    BY InvIsQueueOK, PTL
  <2> QED BY <2>1, InvIsQueueOK
<1>2. /\ call \in [Calls -> Call]
      /\ call' \in [Calls -> Call]
      /\ call[c].state # "waiting"
      /\ call' = [call EXCEPT ![c] = [state |-> "waiting", object |-> o]]
  BY <1>1 DEF EnsureCredentials, Waiting, RestOK
<1>3. o # None /\ IdOf[o] \in Ids /\ IdOf[o] # None
  BY NoneAssumption, IdOfAssumption
<1>4. State' = [State EXCEPT ![c] = "waiting"]
  BY <1>2 DEF State
<1>5. About' = [About EXCEPT ![c] = IdOf[o]]
  BY <1>2, <1>3 DEF About, AboutOf
<1>6. /\ Wanted' = Wanted \cup {IdOf[o]}
      /\ Checking' = IF Checking = None THEN IdOf[o] ELSE Checking
  <2>1. CASE Joins({IdOf[o]}, {c})
    BY <2>1, JoinsKeepsChecking
  <2>2. CASE Starts({IdOf[o]})
    <3>1. PICK q \in Seq(Task) : QueueOK(q, call') /\ IdsOf(q) = {IdOf[o]} /\ StartNext(q)
      BY <2>2 DEF Starts
    <3>2. Wanted' = {IdOf[o]} /\ Checking' \in Service!Eligible(Wanted', About')
      BY <3>1, <1>2, StartNextPicks
    <3>3. Checking' = IdOf[o]
      BY <3>2 DEF Service!Eligible
    <3>4. Wanted = {} /\ Checking = None
      BY <2>2 DEF Starts, Wanted, IdsOf, Checking
    <3> QED BY <3>2, <3>3, <3>4
  <2> QED BY <2>1, <2>2, EnsureCredentialsStep
<1> QED BY <1>2, <1>4, <1>5, <1>6
        DEF Service!Ask, Wanted, IdsOf, Checking, State, About, AboutOf

\* The daemon's round of checks is Background, for the accounts it found.
LEMMA CheckCredentialsIsBackground ==
    ASSUME Inv, Inv', CheckCredentials
    PROVE  \E S \in SUBSET Ids : Service!Background(S)
<1>1. call' = call /\ call' \in [Calls -> Call]
  BY InvIsQueueOK DEF CheckCredentials, RestOK
<1>2. State' = State /\ About' = About
  BY <1>1 DEF State, About, AboutOf
<1>3. PICK S \in SUBSET Ids : Joins(S, {}) \/ Starts(S)
  BY CheckCredentialsStep
<1>4. CASE Joins(S, {})
  <2>1. Wanted' = Wanted \cup S /\ Checking # None /\ Checking' = Checking
    BY <1>4, JoinsKeepsChecking
  <2> QED BY <2>1, <1>2
          DEF Service!Background, Wanted, IdsOf, Checking, State, About, AboutOf
<1>5. CASE Starts(S)
  <2>1. PICK q \in Seq(Task) : QueueOK(q, call') /\ IdsOf(q) = S /\ StartNext(q)
    BY <1>5 DEF Starts
  <2>2. /\ Wanted' = S
        /\ Wanted' = {} => Checking' = None
        /\ Wanted' # {} => Checking' \in Service!Eligible(Wanted', About)
    BY <2>1, <1>1, <1>2, StartNextPicks
  <2>3. Wanted = {} /\ Checking = None
    BY <1>5 DEF Starts, Wanted, IdsOf, Checking
  <2>4. Wanted' = Wanted \cup S
    BY <2>2, <2>3
  <2> QED BY <2>2, <2>3, <2>4, <1>2
          DEF Service!Background, Service!Pick, Wanted, IdsOf, Checking, State, About,
              AboutOf
<1> QED BY <1>3, <1>4, <1>5

\* The end of a check is Finish: exactly the calls about the account that was
\* checked are answered, and it is wanted no more.
LEMMA CollectFinishes ==
    ASSUME Inv, Inv', Collect
    PROVE  \E v \in Answers : Service!Finish(v)
<1>1. QueueOK(queue, call) /\ WorkerOK /\ call \in [Calls -> Call]
      /\ call' \in [Calls -> Call]
  <2>1. (Inv => RestOK)'
    BY InvIsQueueOK, PTL
  <2> QED BY <2>1, InvIsQueueOK DEF RestOK
<1>2. running /\ queue # <<>> /\ check \in Check
  BY <1>1 DEF Collect, WorkerOK, HeadIsChecked
<1>3. PICK v \in Answers : v = Verdict
  BY <1>2 DEF Collect, Verdict, Check, Answers
<1> DEFINE head == Head(queue)
           id == IdOf[head.object]
<1>4. /\ queue \in Seq(Task) /\ Len(queue) \in Nat /\ DOMAIN queue = 1..Len(queue)
      /\ 1 \in DOMAIN queue /\ head = queue[1]
      /\ head.calls \subseteq Calls
      /\ id # None
  BY <1>1, <1>2, QueueFacts
<1>5. Checking = id /\ id # None
  BY <1>2, <1>4 DEF Checking
<1>6. /\ call' = [c \in Calls |-> IF c \in head.calls THEN [state |-> v, object |-> None]
                                                        ELSE call[c]]
      /\ StartNext(Tail(queue))
  BY <1>3 DEF Collect, Answered
<1>7. ASSUME NEW c \in Calls PROVE c \in head.calls <=> About[c] = id
  <2>1. ASSUME c \in head.calls PROVE About[c] = id
    <3>1. call[c].state = "waiting" /\ IdOf[call[c].object] = id
      BY <2>1, <1>1, <1>4 DEF QueueOK
    <3>2. call[c] \in Call
      BY <1>1
    <3>3. call[c].object # None
      BY <3>1, <3>2, NoneAssumption DEF Call, Answers
    <3> QED BY <3>1, <3>3 DEF About, AboutOf
  <2>2. ASSUME About[c] = id PROVE c \in head.calls
    <3>1. call[c].object # None /\ IdOf[call[c].object] = id
      BY <2>2, <1>4 DEF About, AboutOf
    <3>2. call[c] \in Call
      BY <1>1
    <3>3. call[c].state = "waiting"
      BY <3>1, <3>2 DEF Call
    <3>4. PICK i \in DOMAIN queue : c \in queue[i].calls
      BY <3>3, <1>1 DEF QueueOK
    <3>5. IdOf[queue[i].object] = id
      BY <3>1, <3>4, <1>1 DEF QueueOK
    <3>6. i = 1
      BY <3>5, <1>1, <1>4 DEF QueueOK
    <3> QED BY <3>4, <3>6, <1>4
  <2> QED BY <2>1, <2>2
<1> HIDE DEF head, id
<1>8. State' = [c \in Calls |-> IF About[c] = id THEN v ELSE State[c]]
  BY <1>6, <1>7 DEF State
<1>9. About' = [c \in Calls |-> IF About[c] = id THEN None ELSE About[c]]
  <2>1. About' = [c \in Calls |-> IF call'[c].object = None THEN None
                                                          ELSE IdOf[call'[c].object]]
    BY DEF About, AboutOf
  <2>2. \A c \in Calls : About[c] = IF call[c].object = None THEN None
                                                           ELSE IdOf[call[c].object]
    BY DEF About, AboutOf
  <2> QED BY <2>1, <2>2, <1>6, <1>7
<1>10. QueueOK(Tail(queue), call')
  <2>1. \A c \in head.calls : call'[c].state # "waiting"
    BY <1>3, <1>4, <1>6 DEF Answers
  <2>2. \A c \in Calls \ head.calls : call'[c] = call[c]
    BY <1>6
  <2> QED BY <2>1, <2>2, <1>1, <1>2, TailQueueOK DEF head
<1>11. IdsOf(Tail(queue)) = Wanted \ {id}
  <2> DEFINE r == Tail(queue)
  <2>1. /\ DOMAIN r = 1..(Len(queue) - 1)
        /\ \A i \in DOMAIN r : r[i] = queue[i + 1]
    BY <1>2, <1>4, HeadTailProperties, LenProperties
  <2> HIDE DEF r
  <2>2. \A i \in DOMAIN r : i + 1 \in DOMAIN queue /\ i + 1 # 1
    BY <2>1, <1>4
  <2>3. \A k \in DOMAIN queue : k # 1 => k - 1 \in DOMAIN r /\ (k - 1) + 1 = k
    BY <2>1, <1>4
  <2>4. \A k \in DOMAIN queue : k # 1 => r[k - 1] = queue[k]
    BY <2>1, <2>3
  <2>5. \A k \in DOMAIN queue : IdOf[queue[k].object] = id <=> k = 1
    BY <1>1, <1>4 DEF QueueOK, id
  <2>6. IdsOf(r) \subseteq Wanted \ {id}
    BY <2>1, <2>2, <2>5 DEF IdsOf, Wanted
  <2>7. Wanted \ {id} \subseteq IdsOf(r)
    BY <2>3, <2>4, <2>5 DEF IdsOf, Wanted
  <2> QED BY <2>6, <2>7 DEF r
<1>12. /\ Wanted' = Wanted \ {id}
       /\ Wanted' = {} => Checking' = None
       /\ Wanted' # {} => Checking' \in Service!Eligible(Wanted', About')
  BY <1>1, <1>6, <1>10, <1>11, StartNextPicks
<1>13. Service!Finish(v)
  BY <1>5, <1>8, <1>9, <1>12
     DEF Service!Finish, Service!Pick, Wanted, IdsOf, Checking, State, About, AboutOf
<1> QED BY <1>13

\* The daemon's credentials queue is the service its clients were promised:
\* one check at a time, of an account somebody wants checked, a client's
\* before the daemon's own; the answer of a check goes to exactly the calls
\* about its account, and the next check starts as long as any is wanted.
THEOREM QueueImplementsService == Spec => ImplementsService
<1>1. Init => Service!Init
  BY EmptySeq DEF Init, Service!Init
<1>2. Inv /\ Inv' /\ [Next]_vars => [Service!Next]_(Service!vars)
  <2> SUFFICES ASSUME Inv, Inv', [Next]_vars PROVE [Service!Next]_(Service!vars)
    OBVIOUS
  <2>1. CASE \E c \in Calls, o \in Objects : EnsureCredentials(c, o)
    <3>1. PICK c \in Calls, o \in Objects : EnsureCredentials(c, o)
      BY <2>1
    <3>2. Service!Ask(c, IdOf[o]) /\ IdOf[o] \in Ids
      BY <3>1, EnsureCredentialsAsks, IdOfAssumption
    <3> QED BY <3>2 DEF Service!Next
  <2>2. CASE CheckCredentials
    BY <2>2, CheckCredentialsIsBackground DEF Service!Next
  <2>3. CASE Collect
    <3>1. PICK v \in Answers : Service!Finish(v)
      BY <2>3, CollectFinishes
    <3> QED BY <3>1 DEF Service!Next, Service!Answers, Answers
  <2>4. CASE UNCHANGED <<queue, running, call>>
    BY <2>4 DEF Service!vars
  <2> QED BY <2>1, <2>2, <2>3, <2>4
          DEF Next, NetworkChanged, Timeout, ProviderReturns, Reload, CredentialsChange, vars
<1> QED BY <1>1, <1>2, InvHolds, PTL DEF Spec, ImplementsService, Service!Spec

-----------------------------------------------------------------------------
(* The order among the tasks. *)

\* What a step does to the queue: nothing, tasks join it in place, the first
\* of them start, or the head is answered and the next task starts.
LEMMA QueueSteps ==
    ASSUME Inv, [Next]_vars
    PROVE  \/ UNCHANGED <<queue, running>>
           \/ \E ids, cs : Joins(ids, cs)
           \/ \E ids : Starts(ids)
           \/ /\ running
              /\ queue # <<>>
              /\ QueueOK(Tail(queue), call')
              /\ StartNext(Tail(queue))
<1>1. CASE \E c \in Calls, o \in Objects : EnsureCredentials(c, o)
  BY <1>1, EnsureCredentialsStep
<1>2. CASE CheckCredentials
  BY <1>2, CheckCredentialsStep
<1>3. CASE Collect
  <2>1. QueueOK(queue, call) /\ WorkerOK /\ RestOK
    BY InvIsQueueOK
  <2>2. running /\ queue # <<>> /\ check \in Check /\ Verdict \in Answers
    BY <1>3, <2>1 DEF Collect, WorkerOK, HeadIsChecked, Verdict, Check, Answers
  <2>3. Head(queue).calls \subseteq Calls
    BY <2>1, <2>2, QueueFacts
  <2>4. /\ \A c \in Head(queue).calls : call'[c].state # "waiting"
        /\ \A c \in Calls \ Head(queue).calls : call'[c] = call[c]
    BY <1>3, <2>2, <2>3 DEF Collect, Answered, Answers
  <2>5. QueueOK(Tail(queue), call')
    BY <2>1, <2>2, <2>4, TailQueueOK
  <2> QED BY <1>3, <2>2, <2>5 DEF Collect
<1>4. CASE UNCHANGED <<queue, running>>
  BY <1>4
<1> QED BY <1>1, <1>2, <1>3, <1>4
        DEF Next, NetworkChanged, Timeout, ProviderReturns, Reload, CredentialsChange, vars

\* A check starts on a task no client waits for only when no client waits for
\* any: however the queue got its tasks, clients are served first.
THEOREM ClientsGoFirst == Spec => ClientsFirst
<1>1. Inv /\ Inv' /\ [Next]_vars
        => [running' /\ (~running \/ Head(queue').object # Head(queue).object)
              => \/ Head(queue').calls # {}
                 \/ \A i \in DOMAIN queue' : queue'[i].calls = {}]_vars
  <2> SUFFICES ASSUME Inv, Inv', [Next]_vars, running',
                      ~running \/ Head(queue').object # Head(queue).object
               PROVE  \/ Head(queue').calls # {}
                      \/ \A i \in DOMAIN queue' : queue'[i].calls = {}
    OBVIOUS
  <2>1. ~(\E ids, cs : Joins(ids, cs))
    <3>1. ASSUME NEW ids, NEW cs, Joins(ids, cs) PROVE FALSE
      BY <3>1, JoinsKeepsChecking DEF Joins
    <3> QED BY <3>1
  <2>2. CASE \E ids : Starts(ids)
    <3>1. PICK q \in Seq(Task) : QueueOK(q, call') /\ StartNext(q)
      BY <2>2 DEF Starts
    <3> QED BY <3>1, StartNextOrder
  <2>3. CASE QueueOK(Tail(queue), call') /\ StartNext(Tail(queue))
    BY <2>3, StartNextOrder
  <2> QED BY <2>1, <2>2, <2>3, QueueSteps
<1> QED BY <1>1, InvHolds, PTL DEF Spec, ClientsFirst

\* Of two tasks that clients wait for, the one ahead stays ahead.
LEMMA OrderKept ==
    ASSUME Inv, Inv', [Next]_vars,
           NEW i \in DOMAIN queue, NEW j \in DOMAIN queue, i < j,
           queue[i].calls # {}, queue[j].calls # {},
           NEW k \in DOMAIN queue', NEW l \in DOMAIN queue',
           queue'[k].object = queue[i].object, queue'[l].object = queue[j].object
    PROVE  k < l
<1>1. (Inv => QueueOK(queue, call))'
  BY InvIsQueueOK, PTL
<1>2. QueueOK(queue, call) /\ QueueOK(queue', call')
  BY <1>1, InvIsQueueOK
<1>3. /\ queue \in Seq(Task) /\ Len(queue) \in Nat /\ DOMAIN queue = 1..Len(queue)
      /\ queue # <<>>
  BY <1>2, QueueFacts
<1>4. \A a, b \in DOMAIN queue' : queue'[a].object = queue'[b].object => a = b
  BY <1>2 DEF QueueOK
<1>5. \A a, b \in DOMAIN queue : queue[a].object = queue[b].object => a = b
  BY <1>2 DEF QueueOK
<1>6. CASE UNCHANGED queue
  <2>1. k = i /\ l = j
    BY <1>5, <1>6
  <2> QED BY <2>1
<1>7. CASE \E ids, cs : Joins(ids, cs)
  <2>1. /\ i \in DOMAIN queue' /\ queue'[i].object = queue[i].object
        /\ j \in DOMAIN queue' /\ queue'[j].object = queue[j].object
    BY <1>7 DEF Joins
  <2>2. k = i /\ l = j
    BY <2>1, <1>4
  <2> QED BY <2>2
<1>8. CASE QueueOK(Tail(queue), call') /\ StartNext(Tail(queue))
  <2> DEFINE q == Tail(queue)
  <2>1. /\ q \in Seq(Task)
        /\ DOMAIN q = 1..(Len(queue) - 1)
        /\ \A n \in DOMAIN q : q[n] = queue[n + 1]
    BY <1>3, HeadTailProperties, LenProperties
  <2>2. QueueOK(q, call') /\ StartNext(q)
    BY <1>8
  <2> HIDE DEF q
  <2>3. q # <<>> /\ queue' \in Sorted(q)
    <3>1. q # <<>>
      BY <2>2, StartNextOrder
    <3> QED BY <2>2, <3>1 DEF StartNext
  <2>4. PICK p \in StableOrders(q) : queue' = [n \in DOMAIN q |-> q[p[n]]]
    BY <2>3 DEF Sorted
  <2>5. \A n \in DOMAIN queue' : n \in DOMAIN q /\ p[n] \in DOMAIN q /\ queue'[n] = q[p[n]]
    BY <2>4 DEF StableOrders
  <2>6. \A n \in DOMAIN q : n + 1 \in DOMAIN queue /\ n + 1 # 1
    BY <2>1, <1>3
  <2>7. i # 1 /\ j # 1
    <3>1. queue'[k].object = queue[p[k] + 1].object /\ queue'[l].object = queue[p[l] + 1].object
      BY <2>1, <2>5
    <3>2. i = p[k] + 1 /\ j = p[l] + 1
      BY <3>1, <2>5, <2>6, <1>5
    <3> QED BY <3>2, <2>5, <2>6
  <2>8. /\ i - 1 \in DOMAIN q /\ j - 1 \in DOMAIN q
        /\ i - 1 < j - 1
        /\ (i - 1) + 1 = i /\ (j - 1) + 1 = j
    BY <2>1, <2>7, <1>3
  <2>9. q[i - 1] = queue[i] /\ q[j - 1] = queue[j]
    BY <2>1, <2>8
  <2>10. q[i - 1].priority = "high" /\ q[j - 1].priority = "high"
    BY <2>9, <1>2 DEF QueueOK
  <2>11. k \in DOMAIN q /\ l \in DOMAIN q
    BY <2>5
  <2> QED BY <2>2, <2>3, <2>8, <2>9, <2>10, <2>11, SortedOrder
<1>9. CASE \E ids : Starts(ids)
  BY <1>9, <1>3 DEF Starts
<1> QED BY <1>6, <1>7, <1>8, <1>9, QueueSteps

\* Clients are answered in the order in which their tasks were first asked for:
\* no later sort, raise or arrival lets one overtake another.
THEOREM ClientsKeepTheirOrder == Spec => NoOvertaking
<1>1. Inv /\ Inv' /\ [Next]_vars
        => [\A i, j \in DOMAIN queue :
              (i < j /\ queue[i].calls # {} /\ queue[j].calls # {})
              => \A k, l \in DOMAIN queue' :
                    (/\ queue'[k].object = queue[i].object
                     /\ queue'[l].object = queue[j].object
                     /\ OneTaskPerId') => k < l]_vars
  BY OrderKept
<1> QED BY <1>1, InvHolds, PTL DEF Spec, NoOvertaking

-----------------------------------------------------------------------------
(* The age of an answer. *)

\* What the check that runs has seen since call c was made, if c waits for its
\* answer and did not join it late, and what c's account is now.
FreshInv ==
    \A c \in Calls : Waiting(c) =>
        /\ credentials[IdOf[call[c].object]] \in seen[c]
        /\ (~late[c] /\ check # None /\ c \in Head(queue).calls) =>
              /\ check.result = "ok" => "valid" \in seen[c]
              /\ check.result = "unauthorized" => "expired" \in seen[c]


\* The history variables change nothing of what the queue does.
LEMMA HistoryIsSpec == HistorySpec => Spec
<1>1. HistoryInit => Init
  BY DEF HistoryInit
<1>2. [HistoryNext]_historyVars => [Next]_vars
  BY DEF HistoryNext, historyVars
<1> QED BY <1>1, <1>2, PTL DEF HistorySpec, Spec

\* The types of the history variables, and what they say of the calls.
HistoryInv ==
    /\ seen \in [Calls -> SUBSET {"valid", "expired"}]
    /\ late \in [Calls -> BOOLEAN]
    /\ FreshInv

\* A call that waits in the head of the queue waited there before the step, or
\* it was made by the step: then it joined late or a new check starts.
LEMMA WhoWaitsAtHead ==
    ASSUME Inv, Inv', [Next]_vars, NEW c \in Calls,
           Waiting(c)', check' # None, c \in Head(queue').calls
    PROVE  \/ check'.result = "pending"
           \/ ~Waiting(c) /\ running
           \/ /\ Waiting(c) /\ check # None /\ c \in Head(queue).calls
              /\ call'[c] = call[c]
              /\ check'.object = check.object
              /\ \/ check'.result = check.result
                 \/ ProviderReturns(check'.result)
<1>1. QueueOK(queue, call) /\ WorkerOK /\ RestOK
  BY InvIsQueueOK
<1>2. CASE \E d \in Calls, o \in Objects : EnsureCredentials(d, o)
  <2>1. PICK d \in Calls, o \in Objects : EnsureCredentials(d, o)
    BY <1>2
  <2>2. Joins({IdOf[o]}, {d}) \/ Starts({IdOf[o]})
    BY <2>1, EnsureCredentialsStep
  <2>3. CASE Starts({IdOf[o]})
    <3>1. PICK q \in Seq(Task) : StartNext(q)
      BY <2>3 DEF Starts
    <3> QED BY <3>1 DEF StartNext, NewCheck
  <2>4. CASE Joins({IdOf[o]}, {d})
    <3>1. /\ running
          /\ check' = check
          /\ Head(queue').calls \subseteq Head(queue).calls \cup {d}
      BY <2>4, JoinsKeepsChecking DEF Joins
    <3>2. CASE c = d
      BY <3>1, <3>2, <2>1 DEF EnsureCredentials
    <3>3. CASE c # d
      <4>1. c \in Head(queue).calls
        BY <3>1, <3>3
      <4>2. call'[c] = call[c]
        BY <2>1, <3>3, <1>1 DEF EnsureCredentials, RestOK
      <4> QED BY <3>1, <4>1, <4>2 DEF Waiting
    <3> QED BY <3>2, <3>3
  <2> QED BY <2>2, <2>3, <2>4
<1>3. CASE CheckCredentials
  <2>1. call' = call
    BY <1>3 DEF CheckCredentials
  <2>2. PICK S \in SUBSET Ids : Joins(S, {}) \/ Starts(S)
    BY <1>3, CheckCredentialsStep
  <2>3. CASE Starts(S)
    <3>1. PICK q \in Seq(Task) : StartNext(q)
      BY <2>3 DEF Starts
    <3> QED BY <3>1 DEF StartNext, NewCheck
  <2>4. CASE Joins(S, {})
    <3>1. check' = check /\ Head(queue').calls \subseteq Head(queue).calls
      BY <2>4, JoinsKeepsChecking DEF Joins
    <3> QED BY <3>1, <2>1 DEF Waiting
  <2> QED BY <2>2, <2>3, <2>4
<1>4. CASE Collect
  BY <1>4 DEF Collect, StartNext, NewCheck
<1>5. CASE Timeout
  <2>1. check # None /\ check \in Check
    BY <1>1, <1>5 DEF Timeout, WorkerOK
  <2>2. check'.object = check.object /\ check'.result = check.result
    BY <1>5, <2>1 DEF Timeout, Check
  <2> QED BY <1>5, <2>1, <2>2 DEF Timeout, Waiting
<1>6. CASE \E r \in Answers : ProviderReturns(r)
  <2>1. PICK r \in Answers : ProviderReturns(r)
    BY <1>6
  <2>2. check # None /\ check \in Check
    BY <1>1, <2>1 DEF ProviderReturns, WorkerOK
  <2>3. check'.object = check.object /\ check'.result = r
    BY <2>1, <2>2 DEF ProviderReturns, Check
  <2> QED BY <2>1, <2>2, <2>3 DEF ProviderReturns, Waiting
<1>7. CASE UNCHANGED <<queue, check, call>>
  BY <1>7 DEF Waiting
<1> QED BY <1>2, <1>3, <1>4, <1>5, <1>6, <1>7
        DEF Next, NetworkChanged, Reload, CredentialsChange, vars

\* The history of the calls stays in order.
LEMMA HistoryStep ==
    ASSUME Inv, Inv', HistoryInv, [HistoryNext]_historyVars
    PROVE  HistoryInv'
<1>1. CASE UNCHANGED historyVars
  BY <1>1 DEF historyVars, vars, HistoryInv, FreshInv, Waiting
<1>2. CASE HistoryNext
  <2>1. QueueOK(queue, call) /\ WorkerOK /\ RestOK
    BY InvIsQueueOK
  <2>2. /\ Inv' => RestOK'
    <3>1. (Inv => RestOK)'
      BY InvIsQueueOK, PTL
    <3> QED BY <3>1
  <2>3. \A c \in Calls : Waiting(c)' => IdOf[call'[c].object] \in Ids
    <3> SUFFICES ASSUME NEW c \in Calls, call'[c].state = "waiting"
                 PROVE  IdOf[call'[c].object] \in Ids
      BY DEF Waiting
    <3>1. call'[c] \in Call
      BY <2>2 DEF RestOK
    <3>2. call'[c].object \in Objects
      BY <3>1 DEF Call, Answers
    <3> QED BY <3>2, IdOfAssumption
  <2>4. seen' \in [Calls -> SUBSET {"valid", "expired"}]
    <3>1. \A c \in Calls : Waiting(c)' =>
             seen[c] \cup {credentials'[IdOf[call'[c].object]]} \subseteq {"valid", "expired"}
      BY <2>2, <2>3 DEF HistoryInv, RestOK
    <3>2. seen' = [c \in Calls |->
                     IF Waiting(c)' THEN seen[c] \cup {credentials'[IdOf[call'[c].object]]}
                                    ELSE {}]
      BY <1>2 DEF HistoryNext
    <3> QED BY <3>1, <3>2
  <2>5. late' = [c \in Calls |->
                  IF Waiting(c) THEN Waiting(c)' /\ late[c]
                                ELSE running /\ Waiting(c)' /\ c \in Head(queue').calls]
    BY <1>2 DEF HistoryNext
  <2>6. late' \in [Calls -> BOOLEAN]
    BY <2>1, <2>5, Zenon DEF HistoryInv, WorkerOK
  <2>7. FreshInv'
    <3> SUFFICES ASSUME NEW c \in Calls, Waiting(c)'
                 PROVE  /\ credentials'[IdOf[call'[c].object]] \in seen'[c]
                        /\ (~late'[c] /\ check' # None /\ c \in Head(queue').calls) =>
                              /\ check'.result = "ok" => "valid" \in seen'[c]
                              /\ check'.result = "unauthorized" => "expired" \in seen'[c]
      BY DEF FreshInv, Waiting
    <3>1. seen'[c] = seen[c] \cup {credentials'[IdOf[call'[c].object]]}
      BY <1>2 DEF HistoryNext
    <3> SUFFICES ASSUME ~late'[c], check' # None, c \in Head(queue').calls
                 PROVE  /\ check'.result = "ok" => "valid" \in seen'[c]
                        /\ check'.result = "unauthorized" => "expired" \in seen'[c]
      BY <3>1
    <3>2. [Next]_vars
      BY <1>2 DEF HistoryNext
    <3>3. CASE check'.result = "pending"
      BY <3>3
    <3>4. CASE ~Waiting(c) /\ running
      <4>1. late'[c]
        BY <3>4, <2>5
      <4> QED BY <4>1
    <3>5. CASE /\ Waiting(c) /\ check # None /\ c \in Head(queue).calls
               /\ call'[c] = call[c]
               /\ check'.object = check.object
               /\ \/ check'.result = check.result
                  \/ ProviderReturns(check'.result)
      <4>1. ~late[c]
        BY <3>5, <2>5
      <4>2. /\ credentials[IdOf[call[c].object]] \in seen[c]
            /\ check.result = "ok" => "valid" \in seen[c]
            /\ check.result = "unauthorized" => "expired" \in seen[c]
        BY <3>5, <4>1 DEF HistoryInv, FreshInv
      <4>3. CASE check'.result = check.result
        BY <4>2, <4>3, <3>1
      <4>4. CASE ProviderReturns(check'.result)
        <5>1. IdOf[check.object] = IdOf[call[c].object]
          <6>1. queue # <<>> /\ Head(queue).object = check.object
            BY <3>5, <2>1 DEF WorkerOK, HeadIsChecked
          <6>2. 1 \in DOMAIN queue /\ Head(queue) = queue[1]
            BY <6>1, <2>1, QueueFacts
          <6> QED BY <6>1, <6>2, <3>5, <2>1 DEF QueueOK
        <5>2. /\ check'.result = "ok" => credentials[IdOf[check.object]] = "valid"
              /\ check'.result = "unauthorized" => credentials[IdOf[check.object]] = "expired"
          BY <4>4 DEF ProviderReturns
        <5> QED BY <5>1, <5>2, <4>2, <3>1
      <4> QED BY <4>3, <4>4, <3>5
    <3> QED BY <3>2, <3>3, <3>4, <3>5, WhoWaitsAtHead
  <2> QED BY <2>4, <2>6, <2>7 DEF HistoryInv
<1> QED BY <1>1, <1>2

\* An answer never contradicts what the credentials were during the whole
\* call, unless the call joined a check that was running already.
THEOREM AnswersAreFresh == HistorySpec => FreshUnlessLate
<1>1. HistorySpec => []Inv
  BY HistoryIsSpec, InvHolds, PTL
<1>2. HistoryInit => HistoryInv
  BY DEF HistoryInit, HistoryInv, FreshInv, Init, Waiting
<1>3. HistorySpec => []HistoryInv
  BY <1>1, <1>2, HistoryStep, PTL DEF HistorySpec
<1>4. Inv /\ HistoryInv /\ [HistoryNext]_historyVars
        => [\A c \in Calls : late[c] \/ Deserved(c)]_historyVars
  <2> SUFFICES ASSUME Inv, HistoryInv, [HistoryNext]_historyVars, NEW c \in Calls,
                      ~late[c], NEW v \in {"ok", "unauthorized"},
                      Waiting(c), call'[c].state = v
               PROVE  /\ v = "ok" => "valid" \in seen[c]
                      /\ v = "unauthorized" => "expired" \in seen[c]
    BY DEF Deserved, AnsweredWith
  <2>1. QueueOK(queue, call) /\ WorkerOK /\ RestOK
    BY InvIsQueueOK
  <2>2. Collect
    <3>1. CASE \E d \in Calls, o \in Objects : EnsureCredentials(d, o)
      <4>1. PICK d \in Calls, o \in Objects : EnsureCredentials(d, o)
        BY <3>1
      <4>2. call'[c] = [state |-> "waiting", object |-> o] \/ call'[c] = call[c]
        BY <4>1, <2>1 DEF EnsureCredentials, RestOK
      <4> QED BY <4>2 DEF Waiting
    <3>2. CASE UNCHANGED call
      BY <3>2 DEF Waiting
    <3> QED BY <3>1, <3>2
            DEF HistoryNext, historyVars, Next, CheckCredentials, NetworkChanged, Timeout,
                ProviderReturns, Reload, CredentialsChange, vars
  <2>3. check # None /\ call' = Answered(Head(queue), Verdict)
    BY <2>2 DEF Collect
  <2>4. c \in Head(queue).calls /\ v = Verdict
    BY <2>3 DEF Answered, Waiting
  <2>5. check.result = v
    BY <2>4 DEF Verdict
  <2> QED BY <2>3, <2>4, <2>5 DEF HistoryInv, FreshInv
<1> QED BY <1>1, <1>3, <1>4, PTL DEF HistorySpec, FreshUnlessLate
=============================================================================
