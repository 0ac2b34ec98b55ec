--------------------------- MODULE AttentionProofs ---------------------------
(***************************************************************************)
(* Theorems about AccountAttention.tla and AttentionNotification.tla, for  *)
(* any accounts, calls, notification ids and number of messages under way: *)
(* the array of accounts agrees with their properties, the composed daemon *)
(* behaves as the notification expects, and the notification on the screen *)
(* is the one the daemon knows of.                                         *)
(***************************************************************************)
EXTENDS AccountAttention, EnsureCredentialsProofs

-----------------------------------------------------------------------------
(* The array accounts_needing_attention. *)

\* g_ptr_array_remove takes out the element it is asked to, and nothing else.
LEMMA RemoveFirstProperties ==
    ASSUME NEW S, NEW s \in Seq(S), NEW e,
           \A i, j \in DOMAIN s : s[i] = s[j] => i = j
    PROVE  /\ RemoveFirst(s, e) \in Seq(S)
           /\ ToSet(RemoveFirst(s, e)) = ToSet(s) \ {e}
           /\ \A i, j \in DOMAIN RemoveFirst(s, e) :
                 RemoveFirst(s, e)[i] = RemoveFirst(s, e)[j] => i = j
<1>1. Len(s) \in Nat /\ DOMAIN s = 1..Len(s)
  BY LenProperties
<1>2. CASE e \notin ToSet(s)
  <2>1. RemoveFirst(s, e) = s
    BY <1>1, <1>2 DEF RemoveFirst, ToSet
  <2> QED BY <2>1, <1>2
<1>3. CASE e \in ToSet(s)
  <2>1. PICK k \in 1..Len(s) : s[k] = e
    BY <1>1, <1>3 DEF ToSet
  <2> DEFINE I == {i \in 1..Len(s) : s[i] = e}
             r == RemoveFirst(s, e)
             a == SubSeq(s, 1, k - 1)
             b == SubSeq(s, k + 1, Len(s))
  <2>2. I = {k}
    BY <2>1, <1>1
  <2>3. (CHOOSE x \in I : \A y \in I : x =< y) = k
    BY <2>2
  <2>4. SelectInSeq(s, LAMBDA v : v = e) = k
    BY <2>2, <2>3 DEF SelectInSeq, Min
  <2>5. r = a \o b
    BY <2>1, <2>4 DEF RemoveFirst, RemoveAt
  <2>6. k \in Int /\ k - 1 \in Int /\ k + 1 \in Int /\ 1 =< k /\ k =< Len(s)
    BY <2>1, <1>1
  <2>7. /\ a \in Seq(S)
        /\ Len(a) = k - 1
        /\ \A i \in 1..(k - 1) : a[i] = s[i]
    <3>1. \A i \in 1..(k - 1) : s[i] \in S
      BY <2>6, <1>1, ElementOfSeq
    <3>2. /\ a \in Seq(S)
          /\ Len(a) = IF 1 <= k - 1 THEN (k - 1) - 1 + 1 ELSE 0
          /\ \A i \in 1..((k - 1) - 1 + 1) : a[i] = s[1 + i - 1]
      BY <3>1, <2>6, SubSeqProperties
    <3> HIDE DEF a
    <3> QED BY <3>2, <2>6
  <2>8. /\ b \in Seq(S)
        /\ Len(b) = Len(s) - k
        /\ \A i \in 1..(Len(s) - k) : b[i] = s[k + i]
    <3>1. \A i \in (k + 1)..Len(s) : s[i] \in S
      BY <2>6, <1>1, ElementOfSeq
    <3>2. /\ b \in Seq(S)
          /\ Len(b) = IF k + 1 <= Len(s) THEN Len(s) - (k + 1) + 1 ELSE 0
          /\ \A i \in 1..(Len(s) - (k + 1) + 1) : b[i] = s[(k + 1) + i - 1]
      BY <3>1, <2>6, <1>1, SubSeqProperties
    <3> HIDE DEF b
    <3>3. Len(b) = Len(s) - k
      BY <3>2, <2>6, <1>1
    <3>4. ASSUME NEW i \in 1..(Len(s) - k) PROVE b[i] = s[k + i]
      <4>1. i \in 1..(Len(s) - (k + 1) + 1) /\ (k + 1) + i - 1 = k + i
        BY <2>6, <1>1
      <4>2. b[i] = s[(k + 1) + i - 1]
        BY <3>2, <4>1
      <4> QED BY <4>1, <4>2
    <3> QED BY <3>2, <3>3, <3>4
  <2> HIDE DEF a, b, r
  <2>9. /\ r \in Seq(S)
        /\ DOMAIN r = 1..(Len(s) - 1)
        /\ \A i \in 1..(Len(s) - 1) : r[i] = IF i < k THEN s[i] ELSE s[i + 1]
    <3>1. /\ r \in Seq(S)
          /\ Len(r) = Len(a) + Len(b)
          /\ \A i \in 1..(Len(a) + Len(b)) : r[i] = IF i <= Len(a) THEN a[i] ELSE b[i - Len(a)]
      BY <2>5, <2>7, <2>8, ConcatProperties
    <3>2. Len(r) = Len(s) - 1 /\ DOMAIN r = 1..Len(r)
      BY <3>1, <2>7, <2>8, <2>6, <1>1, LenProperties
    <3>3. ASSUME NEW i \in 1..(Len(s) - 1) PROVE r[i] = IF i < k THEN s[i] ELSE s[i + 1]
      <4>1. r[i] = IF i <= k - 1 THEN a[i] ELSE b[i - (k - 1)]
        BY <3>1, <2>6, <2>7, <2>8, <1>1
      <4>2. CASE i < k
        BY <4>1, <4>2, <2>6, <2>7, <1>1
      <4>3. CASE ~(i < k)
        <5>1. i - (k - 1) \in 1..(Len(s) - k) /\ k + (i - (k - 1)) = i + 1 /\ ~(i <= k - 1)
          BY <4>3, <2>6, <1>1
        <5>2. b[i - (k - 1)] = s[k + (i - (k - 1))]
          BY <5>1, <2>8
        <5> QED BY <4>1, <4>3, <5>1, <5>2
      <4> QED BY <4>2, <4>3
    <3> QED BY <3>1, <3>2, <3>3
  <2>10. \A i \in DOMAIN r : \E n \in DOMAIN s : n # k /\ r[i] = s[n] /\ n = IF i < k THEN i ELSE i + 1
    BY <2>9, <2>6, <1>1
  <2>11. \A n \in DOMAIN s : n # k => \E i \in DOMAIN r : r[i] = s[n]
    <3> TAKE n \in DOMAIN s
    <3>1. CASE n < k
      <4>1. n \in DOMAIN r /\ r[n] = s[n]
        BY <3>1, <2>9, <2>6, <1>1
      <4> QED BY <4>1
    <3>2. CASE k < n
      <4>1. n - 1 \in DOMAIN r /\ ~(n - 1 < k) /\ (n - 1) + 1 = n
        BY <3>2, <2>9, <2>6, <1>1
      <4>2. r[n - 1] = s[n]
        BY <4>1, <2>9
      <4> QED BY <4>1, <4>2
    <3> QED BY <3>1, <3>2, <2>6, <1>1
  <2>12. ToSet(r) = ToSet(s) \ {e}
    <3>1. \A n \in DOMAIN s : s[n] = e <=> n = k
      BY <2>1, <1>1
    <3> QED BY <3>1, <2>10, <2>11 DEF ToSet
  <2>13. \A i, j \in DOMAIN r : r[i] = r[j] => i = j
    <3> SUFFICES ASSUME NEW i \in DOMAIN r, NEW j \in DOMAIN r, r[i] = r[j] PROVE i = j
      OBVIOUS
    <3>1. PICK n \in DOMAIN s : r[i] = s[n] /\ n = IF i < k THEN i ELSE i + 1
      BY <2>10
    <3>2. PICK m \in DOMAIN s : r[j] = s[m] /\ m = IF j < k THEN j ELSE j + 1
      BY <2>10
    <3>3. n = m
      BY <3>1, <3>2
    <3> QED BY <3>1, <3>2, <3>3, <2>6, <2>9, <1>1
  <2> QED BY <2>9, <2>12, <2>13 DEF r
<1> QED BY <1>2, <1>3

\* The names of the instance stand for the same operators.
LEMMA SameOperators ==
    /\ N!Accounts = ToSet(needing)
    /\ \A s, e : N!RemoveFirst(s, e) = RemoveFirst(s, e)
<1>1. N!Accounts = ToSet(needing)
  BY DEF N!Accounts, N!ToSet, ToSet
<1>2. \A s, e : N!RemoveFirst(s, e) = RemoveFirst(s, e)
  BY DEF N!RemoveFirst, RemoveFirst, N!RemoveAt, RemoveAt, N!SelectInSeq, SelectInSeq,
         N!Min, Min
<1> QED BY <1>1, <1>2

\* The composed daemon does nothing to the queue that the queue does not do.
LEMMA ComposedIsQueueStep == [AttentionNext]_avars => [Next]_vars
<1> SUFFICES ASSUME [AttentionNext]_avars PROVE [Next]_vars
  OBVIOUS
<1>1. CASE CollectAndUpdate
  BY <1>1 DEF CollectAndUpdate, Next
<1>2. CASE CheckAndUpdate
  BY <1>2 DEF CheckAndUpdate, Next
<1>3. ASSUME NEW o \in Objects, RemoveStarts(o) \/ RemoveCompletes(o) PROVE [Next]_vars
  BY <1>3 DEF RemoveStarts, RemoveCompletes, Next
<1>4. ASSUME NEW held \in BOOLEAN, Exit(held) PROVE [Next]_vars
  BY <1>4 DEF Exit
<1>5. CASE QueueStep
  BY <1>5 DEF QueueStep, Next
<1>6. CASE NotificationStep
  BY <1>6 DEF NotificationStep
<1>7. CASE UNCHANGED avars
  BY <1>7 DEF avars
<1> QED BY <1>1, <1>2, <1>3, <1>4, <1>5, <1>6, <1>7 DEF AttentionNext

\* So what is proved of the queue holds of it in the composed daemon.
LEMMA ComposedIsQueue == AttentionSpec => Spec
<1>1. AttentionInit => Init
  BY DEF AttentionInit
<1> QED BY <1>1, ComposedIsQueueStep, PTL DEF AttentionSpec, Spec

\* The objects of the tasks of q.
ObjectsOf(q) == {q[i].object : i \in DOMAIN q}

\* Starting the next task, or looking at the queue, moves tasks only.
LEMMA QueueCheckObjects ==
    ASSUME NEW q, QueueOK(q, call'), QueueCheck(q) \/ StartNext(q)
    PROVE  ObjectsOf(queue') = ObjectsOf(q)
<1>1. CASE queue' = q
  BY <1>1
<1>2. CASE queue' \in Sorted(q)
  <2>1. PICK p \in StableOrders(q) : queue' = [i \in DOMAIN q |-> q[p[i]]]
    BY <1>2 DEF Sorted
  <2>2. /\ p \in [DOMAIN q -> DOMAIN q]
        /\ \A k \in DOMAIN q : \E i \in DOMAIN q : p[i] = k
    BY <2>1 DEF StableOrders
  <2> QED BY <2>1, <2>2 DEF ObjectsOf
<1> QED BY <1>1, <1>2 DEF QueueCheck, StartNext

\* A task is made only for an object that is on the bus.
LEMMA TasksAreOfExported ==
    ASSUME Inv, [Next]_vars
    PROVE  ObjectsOf(queue') \subseteq ObjectsOf(queue) \cup exported
<1>1. /\ QueueOK(queue, call) /\ WorkerOK /\ RestOK
      /\ queue \in Seq(Task) /\ Len(queue) \in Nat /\ DOMAIN queue = 1..Len(queue)
  BY InvIsQueueOK, LenProperties DEF QueueOK
<1>2. CASE \E c \in Calls, o \in Objects : EnsureCredentials(c, o)
  <2>1. PICK c \in Calls, o \in Objects : EnsureCredentials(c, o)
    BY <1>2
  <2> DEFINE same == PositionsOf(queue, IdOf[o])
             t == NewTask(o, "high", {c})
             r == Append(queue, t)
  <2>2. CASE same = {} /\ QueueCheck(r)
    <3>1. /\ call[c].state # "waiting"
          /\ call'[c].state = "waiting"
          /\ call'[c].object = o
          /\ \A d \in Calls \ {c} : call'[d] = call[d]
      BY <2>1, <1>1 DEF EnsureCredentials, Waiting, RestOK
    <3>2. QueueOK(r, call')
      BY <2>2, <3>1, <1>1, AppendQueueOK
    <3>3. t \in Task /\ t.object = o
      BY DEF Task, NewTask
    <3> HIDE DEF t
    <3>4. /\ DOMAIN r = 1..(Len(queue) + 1)
          /\ \A i \in DOMAIN queue : r[i] = queue[i]
          /\ r[Len(queue) + 1] = t
      BY <3>3, <1>1, AppendProperties, LenProperties
    <3> HIDE DEF r
    <3>5. \A i \in DOMAIN r : i \in DOMAIN queue \/ i = Len(queue) + 1
      BY <3>4, <1>1
    <3>6. ObjectsOf(r) \subseteq ObjectsOf(queue) \cup {o}
      BY <3>3, <3>4, <3>5 DEF ObjectsOf
    <3>7. o \in exported
      BY <2>1 DEF EnsureCredentials
    <3>8. ObjectsOf(queue') = ObjectsOf(r)
      BY <2>2, <3>2, QueueCheckObjects
    <3> QED BY <3>6, <3>7, <3>8
  <2>3. CASE \E i \in same : queue' = Coalesce(queue, i, c)
    <3>1. PICK i \in DOMAIN queue : queue' = Coalesce(queue, i, c)
      BY <2>3 DEF PositionsOf
    <3>2. DOMAIN queue' = DOMAIN queue
      BY <3>1 DEF Coalesce
    <3>3. ASSUME NEW j \in DOMAIN queue PROVE queue'[j].object = queue[j].object
      <4>1. queue[j] \in Task
        BY <1>1, ElementOfSeq
      <4>2. CASE j = i
        BY <4>1, <4>2, <3>1 DEF Coalesce, Task
      <4>3. CASE j # i
        BY <4>3, <3>1 DEF Coalesce
      <4> QED BY <4>2, <4>3
    <3> QED BY <3>2, <3>3 DEF ObjectsOf
  <2> QED BY <2>1, <2>2, <2>3 DEF EnsureCredentials
<1>3. CASE CheckCredentials
  <2>1. PICK u \in Seq(Task) :
          /\ \A i \in DOMAIN u : u[i].object \in exported
          /\ \A i \in DOMAIN u : u[i].priority = "low" /\ u[i].calls = {}
          /\ \A i, j \in DOMAIN u : IdOf[u[i].object] = IdOf[u[j].object] => i = j
          /\ \A i \in DOMAIN u : PositionsOf(queue, IdOf[u[i].object]) = {}
          /\ QueueCheck(queue \o u)
    BY <1>3, CheckCredentialsRound
  <2> DEFINE r == queue \o u
  <2>2. QueueOK(r, call')
    BY <1>1, <1>3, <2>1, BackgroundQueueOK DEF CheckCredentials
  <2>3. ObjectsOf(queue') = ObjectsOf(r)
    BY <2>1, <2>2, QueueCheckObjects
  <2>4. Len(u) \in Nat /\ DOMAIN u = 1..Len(u)
    BY LenProperties
  <2>5. /\ r \in Seq(Task)
        /\ Len(r) = Len(queue) + Len(u)
        /\ \A i \in 1..(Len(queue) + Len(u)) :
              r[i] = IF i <= Len(queue) THEN queue[i] ELSE u[i - Len(queue)]
    BY <1>1, ConcatProperties
  <2> HIDE DEF r
  <2>6. DOMAIN r = 1..(Len(queue) + Len(u))
    BY <2>5, LenProperties
  <2>7. ASSUME NEW i \in DOMAIN r PROVE r[i].object \in ObjectsOf(queue) \cup exported
    <3>1. CASE i <= Len(queue)
      <4>1. r[i] = queue[i] /\ i \in DOMAIN queue
        BY <3>1, <2>5, <2>6, <1>1
      <4> QED BY <4>1 DEF ObjectsOf
    <3>2. CASE ~(i <= Len(queue))
      <4>1. r[i] = u[i - Len(queue)] /\ i - Len(queue) \in DOMAIN u
        BY <3>2, <2>4, <2>5, <2>6, <1>1
      <4> QED BY <4>1, <2>1
    <3> QED BY <3>1, <3>2
  <2> QED BY <2>3, <2>7 DEF ObjectsOf
<1>4. CASE Collect
  <2> DEFINE r == Tail(queue)
  <2>1. queue # <<>> /\ check \in Check /\ StartNext(r) /\ call' = Answered(Head(queue), Verdict)
    BY <1>1, <1>4 DEF Collect, WorkerOK, HeadIsChecked
  <2>2. Head(queue) \in Task /\ Verdict \in Answers
    BY <2>1, <1>1, <1>4, HeadTailProperties DEF Verdict, Check, Collect, Answers
  <2>3. QueueOK(r, call')
    <3>1. /\ \A c \in Head(queue).calls : call'[c].state # "waiting"
          /\ \A c \in Calls \ Head(queue).calls : call'[c] = call[c]
      BY <2>1, <2>2 DEF Answered, Answers, Task
    <3> QED BY <3>1, <2>1, <1>1, TailQueueOK
  <2>4. ObjectsOf(queue') = ObjectsOf(r)
    BY <2>1, <2>3, QueueCheckObjects
  <2>5. \A i \in DOMAIN r : i + 1 \in DOMAIN queue /\ r[i] = queue[i + 1]
    <3>1. /\ DOMAIN r = 1..(Len(queue) - 1)
          /\ \A i \in DOMAIN r : r[i] = queue[i + 1]
      BY <2>1, <1>1, HeadTailProperties, LenProperties
    <3> HIDE DEF r
    <3> QED BY <3>1, <1>1
  <2> HIDE DEF r
  <2> QED BY <2>4, <2>5 DEF ObjectsOf
<1>5. CASE UNCHANGED queue
  BY <1>5 DEF ObjectsOf
<1> QED BY <1>2, <1>3, <1>4, <1>5
        DEF Next, NetworkChanged, Timeout, ProviderReturns, Reload, CredentialsChange, vars

\* What ArrayMatchesProperty rests on: an object that was never on the bus has
\* neither the property set nor a task that could set it.
ArrayInv ==
    /\ ArrayMatchesProperty
    /\ needing \in Seq(Objects)
    /\ exported \cap unborn = {}
    /\ \A o \in unborn : ~attention[o]
    /\ ObjectsOf(queue) \cap unborn = {}

\* The head of a queue whose check has ended.
LEMMA CollectedHead ==
    ASSUME Inv, Collect
    PROVE  /\ Head(queue).object \in Objects
           /\ Head(queue).object \in ObjectsOf(queue)
           /\ attention \in [Objects -> BOOLEAN]
           /\ Attention(attention[Head(queue).object], Verdict) \in BOOLEAN
           /\ attention' = [attention EXCEPT ![Head(queue).object] =
                              Attention(attention[Head(queue).object], Verdict)]
           /\ UNCHANGED envVars
<1>1. QueueOK(queue, call) /\ WorkerOK /\ attention \in [Objects -> BOOLEAN]
  BY InvIsQueueOK DEF RestOK
<1>2. queue # <<>> /\ queue \in Seq(Task)
  BY <1>1 DEF Collect, WorkerOK, HeadIsChecked, QueueOK
<1>3. 1 \in DOMAIN queue /\ Head(queue) = queue[1] /\ Head(queue) \in Task
  BY <1>2, EmptySeq, LenProperties, HeadTailProperties
<1>4. Head(queue).object \in Objects
  BY <1>3 DEF Task
<1>5. Attention(attention[Head(queue).object], Verdict) \in BOOLEAN
  BY <1>1, <1>4 DEF Attention
<1> QED BY <1>1, <1>3, <1>4, <1>5 DEF Collect, ObjectsOf

\* The array and the property agree in a state whose array is list: as
\* ArrayMatchesProperty, with the state's parts as parameters.
Agree(list, bus, gone, att) ==
    /\ list \in Seq(Objects)
    /\ \A o \in bus \ gone : att[o] => o \in ToSet(list)
    /\ \A o \in ToSet(list) : att[o]
    /\ \A i, j \in DOMAIN list : list[i] = list[j] => i = j

LEMMA ArrayIsAgree ==
    ArrayInv <=> /\ Agree(needing, exported, removed, attention)
                 /\ exported \cap unborn = {}
                 /\ \A o \in unborn : ~attention[o]
                 /\ ObjectsOf(queue) \cap unborn = {}
  BY SameOperators DEF ArrayInv, ArrayMatchesProperty, Agree

LEMMA ArrayIsAgreeNext ==
    /\ Agree(needing', exported', removed', attention')
    /\ exported' \cap unborn' = {}
    /\ \A o \in unborn' : ~attention'[o]
    /\ ObjectsOf(queue') \cap unborn' = {}
    => ArrayInv'
<1>1. (/\ Agree(needing, exported, removed, attention)
       /\ exported \cap unborn = {}
       /\ \A o \in unborn : ~attention[o]
       /\ ObjectsOf(queue) \cap unborn = {})' => ArrayInv'
  BY ArrayIsAgree, PTL
<1> QED BY <1>1 DEF Agree, ObjectsOf

\* An account joins the array when its property becomes set.
LEMMA AppendAgrees ==
    ASSUME NEW list, NEW bus, NEW gone, NEW att \in [Objects -> BOOLEAN],
           Agree(list, bus, gone, att), NEW o \in Objects, ~att[o]
    PROVE  Agree(Append(list, o), bus, gone, [att EXCEPT ![o] = TRUE])
<1> DEFINE r == Append(list, o)
<1>1. list \in Seq(Objects) /\ Len(list) \in Nat /\ DOMAIN list = 1..Len(list)
  BY LenProperties DEF Agree
<1>2. /\ r \in Seq(Objects)
      /\ DOMAIN r = 1..(Len(list) + 1)
      /\ \A i \in DOMAIN list : r[i] = list[i]
      /\ r[Len(list) + 1] = o
  BY <1>1, AppendProperties, LenProperties
<1> HIDE DEF r
<1>3. \A i \in DOMAIN r : i \in DOMAIN list \/ i = Len(list) + 1
  BY <1>1, <1>2
<1>4. \A i \in DOMAIN list : i \in DOMAIN r /\ list[i] # o
  BY <1>1, <1>2 DEF Agree, ToSet
<1>5. Len(list) + 1 \in DOMAIN r
  BY <1>1, <1>2
<1>6. ToSet(r) = ToSet(list) \cup {o}
  BY <1>2, <1>3, <1>4, <1>5 DEF ToSet
<1>7. \A i, j \in DOMAIN r : r[i] = r[j] => i = j
  BY <1>2, <1>3, <1>4 DEF Agree
<1> QED BY <1>2, <1>6, <1>7 DEF Agree, r

\* It leaves when the property becomes clear.
LEMMA RemoveAgrees ==
    ASSUME NEW list, NEW bus, NEW gone, NEW att \in [Objects -> BOOLEAN],
           Agree(list, bus, gone, att), NEW o \in Objects
    PROVE  /\ Agree(RemoveFirst(list, o), bus, gone, [att EXCEPT ![o] = FALSE])
           /\ Agree(RemoveFirst(list, o), bus, gone \cup {o}, att)
<1>1. /\ RemoveFirst(list, o) \in Seq(Objects)
      /\ ToSet(RemoveFirst(list, o)) = ToSet(list) \ {o}
      /\ \A i, j \in DOMAIN RemoveFirst(list, o) :
            RemoveFirst(list, o)[i] = RemoveFirst(list, o)[j] => i = j
  BY RemoveFirstProperties DEF Agree
<1> QED BY <1>1 DEF Agree

\* The collector keeps array and property in step.
LEMMA CollectArray ==
    ASSUME Inv, ArrayInv, CollectAndUpdate
    PROVE  ArrayInv'
<1>1. PICK o \in Objects, b \in BOOLEAN :
        /\ o = Head(queue).object /\ o \in ObjectsOf(queue)
        /\ attention \in [Objects -> BOOLEAN]
        /\ attention' = [attention EXCEPT ![o] = b]
        /\ UNCHANGED <<exported, unborn>>
  <2>1. Head(queue).object \in Objects
    BY CollectedHead DEF CollectAndUpdate
  <2>2. Attention(attention[Head(queue).object], Verdict) \in BOOLEAN
    BY CollectedHead DEF CollectAndUpdate
  <2> QED BY <2>1, <2>2, CollectedHead DEF CollectAndUpdate, envVars
<1>2. /\ needing' = CASE ChangeOf(o) = "set" -> Append(needing, o)
                      [] ChangeOf(o) = "cleared" -> RemoveFirst(needing, o)
                      [] ChangeOf(o) = "kept" -> needing
      /\ removed' = removed
  BY <1>1, SameOperators DEF CollectAndUpdate, N!CheckEnds, NoRemoval
<1>3. /\ Agree(needing, exported, removed, attention)
      /\ exported \cap unborn = {}
      /\ \A p \in unborn : ~attention[p]
      /\ ObjectsOf(queue) \cap unborn = {}
  BY ArrayIsAgree
<1>4. attention'[o] = b
  BY <1>1
<1>5. Agree(needing', exported, removed, attention')
  <2>1. CASE b = attention[o]
    <3>1. attention' = attention
      BY <2>1, <1>1
    <3>2. needing' = needing
      BY <3>1, <1>2 DEF ChangeOf
    <3> QED BY <3>1, <3>2, <1>3
  <2>2. CASE b = TRUE /\ attention[o] = FALSE
    <3>1. needing' = Append(needing, o)
      BY <2>2, <1>2, <1>4 DEF ChangeOf
    <3>2. attention' = [attention EXCEPT ![o] = TRUE]
      BY <2>2, <1>1
    <3>3. ~attention[o] /\ attention \in [Objects -> BOOLEAN]
      BY <2>2, <1>1
    <3>4. Agree(Append(needing, o), exported, removed, [attention EXCEPT ![o] = TRUE])
      BY <3>3, <1>3, AppendAgrees
    <3> QED BY <3>1, <3>2, <3>4
  <2>3. CASE b = FALSE /\ attention[o] = TRUE
    <3>1. needing' = RemoveFirst(needing, o)
      BY <2>3, <1>2, <1>4 DEF ChangeOf
    <3>2. attention' = [attention EXCEPT ![o] = FALSE]
      BY <2>3, <1>1
    <3>3. attention \in [Objects -> BOOLEAN]
      BY <1>1
    <3>4. Agree(RemoveFirst(needing, o), exported, removed, [attention EXCEPT ![o] = FALSE])
      BY <3>3, <1>3, RemoveAgrees
    <3> QED BY <3>1, <3>2, <3>4
  <2> QED BY <2>1, <2>2, <2>3, <1>1
<1>6. \A p \in unborn' : ~attention'[p]
  BY <1>1, <1>3
<1>7. ObjectsOf(queue') \cap unborn' = {}
  <2>1. ObjectsOf(queue') \subseteq ObjectsOf(queue) \cup exported
    BY TasksAreOfExported DEF CollectAndUpdate, Next
  <2> QED BY <2>1, <1>1, <1>3
<1> QED BY <1>1, <1>2, <1>3, <1>5, <1>6, <1>7, ArrayIsAgreeNext

\* A reload brings to the bus only objects that never were there.
LEMMA ReloadArray ==
    ASSUME ArrayInv, Reload, NEW gone, Agree(needing', exported, gone, attention)
    PROVE  /\ Agree(needing', exported', gone, attention')
           /\ exported' \cap unborn' = {}
           /\ \A o \in unborn' : ~attention'[o]
           /\ ObjectsOf(queue') \cap unborn' = {}
<1>1. /\ exported \cap unborn = {}
      /\ \A o \in unborn : ~attention[o]
      /\ ObjectsOf(queue) \cap unborn = {}
  BY ArrayIsAgree
<1>2. /\ exported' \subseteq exported \cup unborn
      /\ unborn' = unborn \ exported'
      /\ attention' = attention /\ queue' = queue
  BY DEF Reload
<1> QED BY <1>1, <1>2 DEF Agree, ObjectsOf

\* Every step of the composed daemon keeps them in step.
LEMMA ArrayStep ==
    ASSUME Inv, ArrayInv, [AttentionNext]_avars
    PROVE  ArrayInv'
<1>1. CASE CollectAndUpdate
  BY <1>1, CollectArray
<1>2. ASSUME NEW o \in Objects, RemoveCompletes(o) PROVE ArrayInv'
  <2>1. /\ needing' = RemoveFirst(needing, o)
        /\ removed' = removed \cup {o}
        /\ Reload
    BY <1>2, SameOperators DEF RemoveCompletes, N!AccountRemoved
  <2>2. attention \in [Objects -> BOOLEAN]
    BY DEF Inv, TypeOK
  <2>3. Agree(needing', exported, removed', attention)
    BY <2>1, <2>2, RemoveAgrees, ArrayIsAgree
  <2> QED BY <2>1, <2>3, ReloadArray, ArrayIsAgreeNext
<1>3. CASE QueueStep /\ Reload
  <2>1. UNCHANGED <<needing, removed>>
    BY <1>3 DEF QueueStep, nvars, NoRemoval
  <2> QED BY <2>1, <1>3, ReloadArray, ArrayIsAgree, ArrayIsAgreeNext
<1>4. CASE UNCHANGED <<exported, unborn, attention, needing, removed>>
  <2>1. ObjectsOf(queue') \subseteq ObjectsOf(queue) \cup exported
    BY TasksAreOfExported, ComposedIsQueueStep
  <2>2. ObjectsOf(queue') \cap unborn' = {}
    BY <2>1, <1>4, ArrayIsAgree
  <2> QED BY <2>2, <1>4, ArrayIsAgree, ArrayIsAgreeNext
<1>5. CASE CheckAndUpdate
  <2>1. UNCHANGED <<exported, unborn, attention, needing, removed>>
    BY <1>5 DEF CheckAndUpdate, CheckCredentials, envVars, N!QueueFoundEmpty, nvars,
                NoRemoval
  <2> QED BY <2>1, <1>4
<1>6. ASSUME NEW o \in Objects, RemoveStarts(o) PROVE ArrayInv'
  <2>1. UNCHANGED <<exported, unborn, attention, needing, removed>>
    BY <1>6 DEF RemoveStarts, vars, nvars
  <2> QED BY <2>1, <1>4
<1>7. ASSUME NEW held \in BOOLEAN, Exit(held) PROVE ArrayInv'
  <2>1. UNCHANGED <<exported, unborn, attention, needing, removed>>
    BY <1>7 DEF Exit, N!Quit, vars, NoRemoval
  <2> QED BY <2>1, <1>4
<1>8. CASE QueueStep /\ ~Reload
  <2>1. UNCHANGED <<exported, unborn, attention, needing, removed>>
    BY <1>8 DEF QueueStep, EnsureCredentials, NetworkChanged, Timeout, ProviderReturns,
                CredentialsChange, envVars, nvars, NoRemoval
  <2> QED BY <2>1, <1>4
<1>9. CASE NotificationStep \/ UNCHANGED avars
  <2>1. UNCHANGED <<exported, unborn, attention, needing, removed>>
    BY <1>9 DEF NotificationStep, N!HandleMessage, N!ServerNotify, N!ServerClose,
                N!UserCloses, vars, nvars, avars, NoRemoval
  <2> QED BY <2>1, <1>4
<1> QED BY <1>1, <1>2, <1>3, <1>5, <1>6, <1>7, <1>8, <1>9 DEF AttentionNext

\* Every state the composed daemon reaches satisfies both invariants.
LEMMA ComposedInvHolds == AttentionSpec => [](Inv /\ ArrayInv)
<1>1. AttentionSpec => []Inv
  BY ComposedIsQueue, InvHolds, PTL
<1>2. AttentionInit => ArrayInv
  <2> SUFFICES ASSUME AttentionInit PROVE ArrayInv
    OBVIOUS
  <2>1. /\ needing = <<>> /\ queue = <<>> /\ attention = [o \in Objects |-> FALSE]
        /\ exported \subseteq Objects /\ unborn = Objects \ exported
    BY DEF AttentionInit, Init, N!NotificationInit
  <2>2. needing \in Seq(Objects) /\ ToSet(needing) = {} /\ ObjectsOf(queue) = {}
    BY <2>1, EmptySeq DEF ToSet, ObjectsOf
  <2> QED BY <2>1, <2>2, SameOperators DEF ArrayInv, ArrayMatchesProperty
<1> QED BY <1>1, <1>2, ArrayStep, PTL DEF AttentionSpec

\* accounts_needing_attention holds exactly the accounts whose AttentionNeeded
\* is set, once each, but for those that left the bus or were removed.
THEOREM ArrayFollowsProperty == AttentionSpec => []ArrayMatchesProperty
  BY ComposedInvHolds, PTL DEF ArrayInv

\* What AttentionNotification.tla takes for granted of the daemon is what the
\* queue does: each handler of the daemon is one step of the notification, and
\* an account is never set to need attention while the array holds it.
THEOREM DaemonIsNotification == AttentionSpec => NotificationBehaviour
<1>1. AttentionInit => N!NotificationInit
  BY DEF AttentionInit
<1>2. Inv /\ ArrayInv /\ [AttentionNext]_avars => [N!NotificationNext]_(N!nvars)
  <2> SUFFICES ASSUME Inv, ArrayInv, [AttentionNext]_avars
               PROVE  [N!NotificationNext]_(N!nvars)
    OBVIOUS
  <2>1. CASE CollectAndUpdate
    <3> DEFINE o == Head(queue).object
    <3>1. /\ o \in Objects
          /\ attention[o] \in BOOLEAN /\ attention'[o] \in BOOLEAN
      BY <2>1, CollectedHead DEF CollectAndUpdate
    <3>2. /\ Len(toServer) < MaxInFlight
          /\ N!CheckEnds(o, ChangeOf(o), queue' = <<>>)
      BY <2>1 DEF CollectAndUpdate, MainLoop
    <3>3. PICK drained \in BOOLEAN : drained = (queue' = <<>>)
      OBVIOUS
    <3>4. N!CheckEnds(o, ChangeOf(o), drained)
      BY <3>2, <3>3
    <3>5. \/ ChangeOf(o) = "set" /\ o \notin N!Accounts
          \/ ChangeOf(o) = "cleared"
          \/ ChangeOf(o) = "kept"
      BY <3>1 DEF ChangeOf, ArrayInv, ArrayMatchesProperty
    <3> HIDE DEF o
    <3>6. \/ o \notin N!Accounts /\ N!CheckEnds(o, "set", drained)
          \/ N!CheckEnds(o, "cleared", drained)
          \/ N!CheckEnds(o, "kept", drained)
      BY <3>4, <3>5
    <3> QED BY <3>1, <3>2, <3>6 DEF N!NotificationNext, N!CallsFromDaemon
  <2>2. CASE CheckAndUpdate
    BY <2>2 DEF CheckAndUpdate, MainLoop, N!NotificationNext, N!CallsFromDaemon, nvars, N!nvars
  <2>3. ASSUME NEW o \in Objects, RemoveStarts(o) \/ RemoveCompletes(o)
        PROVE  [N!NotificationNext]_(N!nvars)
    BY <2>3 DEF RemoveStarts, RemoveCompletes, MainLoop, N!NotificationNext,
                N!CallsFromDaemon, nvars, N!nvars
  <2>4. ASSUME NEW held \in BOOLEAN, Exit(held) PROVE [N!NotificationNext]_(N!nvars)
    BY <2>4 DEF Exit, N!NotificationNext
  <2>5. CASE QueueStep
    BY <2>5 DEF QueueStep, nvars, N!nvars
  <2>6. CASE NotificationStep
    BY <2>6 DEF NotificationStep, N!NotificationNext
  <2>7. CASE UNCHANGED avars
    BY <2>7 DEF avars, nvars, N!nvars
  <2> QED BY <2>1, <2>2, <2>3, <2>4, <2>5, <2>6, <2>7 DEF AttentionNext
<1> QED BY <1>1, <1>2, ComposedInvHolds, PTL
        DEF AttentionSpec, NotificationBehaviour, N!NotificationSpec

-----------------------------------------------------------------------------
(* The notification on the screen. *)

Message == [type: {"Notify", "Close", "Reply", "Error", "Closed"}, id: Nat]

NotificationTypeOK ==
    /\ notificationId \in Nat
    /\ toServer \in Seq(Message)
    /\ toDaemon \in Seq(Message)
    /\ shown \subseteq Nat \ {0}

\* The daemon that knows notification n will know f once it has handled q: the
\* last reply in q says which it has, and a later signal may say it is closed.
Settles(n, q, f) ==
    \E p \in 0..Len(q) :
        LET v == IF p = 0 THEN n ELSE q[p].id
        IN  /\ p # 0 => q[p].type = "Reply"
            /\ \A k \in DOMAIN q : k > p => q[k].type # "Reply"
            /\ f = IF \E k \in DOMAIN q : k > p /\ q[k].type = "Closed" /\ q[k].id = v
                     THEN 0 ELSE v

\* A message that is not a reply leaves it, unless it closes what f names.
LEMMA SettlesAppend ==
    ASSUME NEW n, NEW q \in Seq(Message), NEW f, Settles(n, q, f), NEW m \in Message
    PROVE  /\ m.type = "Reply" => Settles(n, Append(q, m), m.id)
           /\ m.type = "Closed" /\ m.id = f => Settles(n, Append(q, m), 0)
           /\ m.type # "Reply" /\ (m.type = "Closed" => m.id # f)
                => Settles(n, Append(q, m), f)
<1> DEFINE r == Append(q, m)
           l == Len(q) + 1
<1>1. Len(q) \in Nat /\ DOMAIN q = 1..Len(q)
  BY LenProperties
<1>2. /\ Len(r) = l /\ DOMAIN r = 1..l
      /\ \A i \in DOMAIN q : r[i] = q[i]
      /\ r[l] = m
  BY <1>1, AppendProperties, LenProperties
<1> HIDE DEF r
<1>3. l \in DOMAIN r /\ \A i \in DOMAIN r : i \in DOMAIN q \/ i = l
  BY <1>1, <1>2
<1>4. m.type = "Reply" => Settles(n, r, m.id)
  <2> SUFFICES ASSUME m.type = "Reply" PROVE Settles(n, r, m.id)
    OBVIOUS
  <2>1. l \in 0..Len(r) /\ l # 0 /\ \A k \in DOMAIN r : ~(k > l)
    BY <1>1, <1>2
  <2> QED BY <2>1, <1>2 DEF Settles
<1>5. PICK p \in 0..Len(q) :
        /\ p # 0 => q[p].type = "Reply"
        /\ \A k \in DOMAIN q : k > p => q[k].type # "Reply"
        /\ f = IF \E k \in DOMAIN q :
                    k > p /\ q[k].type = "Closed" /\ q[k].id = IF p = 0 THEN n ELSE q[p].id
                 THEN 0 ELSE IF p = 0 THEN n ELSE q[p].id
  BY DEF Settles
<1>6. /\ p \in 0..Len(r) /\ l > p
      /\ p # 0 => p \in DOMAIN q /\ r[p].type = "Reply" /\ r[p].id = q[p].id
  BY <1>1, <1>2, <1>5
<1> DEFINE v == IF p = 0 THEN n ELSE q[p].id
<1>7. v = IF p = 0 THEN n ELSE r[p].id
  BY <1>6
<1>8. m.type # "Reply" => \A k \in DOMAIN r : k > p => r[k].type # "Reply"
  BY <1>2, <1>3, <1>5
<1> DEFINE Shuts(s) == \E k \in DOMAIN s : k > p /\ s[k].type = "Closed" /\ s[k].id = v
<1>9. Shuts(r) <=> Shuts(q) \/ (m.type = "Closed" /\ m.id = v)
  <2>1. \A k \in DOMAIN q : k \in DOMAIN r /\ r[k] = q[k]
    BY <1>1, <1>2
  <2> HIDE DEF v
  <2> QED BY <2>1, <1>2, <1>3, <1>6
<1>10. f = IF Shuts(q) THEN 0 ELSE v
  BY <1>5
<1>11. m.type # "Reply" => Settles(n, r, IF Shuts(r) THEN 0 ELSE v)
  <2> SUFFICES ASSUME m.type # "Reply" PROVE Settles(n, r, IF Shuts(r) THEN 0 ELSE v)
    OBVIOUS
  <2>1. \E a \in 0..Len(r) :
           /\ a # 0 => r[a].type = "Reply"
           /\ \A k \in DOMAIN r : k > a => r[k].type # "Reply"
           /\ (IF Shuts(r) THEN 0 ELSE v)
                = IF \E k \in DOMAIN r : k > a /\ r[k].type = "Closed"
                                         /\ r[k].id = IF a = 0 THEN n ELSE r[a].id
                    THEN 0 ELSE IF a = 0 THEN n ELSE r[a].id
    <3> p \in 0..Len(r)
      BY <1>6
    <3> WITNESS p \in 0..Len(r)
    <3> QED BY <1>6, <1>7, <1>8
  <2> QED BY <2>1 DEF Settles
<1> HIDE DEF v, Shuts
<1>12. m.type = "Closed" /\ m.id = f => Settles(n, r, 0)
  <2> SUFFICES ASSUME m.type = "Closed", m.id = f PROVE Settles(n, r, 0)
    OBVIOUS
  <2>1. (IF Shuts(r) THEN 0 ELSE v) = 0
    BY <1>9, <1>10
  <2> QED BY <2>1, <1>11
<1>13. m.type # "Reply" /\ (m.type = "Closed" => m.id # f) => Settles(n, r, f)
  <2> SUFFICES ASSUME m.type # "Reply", m.type = "Closed" => m.id # f
               PROVE  Settles(n, r, f)
    OBVIOUS
  <2>1. (IF Shuts(r) THEN 0 ELSE v) = f
    BY <1>9, <1>10
  <2> QED BY <2>1, <1>11
<1> QED BY <1>4, <1>12, <1>13 DEF r

\* Handling the first message leaves what the daemon will know at the end.
LEMMA SettlesHandled ==
    ASSUME NEW n, NEW q \in Seq(Message), q # <<>>, NEW f, Settles(n, q, f)
    PROVE  Settles(CASE Head(q).type = "Reply" -> Head(q).id
                     [] Head(q).type = "Closed" /\ Head(q).id = n -> 0
                     [] OTHER -> n,
                   Tail(q), f)
<1> DEFINE r == Tail(q)
           n2 == CASE Head(q).type = "Reply" -> Head(q).id
                   [] Head(q).type = "Closed" /\ Head(q).id = n -> 0
                   [] OTHER -> n
<1>1. Len(q) \in Nat /\ DOMAIN q = 1..Len(q) /\ Len(q) > 0 /\ Head(q) = q[1] /\ 1 \in DOMAIN q
  BY EmptySeq, LenProperties
<1>2. /\ Len(r) = Len(q) - 1
      /\ DOMAIN r = 1..(Len(q) - 1)
      /\ \A k \in DOMAIN r : r[k] = q[k + 1]
  BY <1>1, HeadTailProperties, LenProperties
<1> HIDE DEF r
<1>3. \A k \in DOMAIN r : k + 1 \in DOMAIN q /\ k + 1 > 1
  BY <1>1, <1>2
<1>4. \A k \in DOMAIN q : k > 1 => k - 1 \in DOMAIN r /\ r[k - 1] = q[k]
  <2> SUFFICES ASSUME NEW k \in DOMAIN q, k > 1
               PROVE  k - 1 \in DOMAIN r /\ r[k - 1] = q[k]
    OBVIOUS
  <2>1. k - 1 \in DOMAIN r /\ (k - 1) + 1 = k
    BY <1>1, <1>2
  <2> QED BY <2>1, <1>2
<1>5. PICK p \in 0..Len(q) :
        /\ p # 0 => q[p].type = "Reply"
        /\ \A k \in DOMAIN q : k > p => q[k].type # "Reply"
        /\ f = IF \E k \in DOMAIN q :
                    k > p /\ q[k].type = "Closed" /\ q[k].id = IF p = 0 THEN n ELSE q[p].id
                 THEN 0 ELSE IF p = 0 THEN n ELSE q[p].id
  BY DEF Settles
<1> DEFINE p2 == IF p = 0 THEN 0 ELSE p - 1
           v == IF p = 0 THEN n ELSE q[p].id
           v2 == IF p2 = 0 THEN n2 ELSE r[p2].id
           S == \E k \in DOMAIN q : k > p /\ q[k].type = "Closed" /\ q[k].id = v
           S2 == \E k \in DOMAIN r : k > p2 /\ r[k].type = "Closed" /\ r[k].id = v2
<1>6. p2 \in 0..Len(r) /\ p2 \in Int /\ p \in Int
  BY <1>1, <1>2
<1>7. p2 # 0 => r[p2].type = "Reply" /\ r[p2].id = q[p].id
  <2> SUFFICES ASSUME p2 # 0 PROVE r[p2].type = "Reply" /\ r[p2].id = q[p].id
    OBVIOUS
  <2>1. p # 0 /\ p \in DOMAIN q /\ p > 1 /\ p2 = p - 1
    BY <1>1
  <2> QED BY <2>1, <1>4, <1>5
<1>8. \A k \in DOMAIN r : k > p2 => k + 1 > p
  BY <1>2, <1>6
<1>9. \A k \in DOMAIN r : k > p2 => r[k].type # "Reply"
  BY <1>2, <1>3, <1>5, <1>8
<1>10. f = IF S THEN 0 ELSE v
  BY <1>5
<1>11. f = IF S2 THEN 0 ELSE v2
  <2>1. CASE p = 0
    <3>1. p2 = 0 /\ v = n /\ v2 = n2 /\ q[1].type # "Reply"
      BY <2>1, <1>1, <1>5
    <3>2. CASE q[1].type = "Closed" /\ q[1].id = n
      <4>1. S
        BY <3>1, <3>2, <2>1, <1>1
      <4>2. v2 = 0
        BY <3>1, <3>2, <1>1
      <4> HIDE DEF S, v2, S2, v
      <4> QED BY <4>1, <4>2, <1>10
    <3>3. CASE ~(q[1].type = "Closed" /\ q[1].id = n)
      <4>1. v2 = n
        BY <3>1, <3>3, <1>1
      <4>2. S => S2
        <5> SUFFICES ASSUME S PROVE S2
          OBVIOUS
        <5>1. PICK k \in DOMAIN q : k > 0 /\ q[k].type = "Closed" /\ q[k].id = n
          BY <3>1, <2>1
        <5>2. k > 1
          BY <5>1, <3>3, <1>1
        <5>3. k - 1 \in DOMAIN r /\ r[k - 1] = q[k] /\ k - 1 > 0
          BY <5>2, <1>4, <1>1
        <5> HIDE DEF v2
        <5> QED BY <5>1, <5>3, <4>1, <3>1
      <4>3. S2 => S
        <5> SUFFICES ASSUME S2 PROVE S
          OBVIOUS
        <5> HIDE DEF v2
        <5>1. PICK k \in DOMAIN r : k > 0 /\ r[k].type = "Closed" /\ r[k].id = n
          BY <3>1, <4>1
        <5>2. k + 1 \in DOMAIN q /\ k + 1 > 0 /\ q[k + 1] = r[k]
          BY <1>1, <1>2, <1>3
        <5> QED BY <5>1, <5>2, <3>1, <2>1
      <4> HIDE DEF S, v2, S2, v
      <4> QED BY <4>1, <4>2, <4>3, <3>1, <1>10
    <3> QED BY <3>2, <3>3
  <2>2. CASE p # 0
    <3>1. p \in DOMAIN q /\ p2 = p - 1 /\ v = q[p].id
      BY <2>2, <1>1
    <3>2. v2 = v
      <4>1. CASE p = 1
        <5>1. p2 = 0 /\ n2 = q[1].id
          BY <4>1, <3>1, <1>1, <1>5
        <5> HIDE DEF n2
        <5> QED BY <5>1, <4>1, <3>1
      <4>2. CASE p # 1
        BY <4>2, <3>1, <1>7
      <4> QED BY <4>1, <4>2
    <3> HIDE DEF v, v2
    <3>3. S => S2
      <4> SUFFICES ASSUME NEW k \in DOMAIN q, k > p, q[k].type = "Closed", q[k].id = v
                   PROVE  S2
        OBVIOUS
      <4>1. k > 1 /\ k - 1 > p2
        BY <3>1, <1>1
      <4>2. k - 1 \in DOMAIN r /\ r[k - 1] = q[k]
        BY <4>1, <1>4
      <4> QED BY <4>1, <4>2, <3>2
    <3>4. S2 => S
      <4> SUFFICES ASSUME NEW k \in DOMAIN r, k > p2, r[k].type = "Closed", r[k].id = v2
                   PROVE  S
        OBVIOUS
      <4>1. k + 1 > p /\ k + 1 \in DOMAIN q /\ q[k + 1] = r[k]
        BY <1>2, <1>3, <1>8
      <4> QED BY <4>1, <3>2
    <3> HIDE DEF S, S2
    <3> QED BY <3>2, <3>3, <3>4, <1>10
  <2> QED BY <2>1, <2>2
<1>12. Settles(n2, r, f)
  <2> HIDE DEF p2, n2
  <2>1. p2 \in 0..Len(r)
    BY <1>6
  <2> QED BY <2>1, <1>7, <1>9, <1>11 DEF Settles
<1> QED BY <1>12 DEF r

\* With no message there is nothing to learn, and without a reply only that the
\* notification is gone.
LEMMA SettlesWithoutReply ==
    ASSUME NEW n, NEW q \in Seq(Message), NEW f, Settles(n, q, f)
    PROVE  /\ q = <<>> => f = n
           /\ (\A k \in DOMAIN q : q[k].type # "Reply") => f \in {n, 0}
<1>1. Len(q) \in Nat /\ DOMAIN q = 1..Len(q)
  BY LenProperties
<1>2. PICK p \in 0..Len(q) :
        /\ p # 0 => q[p].type = "Reply"
        /\ f = IF \E k \in DOMAIN q :
                    k > p /\ q[k].type = "Closed" /\ q[k].id = IF p = 0 THEN n ELSE q[p].id
                 THEN 0 ELSE IF p = 0 THEN n ELSE q[p].id
  BY DEF Settles
<1>3. p # 0 => p \in DOMAIN q
  BY <1>1
<1>4. (\A k \in DOMAIN q : q[k].type # "Reply") => p = 0
  BY <1>2, <1>3
<1>5. (\A k \in DOMAIN q : q[k].type # "Reply") => f \in {n, 0}
  BY <1>2, <1>4
<1>6. q = <<>> => f = n
  <2> SUFFICES ASSUME q = <<>> PROVE f = n
    OBVIOUS
  <2>1. DOMAIN q = {}
    OBVIOUS
  <2> QED BY <2>1, <1>2, <1>4
<1> QED BY <1>5, <1>6

IsNotify(i) == toServer[i].type = "Notify"

\* Of a running daemon that never updated before a reply was in: what it will
\* know is what is shown, and a Notify under way names all that is shown.
BeliefInv ==
    /\ \E f \in Nat : Settles(notificationId, toDaemon, f) /\ shown = {f} \ {0}
    /\ \A i, j \in DOMAIN toServer : IsNotify(i) /\ IsNotify(j) => i = j
    /\ \A i \in DOMAIN toServer : IsNotify(i) => shown \subseteq {toServer[i].id}

\* Nothing is on its way to the screen, and what is on it is about to go.
Withdrawn ==
    /\ \A i \in DOMAIN toServer : ~IsNotify(i)
    /\ \/ shown = {}
       \/ \E i \in DOMAIN toServer :
             toServer[i].type = "Close" /\ shown \subseteq {toServer[i].id}

NotificationInv ==
    /\ NotificationTypeOK
    /\ ~raced /\ process = "running" => BeliefInv
    /\ ~raced /\ (process = "finalized" \/ lastUpdate = "withdrawn") => Withdrawn

\* The two messages goa_daemon_update_notification sends, and all else that a
\* handler of the daemon's main loop leaves alone.
Notifies ==
    /\ process = "running"
    /\ toServer' = Append(toServer, N!Notify(notificationId))
    /\ lastUpdate' = "notified"
    /\ ~raced' => ~raced /\ ~N!NotifyOutstanding
    /\ UNCHANGED <<notificationId, process, toDaemon, shown>>

Withdraws ==
    /\ process = "running"
    /\ toServer' = IF notificationId > 0
                     THEN Append(toServer, N!CloseNotification(notificationId))
                     ELSE toServer
    /\ lastUpdate' = "withdrawn"
    /\ ~raced' => ~raced /\ ~N!NotifyOutstanding
    /\ UNCHANGED <<notificationId, process, toDaemon, shown>>

SaysNothing ==
    /\ ~raced' => ~raced
    /\ UNCHANGED <<notificationId, process, toServer, toDaemon, shown, lastUpdate>>

LEMMA CallsSend == N!CallsFromDaemon => Notifies \/ Withdraws \/ SaysNothing
<1>1. ASSUME NEW list, NEW need, N!UpdateNotification(list, need), process = "running",
             UNCHANGED <<notificationId, process, toDaemon, shown>>
      PROVE  Notifies \/ Withdraws \/ SaysNothing
  BY <1>1 DEF N!UpdateNotification, N!SendNotification, N!WithdrawNotification, Notifies,
              Withdraws, SaysNothing
<1>2. ASSUME NEW o, NEW change, NEW drained, N!CheckEnds(o, change, drained)
      PROVE  Notifies \/ Withdraws \/ SaysNothing
  <2>1. CASE drained
    BY <1>1, <1>2, <2>1 DEF N!CheckEnds
  <2>2. CASE ~drained
    BY <1>2, <2>2 DEF N!CheckEnds, N!NoUpdate, SaysNothing
  <2> QED BY <2>1, <2>2
<1>3. ASSUME N!QueueFoundEmpty PROVE Notifies \/ Withdraws \/ SaysNothing
  BY <1>1, <1>3 DEF N!QueueFoundEmpty
<1>4. ASSUME NEW o, N!AccountRemoved(o) PROVE Notifies \/ Withdraws \/ SaysNothing
  <2>1. CASE o \in N!Accounts
    BY <1>1, <1>4, <2>1 DEF N!AccountRemoved
  <2>2. CASE o \notin N!Accounts
    BY <1>4, <2>2 DEF N!AccountRemoved, N!NoUpdate, SaysNothing
  <2> QED BY <2>1, <2>2
<1> QED BY <1>2, <1>3, <1>4 DEF N!CallsFromDaemon

\* What is shown when no Notify is outstanding.
LEMMA ShownIsKnown ==
    ASSUME NotificationTypeOK, BeliefInv, ~N!NotifyOutstanding
    PROVE  /\ shown \subseteq {notificationId}
           /\ \A i \in DOMAIN toServer : ~IsNotify(i)
<1>1. PICK f \in Nat : Settles(notificationId, toDaemon, f) /\ shown = {f} \ {0}
  BY DEF BeliefInv
<1>2. \A k \in DOMAIN toDaemon : toDaemon[k].type # "Reply"
  BY DEF N!NotifyOutstanding
<1>3. f \in {notificationId, 0}
  BY <1>1, <1>2, SettlesWithoutReply DEF NotificationTypeOK
<1>4. \A i \in DOMAIN toServer : ~IsNotify(i)
  BY DEF N!NotifyOutstanding, IsNotify
<1> QED BY <1>1, <1>3, <1>4

\* Appending one message to a queue of messages.
LEMMA AppendMessage ==
    ASSUME NEW q \in Seq(Message), NEW m \in Message
    PROVE  /\ Append(q, m) \in Seq(Message)
           /\ Len(q) + 1 \in DOMAIN Append(q, m)
           /\ Append(q, m)[Len(q) + 1] = m
           /\ \A i \in DOMAIN q : i \in DOMAIN Append(q, m) /\ Append(q, m)[i] = q[i]
           /\ \A i \in DOMAIN Append(q, m) : i \in DOMAIN q \/ i = Len(q) + 1
<1> DEFINE r == Append(q, m)
<1>1. Len(q) \in Nat /\ DOMAIN q = 1..Len(q)
  BY LenProperties
<1>2. /\ r \in Seq(Message)
      /\ DOMAIN r = 1..(Len(q) + 1)
      /\ \A i \in DOMAIN q : r[i] = q[i]
      /\ r[Len(q) + 1] = m
  BY <1>1, AppendProperties, LenProperties
<1> HIDE DEF r
<1>3. \A i \in DOMAIN r : i \in DOMAIN q \/ i = Len(q) + 1
  BY <1>1, <1>2
<1>4. \A i \in DOMAIN q : i \in DOMAIN r
  BY <1>1, <1>2
<1>5. Len(q) + 1 \in DOMAIN r
  BY <1>1, <1>2
<1> QED BY <1>2, <1>3, <1>4, <1>5 DEF r

\* Taking the first message off a queue.
LEMMA TailMessage ==
    ASSUME NEW q \in Seq(Message), q # <<>>
    PROVE  /\ Tail(q) \in Seq(Message)
           /\ Head(q) \in Message
           /\ 1 \in DOMAIN q /\ Head(q) = q[1]
           /\ \A i \in DOMAIN Tail(q) :
                 i + 1 \in DOMAIN q /\ i + 1 # 1 /\ i \in Int /\ Tail(q)[i] = q[i + 1]
           /\ \A i \in DOMAIN q :
                 i # 1 => i - 1 \in DOMAIN Tail(q) /\ Tail(q)[i - 1] = q[i]
<1> DEFINE r == Tail(q)
<1>1. Len(q) \in Nat /\ DOMAIN q = 1..Len(q) /\ Len(q) > 0 /\ Head(q) = q[1]
      /\ 1 \in DOMAIN q
  BY EmptySeq, LenProperties
<1>2. /\ r \in Seq(Message) /\ Head(q) \in Message
      /\ DOMAIN r = 1..(Len(q) - 1)
      /\ \A i \in DOMAIN r : r[i] = q[i + 1]
  BY <1>1, HeadTailProperties, LenProperties
<1> HIDE DEF r
<1>3. \A i \in DOMAIN r : i + 1 \in DOMAIN q /\ i + 1 # 1 /\ i \in Int
  BY <1>1, <1>2
<1>4. ASSUME NEW i \in DOMAIN q, i # 1 PROVE i - 1 \in DOMAIN r /\ r[i - 1] = q[i]
  <2>1. i - 1 \in DOMAIN r /\ (i - 1) + 1 = i
    BY <1>1, <1>2, <1>4
  <2> QED BY <2>1, <1>2
<1> QED BY <1>1, <1>2, <1>3, <1>4 DEF r

\* The daemon's updates keep the invariant.
LEMMA NotifiesInv ==
    ASSUME NotificationInv, Notifies
    PROVE  NotificationInv'
<1> DEFINE m == N!Notify(notificationId)
           l == Len(toServer) + 1
<1>1. /\ NotificationTypeOK
      /\ m \in Message /\ m.type = "Notify" /\ m.id = notificationId
  BY DEF NotificationInv, NotificationTypeOK, N!Notify, Message
<1> HIDE DEF m
<1>2. /\ toServer' = Append(toServer, m)
      /\ UNCHANGED <<notificationId, process, toDaemon, shown>>
      /\ lastUpdate' = "notified" /\ process = "running"
      /\ ~raced' => ~raced /\ ~N!NotifyOutstanding
  BY DEF Notifies, m
<1>3. /\ toServer' \in Seq(Message)
      /\ l \in DOMAIN toServer' /\ toServer'[l] = m
      /\ \A i \in DOMAIN toServer : i \in DOMAIN toServer' /\ toServer'[i] = toServer[i]
      /\ \A i \in DOMAIN toServer' : i \in DOMAIN toServer \/ i = l
  BY <1>1, <1>2, AppendMessage DEF NotificationTypeOK
<1>4. NotificationTypeOK'
  BY <1>1, <1>2, <1>3 DEF NotificationTypeOK
<1>5. ASSUME ~raced' PROVE BeliefInv'
  <2>1. BeliefInv /\ ~N!NotifyOutstanding
    BY <1>2, <1>5 DEF NotificationInv
  <2>2. /\ shown \subseteq {notificationId}
        /\ \A i \in DOMAIN toServer : ~IsNotify(i)
    BY <1>1, <2>1, ShownIsKnown
  <2>3. \A i \in DOMAIN toServer' : toServer'[i].type = "Notify" => i = l
    BY <1>3, <2>2 DEF IsNotify
  <2> QED BY <1>1, <1>2, <1>3, <2>1, <2>2, <2>3 DEF BeliefInv, IsNotify
<1> QED BY <1>2, <1>4, <1>5 DEF NotificationInv

LEMMA WithdrawsInv ==
    ASSUME NotificationInv, Withdraws
    PROVE  NotificationInv'
<1> DEFINE m == N!CloseNotification(notificationId)
           l == Len(toServer) + 1
<1>1. /\ NotificationTypeOK
      /\ m \in Message /\ m.type = "Close" /\ m.id = notificationId
  BY DEF NotificationInv, NotificationTypeOK, N!CloseNotification, Message
<1> HIDE DEF m
<1>2. /\ toServer' = IF notificationId > 0 THEN Append(toServer, m) ELSE toServer
      /\ UNCHANGED <<notificationId, process, toDaemon, shown>>
      /\ process = "running"
      /\ ~raced' => ~raced /\ ~N!NotifyOutstanding
  BY DEF Withdraws, m
<1>3. /\ toServer' \in Seq(Message)
      /\ \A i \in DOMAIN toServer : i \in DOMAIN toServer' /\ toServer'[i] = toServer[i]
      /\ \A i \in DOMAIN toServer' : i \in DOMAIN toServer \/ toServer'[i] = m
      /\ notificationId > 0 => l \in DOMAIN toServer' /\ toServer'[l] = m
  <2>1. CASE notificationId > 0
    BY <2>1, <1>1, <1>2, AppendMessage DEF NotificationTypeOK
  <2>2. CASE ~(notificationId > 0)
    BY <2>2, <1>1, <1>2 DEF NotificationTypeOK
  <2> QED BY <2>1, <2>2
<1>4. NotificationTypeOK'
  BY <1>1, <1>2, <1>3 DEF NotificationTypeOK
<1>5. ASSUME ~raced' PROVE BeliefInv' /\ Withdrawn'
  <2>1. BeliefInv /\ ~N!NotifyOutstanding
    BY <1>2, <1>5 DEF NotificationInv
  <2>2. /\ shown \subseteq {notificationId}
        /\ \A i \in DOMAIN toServer : ~IsNotify(i)
    BY <1>1, <2>1, ShownIsKnown
  <2>3. \A i \in DOMAIN toServer' : toServer'[i].type # "Notify"
    BY <1>1, <1>3, <2>2 DEF IsNotify
  <2>4. BeliefInv'
    BY <1>2, <2>1, <2>3 DEF BeliefInv, IsNotify
  <2>5. shown' = {} \/ notificationId > 0
    BY <1>1, <1>2, <2>2 DEF NotificationTypeOK
  <2>6. Withdrawn'
    BY <1>1, <1>2, <1>3, <2>2, <2>3, <2>5 DEF Withdrawn, IsNotify
  <2> QED BY <2>4, <2>6
<1> QED BY <1>2, <1>4, <1>5 DEF NotificationInv

\* A handler that says nothing, and one that hears something.
LEMMA SaysNothingInv ==
    ASSUME NotificationInv, SaysNothing \/ UNCHANGED N!nvars
    PROVE  NotificationInv'
<1>1. /\ ~raced' => ~raced
      /\ UNCHANGED <<notificationId, process, toServer, toDaemon, shown, lastUpdate>>
  BY DEF SaysNothing, N!nvars
<1> QED BY <1>1 DEF NotificationInv, NotificationTypeOK, BeliefInv, Withdrawn, IsNotify

LEMMA HandleMessageInv ==
    ASSUME NotificationInv, N!HandleMessage
    PROVE  NotificationInv'
<1> DEFINE n2 == CASE Head(toDaemon).type = "Reply" -> Head(toDaemon).id
                   [] Head(toDaemon).type = "Closed" /\ Head(toDaemon).id = notificationId -> 0
                   [] OTHER -> notificationId
<1>1. /\ toDaemon # <<>> /\ toDaemon' = Tail(toDaemon) /\ notificationId' = n2
      /\ UNCHANGED <<process, toServer, shown, lastUpdate, raced>>
  BY DEF N!HandleMessage
<1>2. NotificationTypeOK
  BY DEF NotificationInv
<1>3. NotificationTypeOK'
  <2>1. Head(toDaemon) \in Message /\ Tail(toDaemon) \in Seq(Message)
    BY <1>1, <1>2, TailMessage DEF NotificationTypeOK
  <2>2. n2 \in Nat
    BY <1>2, <2>1 DEF NotificationTypeOK, Message
  <2> HIDE DEF n2
  <2> QED BY <1>1, <1>2, <2>1, <2>2 DEF NotificationTypeOK
<1>4. ASSUME BeliefInv PROVE BeliefInv'
  <2>1. PICK f \in Nat : Settles(notificationId, toDaemon, f) /\ shown = {f} \ {0}
    BY <1>4 DEF BeliefInv
  <2>2. Settles(n2, Tail(toDaemon), f)
    BY <1>1, <1>2, <2>1, SettlesHandled DEF NotificationTypeOK
  <2>3. Settles(notificationId', toDaemon', f)
    <3> HIDE DEF n2
    <3> QED BY <1>1, <2>2
  <2> QED BY <1>1, <1>4, <2>1, <2>3 DEF BeliefInv, IsNotify
<1>5. ASSUME Withdrawn PROVE Withdrawn'
  BY <1>1, <1>5 DEF Withdrawn, IsNotify
<1> QED BY <1>1, <1>3, <1>4, <1>5 DEF NotificationInv

\* The daemon ends: what it withdraws as its last act is what is shown.
LEMMA QuitInv ==
    ASSUME NotificationInv, NEW held \in BOOLEAN, N!Quit(held)
    PROVE  NotificationInv'
<1> DEFINE m == N!CloseNotification(notificationId)
           l == Len(toServer) + 1
           closes == ~held /\ notificationId > 0
<1>1. /\ NotificationTypeOK
      /\ m \in Message /\ m.type = "Close" /\ m.id = notificationId
  BY DEF NotificationInv, NotificationTypeOK, N!CloseNotification, Message
<1> HIDE DEF m
<1>2. /\ process = "running" /\ N!NotifyOutstanding => held
      /\ process' = IF held THEN "leaked" ELSE "finalized"
      /\ toServer' = IF closes THEN Append(toServer, m) ELSE toServer
      /\ toDaemon' = <<>>
      /\ UNCHANGED <<notificationId, shown, lastUpdate, raced>>
  BY DEF N!Quit, N!WithdrawNotification, m
<1>3. /\ toServer' \in Seq(Message)
      /\ \A i \in DOMAIN toServer : i \in DOMAIN toServer' /\ toServer'[i] = toServer[i]
      /\ \A i \in DOMAIN toServer' : i \in DOMAIN toServer \/ toServer'[i] = m
      /\ closes => l \in DOMAIN toServer' /\ toServer'[l] = m
  <2> HIDE DEF closes
  <2>1. CASE closes
    BY <2>1, <1>1, <1>2, AppendMessage DEF NotificationTypeOK
  <2>2. CASE ~closes
    BY <2>2, <1>1, <1>2 DEF NotificationTypeOK
  <2> QED BY <2>1, <2>2
<1>4. NotificationTypeOK'
  BY <1>1, <1>2, <1>3, EmptySeq DEF NotificationTypeOK
<1>5. ASSUME ~raced, lastUpdate = "withdrawn" PROVE Withdrawn'
  <2>1. Withdrawn
    BY <1>5 DEF NotificationInv
  <2> QED BY <1>1, <1>2, <1>3, <2>1 DEF Withdrawn, IsNotify
<1>6. ASSUME ~raced, process' = "finalized" PROVE Withdrawn'
  <2>1. ~held /\ BeliefInv /\ ~N!NotifyOutstanding
    <3>1. ~held
      BY <1>2, <1>6
    <3>2. ~N!NotifyOutstanding
      <4>1. N!NotifyOutstanding => held
        BY DEF N!Quit
      <4> QED BY <3>1, <4>1
    <3>3. BeliefInv
      <4>1. process = "running"
        BY DEF N!Quit
      <4>2. ~raced
        BY <1>6
      <4> QED BY <4>1, <4>2 DEF NotificationInv
    <3> QED BY <3>1, <3>2, <3>3
  <2>2. /\ shown \subseteq {notificationId}
        /\ \A i \in DOMAIN toServer : ~IsNotify(i)
    BY <1>1, <2>1, ShownIsKnown
  <2>3. \A i \in DOMAIN toServer' : toServer'[i].type # "Notify"
    BY <1>1, <1>3, <2>2 DEF IsNotify
  <2>4. shown' = {} \/ closes
    BY <1>1, <1>2, <2>1, <2>2 DEF NotificationTypeOK
  <2> QED BY <1>1, <1>2, <1>3, <2>2, <2>3, <2>4 DEF Withdrawn, IsNotify
<1>7. process' # "running"
  BY <1>2
<1> QED BY <1>2, <1>4, <1>5, <1>6, <1>7 DEF NotificationInv

\* The server serves a Notify: it is the only one, and it names what is shown.
LEMMA ServerNotifyInv ==
    ASSUME NotificationInv, N!ServerNotify
    PROVE  NotificationInv'
<1> DEFINE head == Head(toServer)
<1>1. /\ NotificationTypeOK
      /\ toServer # <<>> /\ head.type = "Notify" /\ toServer' = Tail(toServer)
      /\ UNCHANGED <<notificationId, process, lastUpdate, raced>>
  BY DEF N!ServerNotify, NotificationInv
<1>2. /\ toServer' \in Seq(Message) /\ head \in Message
      /\ 1 \in DOMAIN toServer /\ head = toServer[1]
      /\ \A i \in DOMAIN toServer' :
            i + 1 \in DOMAIN toServer /\ i + 1 # 1 /\ toServer'[i] = toServer[i + 1]
  BY <1>1, TailMessage DEF NotificationTypeOK
<1>3. PICK m \in Message, id \in Nat :
        /\ toDaemon' = IF process = "running" THEN Append(toDaemon, m) ELSE toDaemon
        /\ \/ m.type = "Error" /\ shown' = shown
           \/ /\ m.type = "Reply" /\ m.id = id /\ id # 0
              /\ head.id \in shown => id = head.id
              /\ shown' = shown \cup {id}
  <2>1. CASE N!Send(N!ErrorReply) /\ shown' = shown
    <3>1. N!ErrorReply \in Message /\ N!ErrorReply.type = "Error"
      BY DEF N!ErrorReply, Message
    <3> QED BY <2>1, <3>1 DEF N!Send
  <2>2. ASSUME NEW id \in IF head.id \in shown THEN {head.id}
                          ELSE {i \in N!UnusedIds : \A j \in N!UnusedIds : i <= j},
               N!Send(N!Reply(id)), shown' = shown \cup {id}
        PROVE  \E m \in Message, i \in Nat :
                 /\ toDaemon' = IF process = "running" THEN Append(toDaemon, m) ELSE toDaemon
                 /\ m.type = "Reply" /\ m.id = i /\ i # 0
                 /\ head.id \in shown => i = head.id
                 /\ shown' = shown \cup {i}
    <3>1. id \in Nat \ {0}
      BY <2>2, <1>1, NotificationIdsAssumption DEF N!UnusedIds, NotificationTypeOK
    <3>2. N!Reply(id) \in Message /\ N!Reply(id).type = "Reply" /\ N!Reply(id).id = id
      BY <3>1 DEF N!Reply, Message
    <3>3. head.id \in shown => id = head.id
      BY <2>2
    <3> QED BY <2>2, <3>1, <3>2, <3>3 DEF N!Send
  <2>3. \/ N!Send(N!ErrorReply) /\ shown' = shown
        \/ \E id \in IF head.id \in shown THEN {head.id}
                     ELSE {i \in N!UnusedIds : \A j \in N!UnusedIds : i <= j} :
              N!Send(N!Reply(id)) /\ shown' = shown \cup {id}
    BY DEF N!ServerNotify
  <2> QED BY <2>1, <2>2, <2>3
<1>4. NotificationTypeOK'
  <2>1. toDaemon' \in Seq(Message)
    <3>1. CASE process = "running"
      BY <3>1, <1>1, <1>3, AppendMessage DEF NotificationTypeOK
    <3>2. CASE process # "running"
      BY <3>2, <1>1, <1>3 DEF NotificationTypeOK
    <3> QED BY <3>1, <3>2
  <2>2. shown' \subseteq Nat \ {0}
    BY <1>1, <1>3 DEF NotificationTypeOK
  <2>3. toServer' \in Seq(Message)
    BY <1>2
  <2> QED BY <1>1, <2>1, <2>2, <2>3 DEF NotificationTypeOK
<1>5. ~(~raced /\ (process = "finalized" \/ lastUpdate = "withdrawn"))
  BY <1>1, <1>2 DEF NotificationInv, Withdrawn, IsNotify
<1>6. ASSUME ~raced, process = "running" PROVE BeliefInv'
  <2>1. BeliefInv
    BY <1>6 DEF NotificationInv
  <2>2. PICK f \in Nat : Settles(notificationId, toDaemon, f) /\ shown = {f} \ {0}
    BY <2>1 DEF BeliefInv
  <2>3. \A i \in DOMAIN toServer' : toServer'[i].type # "Notify"
    BY <1>1, <1>2, <2>1 DEF BeliefInv, IsNotify
  <2>4. toDaemon' = Append(toDaemon, m) /\ toDaemon \in Seq(Message)
    BY <1>1, <1>3, <1>6 DEF NotificationTypeOK
  <2>5. \E g \in Nat : Settles(notificationId', toDaemon', g) /\ shown' = {g} \ {0}
    <3>1. CASE m.type = "Error" /\ shown' = shown
      <4>1. Settles(notificationId, toDaemon', f)
        BY <3>1, <2>2, <2>4, SettlesAppend
      <4> QED BY <4>1, <3>1, <2>2, <1>1
    <3>2. CASE /\ m.type = "Reply" /\ m.id = id /\ id # 0
               /\ head.id \in shown => id = head.id
               /\ shown' = shown \cup {id}
      <4>1. Settles(notificationId, toDaemon', id)
        BY <3>2, <2>2, <2>4, SettlesAppend
      <4>2. shown \subseteq {head.id}
        BY <1>1, <1>2, <2>1 DEF BeliefInv, IsNotify
      <4>3. shown' = {id} \ {0}
        BY <3>2, <4>2
      <4> QED BY <4>1, <4>3, <1>1
    <3> QED BY <3>1, <3>2, <1>3
  <2> QED BY <2>3, <2>5 DEF BeliefInv, IsNotify
<1> QED BY <1>1, <1>4, <1>5, <1>6 DEF NotificationInv

\* A notification disappears, and the daemon will hear of it.
LEMMA ClosedBelief ==
    ASSUME NotificationTypeOK, NEW f \in Nat, Settles(notificationId, toDaemon, f),
           shown = {f} \ {0}, NEW id \in shown, process = "running",
           shown' = shown \ {id}, N!Send(N!NotificationClosed(id))
    PROVE  Settles(notificationId, toDaemon', 0) /\ shown' = {0} \ {0}
<1>1. f = id /\ id \in Nat /\ shown' = {}
  OBVIOUS
<1> DEFINE m == N!NotificationClosed(id)
<1>2. m \in Message /\ m.type = "Closed" /\ m.id = id
  BY <1>1 DEF N!NotificationClosed, Message
<1> HIDE DEF m
<1>3. toDaemon' = Append(toDaemon, m) /\ toDaemon \in Seq(Message)
  BY DEF N!Send, m, NotificationTypeOK
<1> QED BY <1>1, <1>2, <1>3, SettlesAppend

LEMMA ClosesInv ==
    ASSUME NotificationInv, N!ServerClose \/ N!UserCloses
    PROVE  NotificationInv'
<1>1. NotificationTypeOK
  BY DEF NotificationInv
<1>2. UNCHANGED <<notificationId, process, lastUpdate, raced>>
  BY DEF N!ServerClose, N!UserCloses
<1>3. PICK id \in Nat :
        /\ shown' = shown \ {id}
        /\ \/ id \in shown /\ N!Send(N!NotificationClosed(id))
           \/ id \notin shown /\ toDaemon' = toDaemon
        /\ \/ toServer' = toServer
           \/ /\ toServer # <<>> /\ toServer' = Tail(toServer)
              /\ Head(toServer).type = "Close" /\ Head(toServer).id = id
  <2>1. CASE N!UserCloses
    BY <2>1, <1>1 DEF N!UserCloses, NotificationTypeOK
  <2>2. CASE N!ServerClose
    <3>1. toServer # <<>> /\ Head(toServer) \in Message
      BY <2>2, <1>1, TailMessage DEF N!ServerClose, NotificationTypeOK
    <3>2. Head(toServer).id \in Nat
      BY <3>1 DEF Message
    <3> QED BY <2>2, <3>1, <3>2 DEF N!ServerClose
  <2> QED BY <2>1, <2>2
<1>4. NotificationTypeOK'
  <2>1. toServer' \in Seq(Message)
    BY <1>1, <1>3, TailMessage DEF NotificationTypeOK
  <2>2. toDaemon' \in Seq(Message)
    <3>1. N!NotificationClosed(id) \in Message
      BY DEF N!NotificationClosed, Message
    <3> QED BY <1>1, <1>3, <3>1, AppendMessage DEF N!Send, NotificationTypeOK
  <2> QED BY <1>1, <1>2, <1>3, <2>1, <2>2 DEF NotificationTypeOK
<1>5. \A i \in DOMAIN toServer' : \E k \in DOMAIN toServer :
         toServer'[i] = toServer[k] /\ k = IF toServer' = toServer THEN i ELSE i + 1
  <2>1. CASE toServer' = toServer
    BY <2>1
  <2>2. CASE toServer' # toServer
    BY <2>2, <1>1, <1>3, TailMessage DEF NotificationTypeOK
  <2> QED BY <2>1, <2>2
<1>6. \A i \in DOMAIN toServer' : i \in Int
  <2>1. DOMAIN toServer' = 1..Len(toServer')
    BY <1>4, LenProperties DEF NotificationTypeOK
  <2> QED BY <2>1
<1>7. ASSUME BeliefInv, process = "running" PROVE BeliefInv'
  <2>1. PICK f \in Nat : Settles(notificationId, toDaemon, f) /\ shown = {f} \ {0}
    BY <1>7 DEF BeliefInv
  <2>2. \E g \in Nat : Settles(notificationId', toDaemon', g) /\ shown' = {g} \ {0}
    <3>1. CASE id \in shown /\ N!Send(N!NotificationClosed(id))
      <4>1. Settles(notificationId, toDaemon', 0) /\ shown' = {0} \ {0}
        BY <3>1, <2>1, <1>1, <1>3, <1>7, ClosedBelief
      <4> QED BY <4>1, <1>2
    <3>2. CASE id \notin shown /\ toDaemon' = toDaemon
      <4>1. shown' = shown
        BY <3>2, <1>3
      <4> QED BY <4>1, <3>2, <2>1, <1>2
    <3> QED BY <3>1, <3>2, <1>3
  <2>3. \A i, j \in DOMAIN toServer' :
           toServer'[i].type = "Notify" /\ toServer'[j].type = "Notify" => i = j
    <3> SUFFICES ASSUME NEW i \in DOMAIN toServer', NEW j \in DOMAIN toServer',
                        toServer'[i].type = "Notify", toServer'[j].type = "Notify"
                 PROVE  i = j
      OBVIOUS
    <3>1. PICK k \in DOMAIN toServer : toServer'[i] = toServer[k]
                                       /\ k = IF toServer' = toServer THEN i ELSE i + 1
      BY <1>5
    <3>2. PICK l \in DOMAIN toServer : toServer'[j] = toServer[l]
                                       /\ l = IF toServer' = toServer THEN j ELSE j + 1
      BY <1>5
    <3>3. k = l
      BY <3>1, <3>2, <1>7 DEF BeliefInv, IsNotify
    <3>4. i \in Int /\ j \in Int
      BY <1>6
    <3> QED BY <3>1, <3>2, <3>3, <3>4
  <2>4. \A i \in DOMAIN toServer' :
           toServer'[i].type = "Notify" => shown' \subseteq {toServer'[i].id}
    BY <1>3, <1>5, <1>7 DEF BeliefInv, IsNotify
  <2> QED BY <2>2, <2>3, <2>4 DEF BeliefInv, IsNotify
<1>8. ASSUME Withdrawn PROVE Withdrawn'
  <2>1. \A i \in DOMAIN toServer' : toServer'[i].type # "Notify"
    BY <1>5, <1>8 DEF Withdrawn, IsNotify
  <2>2. \/ shown' = {}
        \/ \E i \in DOMAIN toServer' :
              toServer'[i].type = "Close" /\ shown' \subseteq {toServer'[i].id}
    <3>1. CASE shown = {}
      BY <3>1, <1>3
    <3>2. CASE \E i \in DOMAIN toServer :
                  toServer[i].type = "Close" /\ shown \subseteq {toServer[i].id}
      <4>1. PICK k \in DOMAIN toServer :
              toServer[k].type = "Close" /\ shown \subseteq {toServer[k].id}
        BY <3>2
      <4>2. CASE toServer' = toServer
        BY <4>1, <4>2, <1>3
      <4>3. CASE /\ toServer # <<>> /\ toServer' = Tail(toServer)
                 /\ Head(toServer).type = "Close" /\ Head(toServer).id = id
        <5>1. /\ Head(toServer) = toServer[1]
              /\ k # 1 => k - 1 \in DOMAIN toServer' /\ toServer'[k - 1] = toServer[k]
          BY <4>3, <1>1, TailMessage DEF NotificationTypeOK
        <5>2. CASE k = 1
          BY <5>1, <5>2, <4>1, <4>3, <1>3
        <5>3. CASE k # 1
          BY <5>1, <5>3, <4>1, <1>3
        <5> QED BY <5>2, <5>3
      <4> QED BY <4>2, <4>3, <1>3
    <3> QED BY <3>1, <3>2, <1>8 DEF Withdrawn
  <2> QED BY <2>1, <2>2 DEF Withdrawn, IsNotify
<1> QED BY <1>2, <1>4, <1>7, <1>8 DEF NotificationInv

\* Every state of the notification satisfies the invariant.
LEMMA NotificationInvHolds == N!NotificationSpec => []NotificationInv
<1>1. N!NotificationInit => NotificationInv
  <2> SUFFICES ASSUME N!NotificationInit PROVE NotificationInv
    OBVIOUS
  <2>1. /\ notificationId = 0 /\ toServer = <<>> /\ toDaemon = <<>> /\ shown = {}
        /\ process = "running" /\ lastUpdate = "none"
    BY DEF N!NotificationInit
  <2>2. NotificationTypeOK
    BY <2>1, EmptySeq DEF NotificationTypeOK
  <2>3. BeliefInv
    <3>1. Len(<<>>) = 0 /\ DOMAIN <<>> = {}
      OBVIOUS
    <3>2. Settles(0, <<>>, 0)
      BY <3>1 DEF Settles
    <3>3. 0 \in Nat /\ {0} \ {0} = {}
      OBVIOUS
    <3> QED BY <2>1, <3>1, <3>2, <3>3 DEF BeliefInv
  <2> QED BY <2>1, <2>2, <2>3 DEF NotificationInv
<1>2. NotificationInv /\ [N!NotificationNext]_(N!nvars) => NotificationInv'
  <2> SUFFICES ASSUME NotificationInv, [N!NotificationNext]_(N!nvars)
               PROVE  NotificationInv'
    OBVIOUS
  <2>1. CASE N!CallsFromDaemon
    BY <2>1, CallsSend, NotifiesInv, WithdrawsInv, SaysNothingInv
  <2>2. CASE N!HandleMessage
    BY <2>2, HandleMessageInv
  <2>3. ASSUME NEW held \in BOOLEAN, N!Quit(held) PROVE NotificationInv'
    BY <2>3, QuitInv
  <2>4. CASE N!ServerNotify
    BY <2>4, ServerNotifyInv
  <2>5. CASE N!ServerClose \/ N!UserCloses
    BY <2>5, ClosesInv
  <2>6. CASE UNCHANGED N!nvars
    BY <2>6, SaysNothingInv
  <2> QED BY <2>1, <2>2, <2>3, <2>4, <2>5, <2>6 DEF N!NotificationNext
<1> QED BY <1>1, <1>2, PTL DEF N!NotificationSpec

\* What the invariant says once nothing is under way.
LEMMA QuietStates ==
    ASSUME NotificationInv
    PROVE  N!BeliefSettles /\ N!ResolvedIsWithdrawn /\ N!ExitWithdraws
<1>1. ASSUME toServer = <<>>, Withdrawn PROVE shown = {}
  <2>1. DOMAIN toServer = {}
    BY <1>1
  <2> QED BY <2>1, <1>1 DEF Withdrawn
<1>2. ASSUME toDaemon = <<>>, BeliefInv PROVE shown = {notificationId} \ {0}
  <2>1. PICK f \in Nat : Settles(notificationId, toDaemon, f) /\ shown = {f} \ {0}
    BY <1>2 DEF BeliefInv
  <2>2. toDaemon \in Seq(Message)
    BY DEF NotificationInv, NotificationTypeOK
  <2>3. f = notificationId
    BY <1>2, <2>1, <2>2, SettlesWithoutReply
  <2> QED BY <2>1, <2>3
<1> QED BY <1>1, <1>2
        DEF NotificationInv, N!BeliefSettles, N!ResolvedIsWithdrawn, N!ExitWithdraws, N!Quiet

\* Once all messages have arrived, the daemon knows exactly the notification
\* that is on the screen, unless it updated while a reply was outstanding.
THEOREM DaemonKnowsWhatIsShown == AttentionSpec => []BeliefSettles
<1>1. NotificationInv => BeliefSettles
  BY QuietStates DEF BeliefSettles
<1> QED BY <1>1, DaemonIsNotification, NotificationInvHolds, PTL DEF NotificationBehaviour

\* Once the daemon decided that no account needs attention any more, and the
\* messages have arrived, nothing is on the screen, under the same condition.
THEOREM NothingShownWhenResolved == AttentionSpec => []ResolvedIsWithdrawn
<1>1. NotificationInv => ResolvedIsWithdrawn
  BY QuietStates DEF ResolvedIsWithdrawn
<1> QED BY <1>1, DaemonIsNotification, NotificationInvHolds, PTL DEF NotificationBehaviour

\* A daemon that is finalized leaves nothing on the screen, under the same
\* condition.
THEOREM NothingShownAfterExit == AttentionSpec => []ExitWithdraws
<1>1. NotificationInv => ExitWithdraws
  BY QuietStates DEF ExitWithdraws
<1> QED BY <1>1, DaemonIsNotification, NotificationInvHolds, PTL DEF NotificationBehaviour
=============================================================================
