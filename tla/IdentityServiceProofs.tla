----------------------- MODULE IdentityServiceProofs -----------------------
(***************************************************************************)
(* Theorems about IdentityService.tla, with the manager it composes, for   *)
(* any number of principals, calls and changes.                            *)
(*                                                                         *)
(* The inductive invariant has a part for each thing that several actors   *)
(* keep in step: the accounts and who is adding them, the requests for     *)
(* refreshes, the table and the caches, the start, the exports and the     *)
(* events on their way to them, and the two promises to look after an      *)
(* account.  What they say of the inbox is stated of any sequence of       *)
(* events, and each change of the inbox is one lemma.                      *)
(***************************************************************************)
EXTENDS IdentityService, FiniteSetTheorems, SequenceTheorems, TLAPS

Places == {"idle", "start", "inquire", "enumerate", "verify", "drop"}
Refreshing == {"enumerate", "verify", "drop"}
AccountKinds == {"account added", "account refused"}
ThreadKinds == Signals \cup {"listed", "found", "missing", "signed in", "refused",
                             "signed out"}
Events ==
    {e \in [kind : ThreadKinds \cup AccountKinds, id : Principals \cup {None},
            call : Calls \cup {None}] : e.kind # "listed" => e.id \in Principals}

PoolOK ==
    /\ pool \in [op : Operations \cup {None}, at : Places,
                 todo : SUBSET Principals, known : SUBSET Principals]
    /\ pool.at = "idle" => pool = IdlePool
    /\ pool.at # "idle" => /\ pool.op \in Operations
                           /\ pool.at \in Refreshing <=> pool.op.kind = "refresh"

ManagerTypeOK ==
    /\ cache \in [Principals -> Level] /\ level \in [Principals -> Level]
    /\ notify \in BOOLEAN /\ failed \in BOOLEAN /\ changes \in Nat
    /\ table \subseteq Principals /\ watched \subseteq Principals
    /\ queue \in Seq(Operations) /\ pending \in Nat
    /\ inbox \in Seq(Events)

ServiceTypeOK ==
    /\ running \in BOOLEAN
    /\ prompt \in {"none", "opening", "asking", "answered", "cancelled", "lost"}
    /\ enabled \in [Principals -> Nat] /\ disabled \in [Principals -> Nat]
    /\ request \in [Calls -> {"none", "pending", "done", "failed"}]
    /\ exports \subseteq Principals
    /\ adding \subseteq Principals /\ temporary \subseteq Principals
    /\ unchecked \subseteq Principals /\ excused \subseteq Principals
    /\ orphaned \subseteq Principals /\ hidden \subseteq Principals

\* The type invariant.
ServiceStateOK == PoolOK /\ ManagerTypeOK /\ ServiceTypeOK

-----------------------------------------------------------------------------
(* The inbox. *)

\* An event of one of kinds about p is on its way.
Has(q, kinds, p) == \E i \in DOMAIN q : q[i].kind \in kinds /\ q[i].id = p

\* No two answers to AddAccount about one principal are on their way.
AnswersOnce(q) ==
    \A i, j \in DOMAIN q :
        q[i].kind \in AccountKinds /\ q[j].kind \in AccountKinds /\ q[i].id = q[j].id => i = j

\* What makes an identity appear on the bus is about one of t, or it is on its
\* way to disappear again.
Follows(q, t) ==
    \A i \in DOMAIN q :
        q[i].kind \in {"added", "signed in"} =>
            \/ q[i].id \in t
            \/ \E j \in DOMAIN q : j > i /\ q[j].kind = "removed" /\ q[j].id = q[i].id

\* What a new event changes.
LEMMA AppendedEvent ==
    ASSUME NEW q \in Seq(Events), NEW e \in Events
    PROVE  /\ Append(q, e) \in Seq(Events)
           /\ \A kinds, p : Has(Append(q, e), kinds, p)
                              <=> Has(q, kinds, p) \/ (e.kind \in kinds /\ e.id = p)
           /\ AnswersOnce(q) /\ (e.kind \in AccountKinds => ~Has(q, AccountKinds, e.id))
                 => AnswersOnce(Append(q, e))
           /\ \A t, u :
                 /\ Follows(q, t)
                 /\ \A p \in t \ u : e.kind = "removed" /\ e.id = p
                 /\ e.kind \in {"added", "signed in"} => e.id \in u
                 => Follows(Append(q, e), u)
<1> DEFINE r == Append(q, e)
<1>1. Len(q) \in Nat /\ DOMAIN q = 1..Len(q)
  BY LenProperties
<1>2. /\ r \in Seq(Events)
      /\ DOMAIN r = 1..(Len(q) + 1)
      /\ \A i \in DOMAIN q : r[i] = q[i]
      /\ r[Len(q) + 1] = e
  BY <1>1, AppendProperties, LenProperties
<1> HIDE DEF r
<1>3. /\ \A i \in DOMAIN r : i \in DOMAIN q \/ i = Len(q) + 1
      /\ \A i \in DOMAIN q : i \in DOMAIN r /\ Len(q) + 1 > i
      /\ Len(q) + 1 \in DOMAIN r
  BY <1>1, <1>2
<1>4. \A kinds, p : Has(r, kinds, p) <=> Has(q, kinds, p) \/ (e.kind \in kinds /\ e.id = p)
  BY <1>2, <1>3 DEF Has
<1>5. ASSUME AnswersOnce(q), e.kind \in AccountKinds => ~Has(q, AccountKinds, e.id)
      PROVE  AnswersOnce(r)
  BY <1>2, <1>3, <1>5 DEF AnswersOnce, Has
<1>6. ASSUME NEW t, NEW u, Follows(q, t), \A p \in t \ u : e.kind = "removed" /\ e.id = p,
             e.kind \in {"added", "signed in"} => e.id \in u
      PROVE  Follows(r, u)
  <2> SUFFICES ASSUME NEW i \in DOMAIN r, r[i].kind \in {"added", "signed in"}, r[i].id \notin u
               PROVE  \E j \in DOMAIN r : j > i /\ r[j].kind = "removed" /\ r[j].id = r[i].id
    BY DEF Follows
  <2>1. i \in DOMAIN q /\ r[i] = q[i]
    BY <1>2, <1>3, <1>6
  <2>2. CASE q[i].id \in t
    <3>1. e.kind = "removed" /\ e.id = q[i].id
      BY <1>6, <2>1, <2>2
    <3> QED BY <3>1, <2>1, <1>2, <1>3
  <2>3. CASE q[i].id \notin t
    <3>1. PICK j \in DOMAIN q : j > i /\ q[j].kind = "removed" /\ q[j].id = q[i].id
      BY <1>6, <2>1, <2>3 DEF Follows
    <3> QED BY <3>1, <2>1, <1>2, <1>3
  <2> QED BY <2>2, <2>3
<1> QED BY <1>2, <1>4, <1>5, <1>6 DEF r

\* What handling the first event changes.
LEMMA HandledEvent ==
    ASSUME NEW q \in Seq(Events), q # <<>>
    PROVE  /\ Tail(q) \in Seq(Events) /\ Head(q) \in Events
           /\ \A kinds, p : Has(q, kinds, p)
                              <=> Has(Tail(q), kinds, p)
                                     \/ (Head(q).kind \in kinds /\ Head(q).id = p)
           /\ AnswersOnce(q) => /\ AnswersOnce(Tail(q))
                                /\ Head(q).kind \in AccountKinds
                                      => ~Has(Tail(q), AccountKinds, Head(q).id)
           /\ \A t : Follows(q, t) =>
                 /\ Follows(Tail(q), t)
                 /\ Head(q).kind \in {"added", "signed in"} =>
                       Head(q).id \in t \/ Has(Tail(q), {"removed"}, Head(q).id)
<1> DEFINE r == Tail(q)
<1>1. /\ Len(q) \in Nat /\ DOMAIN q = 1..Len(q) /\ Len(q) > 0 /\ Head(q) = q[1]
      /\ 1 \in DOMAIN q
  BY EmptySeq, LenProperties
<1>2. /\ r \in Seq(Events) /\ Head(q) \in Events
      /\ DOMAIN r = 1..(Len(q) - 1)
      /\ \A i \in DOMAIN r : r[i] = q[i + 1]
  BY <1>1, HeadTailProperties, LenProperties
<1> HIDE DEF r
<1>3. ASSUME NEW i \in DOMAIN r
      PROVE  i \in Nat /\ i + 1 \in DOMAIN q /\ i + 1 > 1 /\ r[i] = q[i + 1]
  BY <1>1, <1>2
<1>4. ASSUME NEW i \in DOMAIN q, i # 1 PROVE i - 1 \in DOMAIN r /\ r[i - 1] = q[i]
  <2>1. i - 1 \in DOMAIN r /\ (i - 1) + 1 = i
    BY <1>1, <1>2, <1>4
  <2> QED BY <2>1, <1>2
<1>5. ASSUME NEW kinds, NEW p
      PROVE  Has(q, kinds, p) <=> Has(r, kinds, p) \/ (Head(q).kind \in kinds /\ Head(q).id = p)
  <2>1. ASSUME Has(q, kinds, p) PROVE Has(r, kinds, p) \/ (q[1].kind \in kinds /\ q[1].id = p)
    <3>1. PICK i \in DOMAIN q : q[i].kind \in kinds /\ q[i].id = p
      BY <2>1 DEF Has
    <3> QED BY <3>1, <1>4 DEF Has
  <2>2. ASSUME Has(r, kinds, p) PROVE Has(q, kinds, p)
    <3>1. PICK i \in DOMAIN r : r[i].kind \in kinds /\ r[i].id = p
      BY <2>2 DEF Has
    <3> QED BY <3>1, <1>3 DEF Has
  <2> QED BY <2>1, <2>2, <1>1 DEF Has
<1>6. ASSUME AnswersOnce(q) PROVE AnswersOnce(r)
  <2> SUFFICES ASSUME NEW i \in DOMAIN r, NEW j \in DOMAIN r, r[i].kind \in AccountKinds,
                      r[j].kind \in AccountKinds, r[i].id = r[j].id
               PROVE  i = j
    BY DEF AnswersOnce
  <2>1. i + 1 = j + 1
    BY <1>3, <1>6 DEF AnswersOnce
  <2> QED BY <2>1, <1>3
<1>7. ASSUME AnswersOnce(q), q[1].kind \in AccountKinds PROVE ~Has(r, AccountKinds, q[1].id)
  <2> SUFFICES ASSUME NEW i \in DOMAIN r, r[i].kind \in AccountKinds, r[i].id = q[1].id
               PROVE  FALSE
    BY DEF Has
  <2>1. i + 1 = 1
    BY <1>1, <1>3, <1>7 DEF AnswersOnce
  <2> QED BY <2>1, <1>3
<1>8. ASSUME NEW i \in DOMAIN r, NEW j \in DOMAIN q, j > i + 1
      PROVE  j - 1 \in DOMAIN r /\ j - 1 > i /\ r[j - 1] = q[j]
  <2>1. i \in Nat /\ j \in Nat
    BY <1>1, <1>3
  <2>2. j # 1 /\ j - 1 > i
    BY <2>1, <1>8
  <2> QED BY <2>2, <1>4
<1>9. ASSUME NEW t, Follows(q, t) PROVE Follows(r, t)
  <2> SUFFICES ASSUME NEW i \in DOMAIN r, r[i].kind \in {"added", "signed in"}, r[i].id \notin t
               PROVE  \E j \in DOMAIN r : j > i /\ r[j].kind = "removed" /\ r[j].id = r[i].id
    BY DEF Follows
  <2>1. PICK j \in DOMAIN q : j > i + 1 /\ q[j].kind = "removed" /\ q[j].id = q[i + 1].id
    BY <1>3, <1>9 DEF Follows
  <2>2. j - 1 \in DOMAIN r /\ j - 1 > i /\ r[j - 1] = q[j]
    BY <2>1, <1>8
  <2>3. r[i] = q[i + 1]
    BY <1>3
  <2>4. r[j - 1].kind = "removed" /\ r[j - 1].id = r[i].id
    BY <2>1, <2>2, <2>3, Zenon
  <2> QED BY <2>2, <2>4, Zenon
<1>10. ASSUME NEW t, Follows(q, t), q[1].kind \in {"added", "signed in"},
              q[1].id \notin t
       PROVE  Has(r, {"removed"}, q[1].id)
  <2>1. PICK j \in DOMAIN q : j > 1 /\ q[j].kind = "removed" /\ q[j].id = q[1].id
    BY <1>1, <1>10 DEF Follows
  <2> QED BY <2>1, <1>4 DEF Has
<1> QED BY <1>1, <1>2, <1>5, <1>6, <1>7, <1>9, <1>10 DEF r

-----------------------------------------------------------------------------
(* The type invariant. *)

\* The events that the thread and the daemon send.
LEMMA EventsSent ==
    /\ \A kind \in (ThreadKinds \cup AccountKinds) \ {"listed"}, p \in Principals,
          c \in Calls \cup {None} : [kind |-> kind, id |-> p, call |-> c] \in Events
    /\ [kind |-> "listed", id |-> None, call |-> None] \in Events
  BY DEF Events, ThreadKinds

\* The operations pushed.
LEMMA OperationsPushed ==
    /\ \A kind \in {"get", "sign in", "sign out", "renew"}, p \in Principals,
          c \in Calls \cup {None} : Op(kind, p, c) \in Operations
    /\ RefreshOp \in Operations /\ Op("list", None, None) \in Operations
  BY DEF Operations, Op, RefreshOp

LEMMA InitTypes == Init => ServiceStateOK
<1> SUFFICES ASSUME Init PROVE ServiceStateOK
  OBVIOUS
<1>1. ManagerTypeOK
  <2>1. queue = <<RefreshOp, Op("list", None, None)>> /\ queue \in Seq(Operations)
    <3>1. ASSUME NEW o \in Operations, NEW u \in Operations PROVE <<o, u>> \in Seq(Operations)
      OBVIOUS
    <3> QED BY <3>1, OperationsPushed DEF Init, ManagerInit
  <2>2. inbox \in Seq(Events)
    BY DEF Init, ManagerInit
  <2> QED BY <2>1, <2>2 DEF Init, ManagerInit, ManagerTypeOK, Level
<1>2. PoolOK
  BY DEF Init, ManagerInit, PoolOK, IdlePool, Places
<1>3. ServiceTypeOK
  <2>1. enabled \in [Principals -> Nat] /\ disabled \in [Principals -> Nat]
    <3>1. enabled \in [Principals -> 0 .. 1] /\ disabled \in [Principals -> 0 .. 1]
      BY DEF Init, ServiceInit
    <3> QED BY <3>1
  <2> QED BY <2>1 DEF Init, ServiceInit, ServiceTypeOK
<1> QED BY <1>1, <1>2, <1>3 DEF ServiceStateOK

\* What the thread is at in the middle of an operation.
LEMMA AtPlaces ==
    ASSUME PoolOK, NEW place, At(place)
    PROVE  /\ pool.op \in Operations /\ pool.at = place /\ ~Waiting
           /\ pool.op.kind \notin {"refresh", "list"} => pool.op.id \in Principals
           /\ pool.op.call \in Calls \cup {None}
  BY DEF PoolOK, At, IdlePool, Operations

\* The thread takes operations one after the other.
LEMMA FreeThread ==
    ASSUME PoolOK, Free
    PROVE  /\ pool = IdlePool /\ pool.at = "idle" /\ ~Waiting /\ queue # <<>>
           /\ pool.known = {} /\ pool.todo = {} /\ pool.op = None
  BY NoneAssumption DEF PoolOK, Free, IdlePool

\* Taking the first operation of the queue.
LEMMA TakenOperation ==
    ASSUME NEW q \in Seq(Operations), q # <<>>
    PROVE  /\ Tail(q) \in Seq(Operations) /\ Head(q) \in Operations
           /\ 1 \in DOMAIN q /\ Head(q) = q[1]
           /\ \A i \in DOMAIN Tail(q) :
                 i \in Nat /\ i + 1 \in DOMAIN q /\ i + 1 > 1 /\ Tail(q)[i] = q[i + 1]
           /\ \A i \in DOMAIN q :
                 i # 1 => i - 1 \in DOMAIN Tail(q) /\ Tail(q)[i - 1] = q[i]
<1> DEFINE r == Tail(q)
<1>1. /\ Len(q) \in Nat /\ DOMAIN q = 1..Len(q) /\ Len(q) > 0 /\ Head(q) = q[1]
      /\ 1 \in DOMAIN q
  BY EmptySeq, LenProperties
<1>2. /\ r \in Seq(Operations) /\ Head(q) \in Operations
      /\ DOMAIN r = 1..(Len(q) - 1)
      /\ \A i \in DOMAIN r : r[i] = q[i + 1]
  BY <1>1, HeadTailProperties, LenProperties
<1> HIDE DEF r
<1>3. \A i \in DOMAIN r : i \in Nat /\ i + 1 \in DOMAIN q /\ i + 1 > 1
  BY <1>1, <1>2
<1>4. ASSUME NEW i \in DOMAIN q, i # 1 PROVE i - 1 \in DOMAIN r /\ r[i - 1] = q[i]
  <2>1. i - 1 \in DOMAIN r /\ (i - 1) + 1 = i
    BY <1>1, <1>2, <1>4
  <2> QED BY <2>1, <1>2
<1> QED BY <1>1, <1>2, <1>3, <1>4 DEF r

\* Pushing one.
LEMMA PushedOperation ==
    ASSUME NEW q \in Seq(Operations), NEW o \in Operations
    PROVE  /\ Append(q, o) \in Seq(Operations)
           /\ Len(q) \in Nat /\ DOMAIN q = 1..Len(q)
           /\ Len(q) + 1 \in DOMAIN Append(q, o) /\ Append(q, o)[Len(q) + 1] = o
           /\ \A i \in DOMAIN q : i \in DOMAIN Append(q, o) /\ Append(q, o)[i] = q[i]
           /\ \A i \in DOMAIN Append(q, o) : i \in DOMAIN q \/ i = Len(q) + 1
<1> DEFINE r == Append(q, o)
<1>1. Len(q) \in Nat /\ DOMAIN q = 1..Len(q)
  BY LenProperties
<1>2. /\ r \in Seq(Operations)
      /\ DOMAIN r = 1..(Len(q) + 1)
      /\ \A i \in DOMAIN q : r[i] = q[i]
      /\ r[Len(q) + 1] = o
  BY <1>1, AppendProperties, LenProperties
<1> HIDE DEF r
<1>3. /\ \A i \in DOMAIN r : i \in DOMAIN q \/ i = Len(q) + 1
      /\ \A i \in DOMAIN q : i \in DOMAIN r
      /\ Len(q) + 1 \in DOMAIN r
  BY <1>1, <1>2
<1> QED BY <1>1, <1>2, <1>3 DEF r

\* What an identity is found to be.
LEMMA VerifiedTypes ==
    ASSUME ServiceStateOK, NEW p \in Principals, NEW l \in Level, Verified(p, l)
    PROVE  level' \in [Principals -> Level] /\ queue' \in Seq(Operations) /\ pending' \in Nat
<1>1. Append(queue, RefreshOp) \in Seq(Operations)
  BY PushedOperation, OperationsPushed DEF ServiceStateOK, ManagerTypeOK
<1>2. level' \in [Principals -> Level]
  BY DEF Verified, ServiceStateOK, ManagerTypeOK
<1>3. queue \in Seq(Operations) /\ pending \in Nat
  BY DEF ServiceStateOK, ManagerTypeOK
<1>4. queue' \in {queue, Append(queue, RefreshOp)} /\ pending' \in {pending, pending + 1}
  BY DEF Verified, ScheduleRefresh
<1> QED BY <1>1, <1>2, <1>3, <1>4

\* What the thread sends.
LEMMA SentTypes ==
    ASSUME ServiceStateOK, NEW kind \in (ThreadKinds \cup AccountKinds) \ {"listed"},
           NEW p \in Principals, NEW c \in Calls \cup {None}, Send(kind, p, c)
    PROVE  inbox' \in Seq(Events)
<1>1. [kind |-> kind, id |-> p, call |-> c] \in Events
  BY EventsSent
<1> QED BY <1>1, AppendedEvent DEF Send, ServiceStateOK, ManagerTypeOK

LEMMA ThreadTypes ==
    ASSUME ServiceStateOK, Thread
    PROVE  ServiceStateOK'
<1>1. PoolOK /\ ManagerTypeOK /\ ServiceTypeOK
  BY DEF ServiceStateOK
<1>2. ServiceTypeOK'
  BY <1>1 DEF Thread, Marked, ServiceTypeOK
<1>3. (Tail(queue) \in Seq(Operations) /\ Head(queue) \in Operations) \/ queue = <<>>
  BY <1>1, TakenOperation DEF ManagerTypeOK
<1>4. CASE Take
  BY <1>1, <1>2, <1>3, <1>4, FreeThread
     DEF Take, PoolOK, ManagerTypeOK, ServiceStateOK, Places, Refreshing, IdlePool
<1>5. CASE RefreshSkipped
  BY <1>1, <1>2, <1>3, <1>5, FreeThread DEF RefreshSkipped, PoolOK, ManagerTypeOK, ServiceStateOK
<1>6. CASE RefreshStarts
  BY <1>1, <1>2, <1>3, <1>6, FreeThread
     DEF RefreshStarts, PoolOK, ManagerTypeOK, ServiceStateOK, Places, Refreshing
<1>7. ASSUME NEW p \in Principals, ImportCache(p) PROVE ServiceStateOK'
  <2>1. inbox' \in Seq(Events)
    BY <1>1, <1>7, SentTypes DEF ImportCache, ManagerTypeOK, ThreadKinds, Signals
  <2>2. PoolOK'
    BY <1>1, <1>7 DEF ImportCache, At, PoolOK, Refreshing
  <2> QED BY <2>1, <2>2, <1>1, <1>2, <1>7 DEF ImportCache, ManagerTypeOK, ServiceStateOK
<1>8. ASSUME NEW p \in Principals, VerifyIdentity(p) PROVE ServiceStateOK'
  <2>1. inbox' \in Seq(Events)
    BY <1>1, <1>8, SentTypes DEF VerifyIdentity, ManagerTypeOK, ThreadKinds, Signals
  <2>2. PoolOK'
    BY <1>1, <1>8 DEF VerifyIdentity, At, PoolOK, Refreshing
  <2>3. level' \in [Principals -> Level] /\ queue' \in Seq(Operations) /\ pending' \in Nat
    BY <1>1, <1>8, VerifiedTypes DEF VerifyIdentity, ManagerTypeOK
  <2> QED BY <2>1, <2>2, <2>3, <1>1, <1>2, <1>8 DEF VerifyIdentity, ManagerTypeOK, ServiceStateOK
<1>9. ASSUME NEW p \in Principals, DropStale(p) PROVE ServiceStateOK'
  <2>1. inbox' \in Seq(Events)
    BY <1>1, <1>9, SentTypes DEF DropStale, ThreadKinds, Signals
  <2> QED BY <2>1, <1>1, <1>2, <1>9 DEF DropStale, PoolOK, ManagerTypeOK, ServiceStateOK, Level
<1>10. CASE CursorEnds
  BY <1>1, <1>2, <1>10
     DEF CursorEnds, At, PoolOK, ManagerTypeOK, ServiceStateOK, Places, Refreshing
<1>11. CASE VerifyEnds
  BY <1>1, <1>2, <1>11
     DEF VerifyEnds, At, PoolOK, ManagerTypeOK, ServiceStateOK, Places, Refreshing
<1>12. CASE RefreshEnds
  BY <1>1, <1>2, <1>12 DEF RefreshEnds, PoolOK, ManagerTypeOK, ServiceStateOK, IdlePool, Places
<1>13. CASE ListIdentities
  <2>1. inbox' \in Seq(Events)
    BY <1>1, <1>13, EventsSent, AppendedEvent DEF ListIdentities, Send, ManagerTypeOK
  <2> QED BY <2>1, <1>1, <1>2, <1>13
          DEF ListIdentities, PoolOK, ManagerTypeOK, ServiceStateOK, IdlePool, Places
<1>14. CASE GetIdentity
  <2>1. inbox' \in Seq(Events)
    BY <1>1, <1>14, AtPlaces, SentTypes DEF GetIdentity, ThreadKinds
  <2> QED BY <2>1, <1>1, <1>2, <1>14
          DEF GetIdentity, PoolOK, ManagerTypeOK, ServiceStateOK, IdlePool, Places
<1>15. CASE SignInInquires
  <2>1. inbox' \in Seq(Events)
    BY <1>1, <1>15, AtPlaces, SentTypes DEF SignInInquires, ThreadKinds, Signals
  <2> QED BY <2>1, <1>1, <1>2, <1>15
          DEF SignInInquires, At, PoolOK, ManagerTypeOK, ServiceStateOK, Places, Refreshing
<1>16. CASE SignOut
  <2>1. inbox' \in Seq(Events)
    BY <1>1, <1>16, AtPlaces, SentTypes DEF SignOut, ThreadKinds
  <2>2. cache' \in [Principals -> Level]
    BY <1>1, <1>16 DEF SignOut, ManagerTypeOK, Level
  <2> QED BY <2>1, <2>2, <1>1, <1>2, <1>16
          DEF SignOut, PoolOK, ManagerTypeOK, ServiceStateOK, IdlePool, Places
<1>17. CASE Renew
  BY <1>1, <1>2, <1>17 DEF Renew, PoolOK, ManagerTypeOK, ServiceStateOK, IdlePool, Places
<1> QED BY <1>4, <1>5, <1>6, <1>7, <1>8, <1>9, <1>10, <1>11, <1>12, <1>13, <1>14, <1>15,
           <1>16, <1>17 DEF Thread
\* What the service pushes.
LEMMA PushTypes ==
    ASSUME ServiceStateOK, NEW kind \in {"get", "sign in", "sign out", "renew"},
           NEW p \in Principals, NEW c \in Calls \cup {None}, Push(Op(kind, p, c))
    PROVE  queue' \in Seq(Operations)
  BY PushedOperation, OperationsPushed DEF Push, ServiceStateOK, ManagerTypeOK

LEMMA SignInTypes ==
    ASSUME ServiceStateOK, SignInEnds
    PROVE  ServiceStateOK'
<1>1. PoolOK /\ ManagerTypeOK /\ ServiceTypeOK
  BY DEF ServiceStateOK
<1>3. pool.op.id \in Principals /\ pool.op.call \in Calls \cup {None}
  BY <1>1, AtPlaces DEF SignInEnds
<1>2. ServiceTypeOK'
  <2>1. table' \subseteq table \cup {pool.op.id}
    BY DEF SignInEnds, SignInSucceeds, SignInRefused, NewSignInRefused
  <2>2. hidden' \subseteq hidden \cup table'
    BY DEF SignInEnds
  <2>3. hidden' \subseteq Principals
    BY <1>1, <1>3, <2>1, <2>2 DEF ManagerTypeOK, ServiceTypeOK
  <2>4. /\ UNCHANGED <<running, exports, enabled, disabled, adding, temporary, request, excused,
                       orphaned>>
        /\ prompt' = "none" /\ unchecked' \subseteq unchecked \cup Principals
    BY DEF SignInEnds, Marked
  <2> QED BY <1>1, <2>3, <2>4 DEF ServiceTypeOK
<1>4. CASE SignInSucceeds
  <2>1. inbox' \in Seq(Events)
    BY <1>1, <1>3, <1>4, SentTypes DEF SignInSucceeds, ThreadKinds
  <2>2. level' \in [Principals -> Level] /\ queue' \in Seq(Operations) /\ pending' \in Nat
    BY <1>1, <1>3, <1>4, VerifiedTypes DEF SignInSucceeds, Level
  <2>3. cache' \in [Principals -> Level]
    BY <1>1, <1>3, <1>4 DEF SignInSucceeds, Without, ManagerTypeOK, Level
  <2> QED BY <2>1, <2>2, <2>3, <1>1, <1>2, <1>3, <1>4
          DEF SignInSucceeds, PoolOK, ManagerTypeOK, ServiceStateOK, IdlePool, Places
<1>5. CASE SignInRefused(prompt = "cancelled")
  <2>1. inbox' \in Seq(Events)
    <3>1. /\ [kind |-> "expired", id |-> pool.op.id, call |-> None] \in Events
          /\ [kind |-> "signed in", id |-> pool.op.id, call |-> pool.op.call] \in Events
          /\ [kind |-> "refused", id |-> pool.op.id, call |-> pool.op.call] \in Events
      BY <1>3, EventsSent DEF ThreadKinds, Signals
    <3>2. ASSUME NEW e \in Events PROVE <<e>> \in Seq(Events)
      OBVIOUS
    <3>3. ASSUME NEW s \in Seq(Events), NEW u \in Seq(Events) PROVE s \o u \in Seq(Events)
      BY ConcatProperties
    <3>4. <<>> \in Seq(Events) /\ inbox \in Seq(Events)
      BY <1>1 DEF ManagerTypeOK
    <3>5. \E s \in Seq(Events), u \in Seq(Events) : inbox' = inbox \o s \o u
      BY <3>1, <3>2, <3>4, <1>5 DEF SignInRefused
    <3> QED BY <3>3, <3>4, <3>5
  <2>2. level' \in [Principals -> Level] /\ queue' \in Seq(Operations) /\ pending' \in Nat
    BY <1>1, <1>3, <1>5, VerifiedTypes DEF SignInRefused, ManagerTypeOK
  <2> QED BY <2>1, <2>2, <1>1, <1>2, <1>3, <1>5
          DEF SignInRefused, PoolOK, ManagerTypeOK, ServiceStateOK, IdlePool, Places
<1>6. CASE NewSignInRefused
  <2>1. inbox' \in Seq(Events)
    BY <1>1, <1>3, <1>6, SentTypes DEF NewSignInRefused, ThreadKinds
  <2>2. cache' \in [Principals -> Level]
    BY <1>1, <1>3, <1>6 DEF NewSignInRefused, Without, ManagerTypeOK, Level
  <2> QED BY <2>1, <2>2, <1>1, <1>2, <1>6
          DEF NewSignInRefused, PoolOK, ManagerTypeOK, ServiceStateOK, IdlePool, Places
<1> QED BY <1>4, <1>5, <1>6 DEF SignInEnds

\* The first event is handled.
LEMMA HandledTypes ==
    ASSUME ServiceStateOK, NEW e, Handled(e)
    PROVE  /\ e \in Events /\ e = Head(inbox) /\ inbox # <<>>
           /\ inbox' = Tail(inbox) /\ inbox' \in Seq(Events)
           /\ e.kind # "listed" => e.id \in Principals
           /\ e.call \in Calls \cup {None}
<1>1. e = Head(inbox) /\ inbox # <<>> /\ inbox' = Tail(inbox) /\ inbox \in Seq(Events)
  BY DEF Handled, ServiceStateOK, ManagerTypeOK
<1>2. e \in Events /\ inbox' \in Seq(Events)
  BY <1>1, HandledEvent
<1> QED BY <1>1, <1>2 DEF Events

LEMMA DispatchTypes ==
    ASSUME ServiceStateOK, Dispatch
    PROVE  ServiceStateOK'
<1>1. PoolOK /\ ManagerTypeOK /\ ServiceTypeOK
  BY DEF ServiceStateOK
<1>2. PICK e : \/ OnAdded(e) \/ OnRemoved(e) \/ OnRefreshed(e) \/ OnExpired(e) \/ OnListed(e)
               \/ OnGot(e) \/ OnSignedOut(e) \/ OnSignedIn(e) \/ OnInquiry(e)
               \/ OnAccountAdded(e)
  BY DEF Dispatch
<1>3. Handled(e)
  BY <1>2 DEF OnAdded, OnRemoved, OnRefreshed, OnExpired, OnListed, OnGot, OnSignedOut,
              OnSignedIn, OnInquiry, OnAccountAdded
<1>4. /\ inbox' \in Seq(Events)
      /\ e.kind # "listed" => e.id \in Principals
      /\ e.call \in Calls \cup {None}
  BY <1>3, HandledTypes
<1>5. UNCHANGED <<cache, notify, table, level, pending, pool, failed, changes>>
  BY <1>2 DEF OnAdded, OnRemoved, OnRefreshed, OnExpired, OnListed, OnGot, OnSignedOut,
              OnSignedIn, OnInquiry, OnAccountAdded
<1>6. watched' \subseteq Principals
  <2>1. watched' \in {watched, watched \cup {e.id}} /\ (e.kind = "listed" => watched' = watched)
    BY <1>2 DEF OnAdded, OnRemoved, OnRefreshed, OnExpired, OnListed, OnGot, OnSignedOut,
                OnSignedIn, OnInquiry, OnAccountAdded
  <2> QED BY <2>1, <1>1, <1>4 DEF ManagerTypeOK
<1>7. queue' \in Seq(Operations)
  <2>1. CASE OnGot(e) /\ e.kind = "found"
    BY <2>1, <1>4, PushTypes DEF OnGot
  <2>2. CASE ~(OnGot(e) /\ e.kind = "found")
    <3>1. queue' = queue
      BY <1>2, <2>2 DEF OnAdded, OnRemoved, OnRefreshed, OnExpired, OnListed, OnGot,
                        OnSignedOut, OnSignedIn, OnInquiry, OnAccountAdded
    <3> QED BY <3>1, <1>1 DEF ManagerTypeOK
  <2> QED BY <2>1, <2>2
<1>8. PoolOK' /\ ManagerTypeOK'
  BY <1>1, <1>4, <1>5, <1>6, <1>7 DEF PoolOK, ManagerTypeOK
<1>9. request' \in [Calls -> {"none", "pending", "done", "failed"}]
  <2>1. \/ request' = request
        \/ \E answer \in {"done", "failed"} : Answer(e, answer)
    BY <1>2 DEF OnAdded, OnRemoved, OnRefreshed, OnExpired, OnListed, OnGot, OnSignedOut,
                OnSignedIn, OnInquiry, OnAccountAdded
  <2> QED BY <2>1, <1>1 DEF Answer, ServiceTypeOK
<1>10. \/ UNCHANGED <<adding, temporary, excused>>
       \/ \E S \in SUBSET Principals : AddTemporary(S)
       \/ UNCHANGED <<adding, excused>> /\ temporary' = temporary \ {e.id}
  BY <1>1, <1>2, <1>4 DEF OnAdded, OnRemoved, OnRefreshed, OnExpired, OnListed, OnGot,
     OnSignedOut, OnSignedIn, OnInquiry, OnAccountAdded, NoTemporary, ManagerTypeOK
<1>11. /\ exports' \in {exports, exports \cup {e.id}, exports \ {e.id}, exports \cup table}
       /\ e.kind = "listed" => exports' = exports \cup table
       /\ unchecked' \in {unchecked, unchecked \ {e.id}}
       /\ running' \in {running, TRUE} /\ prompt' \in {prompt, "opening"}
       /\ UNCHANGED <<enabled, disabled, orphaned, hidden>>
  BY <1>2 DEF OnAdded, OnRemoved, OnRefreshed, OnExpired, OnListed, OnGot, OnSignedOut,
              OnSignedIn, OnInquiry, OnAccountAdded, EnsureAccount
<1>12. adding' \subseteq Principals /\ temporary' \subseteq Principals /\ excused' \subseteq Principals
  BY <1>1, <1>10 DEF AddTemporary, ServiceTypeOK
<1>13. ServiceTypeOK'
  BY <1>1, <1>4, <1>9, <1>11, <1>12 DEF ServiceTypeOK, ManagerTypeOK
<1> QED BY <1>8, <1>13 DEF ServiceStateOK

LEMMA UserTypes ==
    ASSUME ServiceStateOK, User
    PROVE  ServiceStateOK'
<1>1. PoolOK /\ ManagerTypeOK /\ ServiceTypeOK
  BY DEF ServiceStateOK
<1> SUFFICES ASSUME NEW p \in Principals,
                    \/ UserAdds(p) \/ UserRemoves(p) \/ UserDisables(p) \/ UserEnables(p)
                    \/ RenewalDue(p)
                    \/ \E c \in Calls : SignInCalled(c, p) \/ SignOutCalled(c, p)
             PROVE  ServiceStateOK'
  BY DEF User
<1>2. /\ UNCHANGED <<cache, notify, table, level, watched, pending, pool, inbox, failed>>
      /\ changes' \in {changes, changes + 1}
      /\ UNCHANGED <<running, exports, adding, temporary, prompt, hidden>>
      /\ excused' \in {excused, excused \cup {p}}
      /\ orphaned' \in {orphaned, orphaned \cup {p}, orphaned \ {p}}
      /\ unchecked' \in {unchecked, unchecked \ {p}}
  BY DEF UserAdds, UserRemoves, UserDisables, UserEnables, RenewalDue, SignInCalled,
         SignOutCalled, EnsureAccount, serviceVars
<1>3. queue' \in Seq(Operations)
  <2>1. \/ queue' = queue
        \/ \E kind \in {"get", "sign in", "sign out", "renew"}, c \in Calls \cup {None} :
              Push(Op(kind, p, c))
    BY DEF UserAdds, UserRemoves, UserDisables, UserEnables, RenewalDue, SignInCalled,
           SignOutCalled
  <2> QED BY <2>1, <1>1, PushTypes DEF ManagerTypeOK
<1>4. request' \in [Calls -> {"none", "pending", "done", "failed"}]
  <2>1. request' = request \/ \E c \in Calls : request' = [request EXCEPT ![c] = "pending"]
    BY DEF UserAdds, UserRemoves, UserDisables, UserEnables, RenewalDue, SignInCalled,
           SignOutCalled, serviceVars
  <2> QED BY <2>1, <1>1 DEF ServiceTypeOK
<1>5. enabled' \in [Principals -> Nat] /\ disabled' \in [Principals -> Nat]
  <2>1. enabled \in [Principals -> Nat] /\ disabled \in [Principals -> Nat]
    BY <1>1 DEF ServiceTypeOK
  <2>2. CASE UserAdds(p)
    BY <2>1, <2>2 DEF UserAdds
  <2>3. CASE UserRemoves(p)
    BY <2>1, <2>3 DEF UserRemoves
  <2>4. CASE UserDisables(p)
    BY <2>1, <2>4 DEF UserDisables
  <2>5. CASE UserEnables(p)
    BY <2>1, <2>5 DEF UserEnables
  <2>6. CASE RenewalDue(p) \/ \E c \in Calls : SignInCalled(c, p) \/ SignOutCalled(c, p)
    BY <2>1, <2>6 DEF RenewalDue, SignInCalled, SignOutCalled, serviceVars
  <2> QED BY <2>2, <2>3, <2>4, <2>5, <2>6
<1>6. PoolOK' /\ ManagerTypeOK'
  BY <1>1, <1>2, <1>3 DEF PoolOK, ManagerTypeOK
<1>7. ServiceTypeOK'
  BY <1>1, <1>2, <1>4, <1>5 DEF ServiceTypeOK
<1> QED BY <1>6, <1>7 DEF ServiceStateOK

\* The other steps: of the world outside, the monitor, the prompt, the daemon.
LEMMA OtherTypes ==
    ASSUME ServiceStateOK,
           \/ Outside \/ Monitor \/ PromptOpened \/ PromptAnswered
           \/ \E p \in Principals : AccountAdded(p)
           \/ UNCHANGED vars
    PROVE  ServiceStateOK'
<1>1. PoolOK /\ ManagerTypeOK /\ ServiceTypeOK
  BY DEF ServiceStateOK
<1>2. CASE Outside
  <2>1. ServiceTypeOK'
    BY <1>1, <1>2 DEF Outside, serviceVars, ServiceTypeOK
  <2>2. CASE CursorFails
    <3>1. PoolOK'
      BY <1>1, <2>2 DEF CursorFails, At, PoolOK, ManagerTypeOK, Places, Refreshing
    <3>2. ManagerTypeOK'
      BY <1>1, <2>2 DEF CursorFails, ManagerTypeOK
    <3> QED BY <2>1, <3>1, <3>2 DEF ServiceStateOK
  <2>3. ASSUME NEW p \in Principals, CacheChanges(p) PROVE ServiceStateOK'
    BY <1>1, <2>1, <2>3 DEF CacheChanges, PoolOK, ManagerTypeOK, ServiceStateOK, Level
  <2>4. ASSUME NEW p \in Principals, TicketExpires(p) PROVE ServiceStateOK'
    BY <1>1, <2>1, <2>4 DEF TicketExpires, PoolOK, ManagerTypeOK, ServiceStateOK, Level
  <2> QED BY <1>2, <2>2, <2>3, <2>4 DEF Outside
<1>3. CASE Monitor
  <2>1. queue' \in Seq(Operations)
    BY <1>1, <1>3, PushedOperation, OperationsPushed
       DEF Monitor, NotifyHandled, ScheduleRefresh, ManagerTypeOK
  <2>2. PoolOK'
    BY <1>1, <1>3 DEF Monitor, NotifyHandled, PoolOK
  <2>3. ManagerTypeOK'
    <3>1. /\ UNCHANGED <<cache, table, level, watched, pool, inbox, failed, changes>>
      BY <1>3 DEF Monitor, NotifyHandled, ScheduleRefresh
    <3>2. notify' \in BOOLEAN
      BY <1>3 DEF Monitor, NotifyHandled
    <3>3. pending' \in Nat
      BY <1>1, <1>3 DEF Monitor, NotifyHandled, ScheduleRefresh, ManagerTypeOK
    <3> QED BY <3>1, <3>2, <3>3, <2>1, <1>1 DEF ManagerTypeOK
  <2>4. ServiceTypeOK'
    BY <1>1, <1>3 DEF Monitor, serviceVars, ServiceTypeOK
  <2> QED BY <2>2, <2>3, <2>4 DEF ServiceStateOK
<1>4. CASE PromptOpened \/ PromptAnswered
  BY <1>1, <1>4 DEF PromptOpened, PromptAnswered, PromptStep, managerVars, PoolOK,
                    ManagerTypeOK, ServiceTypeOK, ServiceStateOK
<1>5. ASSUME NEW p \in Principals, AccountAdded(p) PROVE ServiceStateOK'
  <2>1. inbox' \in Seq(Events)
    BY <1>5, SentTypes DEF AccountAdded, AccountKinds
  <2>2. /\ UNCHANGED <<cache, notify, table, level, watched, queue, pending, pool, failed>>
        /\ changes' \in {changes, changes + 1}
        /\ UNCHANGED <<running, exports, disabled, temporary, prompt, request, unchecked, excused,
                       hidden>>
        /\ adding' = adding \ {p} /\ orphaned' \in {orphaned \ {p}, orphaned \cup {p}}
        /\ enabled' \in {enabled, [enabled EXCEPT ![p] = @ + 1]}
    BY <1>5 DEF AccountAdded
  <2>3. PoolOK' /\ ManagerTypeOK'
    BY <2>1, <2>2, <1>1 DEF PoolOK, ManagerTypeOK
  <2>4. ServiceTypeOK'
    BY <2>2, <1>1 DEF ServiceTypeOK
  <2> QED BY <2>3, <2>4 DEF ServiceStateOK
<1>6. CASE UNCHANGED vars
  BY <1>1, <1>6 DEF vars, managerVars, serviceVars, PoolOK, ManagerTypeOK, ServiceTypeOK,
                    ServiceStateOK
<1> QED BY <1>2, <1>3, <1>4, <1>5, <1>6

\* All variables have their types, for any principals and calls.
THEOREM ServiceTypeCorrect == Spec => []ServiceStateOK
<1>1. Init => ServiceStateOK
  BY InitTypes
<1>2. ServiceStateOK /\ [Next]_vars => ServiceStateOK'
  BY ThreadTypes, SignInTypes, DispatchTypes, UserTypes, OtherTypes DEF Next
<1> QED BY <1>1, <1>2, PTL DEF Spec

-----------------------------------------------------------------------------
(* Accounts and who is adding them. *)

AccountsInv ==
    /\ adding \subseteq temporary
    /\ AnswersOnce(inbox)
    /\ \A p \in Principals : Has(inbox, AccountKinds, p) => p \in temporary \ adding
    /\ \A p \in Principals \ excused :
          Accounts(p) <= 1 /\ (p \in adding => Accounts(p) = 0)
    /\ \A p \in temporary \ adding : Accounts(p) > 0 \/ p \in orphaned

\* The results of a sign-in that was refused.
LEMMA RefusedEvents ==
    ASSUME ServiceStateOK, NEW cancelled \in BOOLEAN, SignInRefused(cancelled),
           pool.op.id \in Principals, pool.op.call \in Calls \cup {None}
    PROVE  \E r \in Events, x \in Events :
              /\ r.kind = (IF cache[pool.op.id] = "live" /\ ~cancelled
                           THEN "signed in" ELSE "refused")
              /\ r.id = pool.op.id
              /\ x.kind = "expired" /\ x.id = pool.op.id
              /\ inbox' = IF /\ pool.op.id \in watched /\ level[pool.op.id] = "live"
                             /\ cache[pool.op.id] = "dead"
                          THEN Append(Append(inbox, x), r) ELSE Append(inbox, r)
<1> DEFINE x == [kind |-> "expired", id |-> pool.op.id, call |-> None]
           r == [kind |-> IF cache[pool.op.id] = "live" /\ ~cancelled
                          THEN "signed in" ELSE "refused",
                 id |-> pool.op.id, call |-> pool.op.call]
           expires == /\ pool.op.id \in watched /\ level[pool.op.id] = "live"
                      /\ cache[pool.op.id] = "dead"
<1>1. x \in Events /\ x.kind = "expired" /\ x.id = pool.op.id
  BY EventsSent DEF ThreadKinds, Signals
<1>2. /\ r \in Events /\ r.id = pool.op.id
      /\ r.kind = (IF cache[pool.op.id] = "live" /\ ~cancelled
                   THEN "signed in" ELSE "refused")
  <2>1. CASE cache[pool.op.id] = "live" /\ ~cancelled
    BY <2>1, EventsSent DEF ThreadKinds
  <2>2. CASE ~(cache[pool.op.id] = "live" /\ ~cancelled)
    BY <2>2, EventsSent DEF ThreadKinds
  <2> QED BY <2>1, <2>2
<1>3. inbox' = inbox \o (IF expires THEN <<x>> ELSE <<>>) \o <<r>>
  BY DEF SignInRefused
<1>4. inbox \in Seq(Events)
  BY DEF ServiceStateOK, ManagerTypeOK
<1> HIDE DEF x, r, expires
<1>5. CASE expires
  <2>1. Append(inbox, x) \in Seq(Events) /\ Append(inbox, x) = inbox \o <<x>>
    BY <1>1, <1>4, AppendIsConcat, AppendedEvent
  <2>2. Append(Append(inbox, x), r) = Append(inbox, x) \o <<r>>
    BY <2>1, <1>2, AppendIsConcat
  <2>3. inbox' = Append(Append(inbox, x), r)
    BY <2>1, <2>2, <1>3, <1>5
  <2> QED BY <2>3, <1>1, <1>2, <1>5 DEF expires
<1>6. CASE ~expires
  <2>1. inbox \o <<>> = inbox
    BY <1>4, ConcatEmptySeq
  <2>2. Append(inbox, r) = inbox \o <<r>>
    BY <1>2, <1>4, AppendIsConcat
  <2>3. inbox' = Append(inbox, r)
    BY <2>1, <2>2, <1>3, <1>6
  <2> QED BY <2>3, <1>1, <1>2, <1>6 DEF expires
<1> QED BY <1>5, <1>6

\* The thread appends one event, two, or none, none of which is about accounts.
Appends ==
    \/ inbox' = inbox
    \/ \E e \in Events : e.kind \in ThreadKinds /\ inbox' = Append(inbox, e)
    \/ \E e, f \in Events : /\ e.kind \in ThreadKinds /\ f.kind \in ThreadKinds
                            /\ inbox' = Append(Append(inbox, e), f)

LEMMA SentAppends ==
    ASSUME ServiceStateOK, NEW kind \in ThreadKinds \ {"listed"}, NEW p \in Principals,
           NEW c \in Calls \cup {None}, Send(kind, p, c)
    PROVE  Appends
  BY EventsSent DEF Send, Appends

LEMMA ThreadAppends ==
    ASSUME ServiceStateOK, Thread \/ SignInEnds
    PROVE  Appends
<1>1. PoolOK
  BY DEF ServiceStateOK
<1>2. ASSUME pool.op.id \in Principals, pool.op.call \in Calls \cup {None},
             GetIdentity \/ SignInInquires \/ SignOut \/ SignInSucceeds \/ NewSignInRefused
      PROVE  Appends
  BY <1>2, SentAppends DEF GetIdentity, SignInInquires, SignOut, SignInSucceeds,
                           NewSignInRefused, ThreadKinds, Signals
<1>3. CASE Thread
  <2>1. ASSUME NEW p \in Principals, ImportCache(p) \/ VerifyIdentity(p) \/ DropStale(p)
        PROVE  Appends
    <3>1. inbox' = inbox \/ Send("added", p, None) \/ Send("refreshed", p, None)
          \/ Send("expired", p, None) \/ Send("removed", p, None)
      BY <2>1 DEF ImportCache, VerifyIdentity, DropStale
    <3> QED BY <3>1, SentAppends DEF Appends, ThreadKinds, Signals
  <2>2. CASE ListIdentities
    BY <2>2, EventsSent DEF ListIdentities, Send, Appends, ThreadKinds
  <2>3. CASE GetIdentity
    BY <2>3, <1>1, <1>2, AtPlaces DEF GetIdentity
  <2>4. CASE SignInInquires
    BY <2>4, <1>1, <1>2, AtPlaces DEF SignInInquires
  <2>5. CASE SignOut
    BY <2>5, <1>1, <1>2, AtPlaces DEF SignOut
  <2>6. CASE \/ Take \/ RefreshSkipped \/ RefreshStarts \/ CursorEnds \/ VerifyEnds
             \/ RefreshEnds \/ Renew
    BY <2>6 DEF Take, RefreshSkipped, RefreshStarts, CursorEnds, VerifyEnds, RefreshEnds, Renew,
                Appends
  <2> QED BY <1>3, <2>1, <2>2, <2>3, <2>4, <2>5, <2>6 DEF Thread
<1>4. CASE SignInEnds
  <2>1. pool.op.id \in Principals /\ pool.op.call \in Calls \cup {None}
    BY <1>1, <1>4, AtPlaces DEF SignInEnds
  <2>2. CASE SignInRefused(prompt = "cancelled")
    <3>1. PICK r \in Events, x \in Events :
            /\ r.kind \in {"signed in", "refused"} /\ x.kind = "expired"
            /\ inbox' \in {Append(Append(inbox, x), r), Append(inbox, r)}
      BY <2>1, <2>2, RefusedEvents
    <3> QED BY <3>1 DEF Appends, ThreadKinds, Signals
  <2> QED BY <1>2, <1>4, <2>1, <2>2 DEF SignInEnds
<1> QED BY <1>3, <1>4

\* Such events say nothing about the accounts.
LEMMA AppendsKeepsAnswers ==
    ASSUME ServiceStateOK, Appends
    PROVE  /\ \A p : Has(inbox', AccountKinds, p) <=> Has(inbox, AccountKinds, p)
           /\ AnswersOnce(inbox) => AnswersOnce(inbox')
<1>1. inbox \in Seq(Events)
  BY DEF ServiceStateOK, ManagerTypeOK
<1>2. ASSUME NEW q \in Seq(Events), NEW e \in Events, e.kind \in ThreadKinds
      PROVE  /\ Append(q, e) \in Seq(Events)
             /\ \A p : Has(Append(q, e), AccountKinds, p) <=> Has(q, AccountKinds, p)
             /\ AnswersOnce(q) => AnswersOnce(Append(q, e))
  <2>1. e.kind \notin AccountKinds
    BY <1>2 DEF ThreadKinds, Signals, AccountKinds
  <2> QED BY <2>1, AppendedEvent
<1>3. CASE inbox' = inbox
  BY <1>3
<1>4. ASSUME NEW e \in Events, e.kind \in ThreadKinds, inbox' = Append(inbox, e)
      PROVE  /\ \A p : Has(inbox', AccountKinds, p) <=> Has(inbox, AccountKinds, p)
             /\ AnswersOnce(inbox) => AnswersOnce(inbox')
  BY <1>1, <1>2, <1>4
<1>5. ASSUME NEW e \in Events, NEW f \in Events, e.kind \in ThreadKinds, f.kind \in ThreadKinds,
             inbox' = Append(Append(inbox, e), f)
      PROVE  /\ \A p : Has(inbox', AccountKinds, p) <=> Has(inbox, AccountKinds, p)
             /\ AnswersOnce(inbox) => AnswersOnce(inbox')
  BY <1>1, <1>2, <1>5
<1> QED BY <1>3, <1>4, <1>5 DEF Appends

\* Steps that leave the accounts alone.
AccountsKept ==
    /\ UNCHANGED <<enabled, disabled, adding, temporary, excused, orphaned>>
    /\ \A p \in Principals : Has(inbox', AccountKinds, p) <=> Has(inbox, AccountKinds, p)
    /\ AnswersOnce(inbox) => AnswersOnce(inbox')

LEMMA AccountsKeptInv ==
    ASSUME AccountsInv, AccountsKept
    PROVE  AccountsInv'
  BY DEF AccountsInv, AccountsKept, Accounts

\* add_temporary_account on behalf of identities without ticketing.
LEMMA AddTemporaryInv ==
    ASSUME ServiceStateOK, AccountsInv, NEW S \in SUBSET Principals, AddTemporary(S),
           \A p \in S : enabled[p] = 0,
           UNCHANGED <<enabled, disabled, orphaned>>,
           \A p \in Principals : Has(inbox', AccountKinds, p) <=> Has(inbox, AccountKinds, p),
           AnswersOnce(inbox')
    PROVE  AccountsInv'
<1>1. /\ temporary' = temporary \cup S /\ adding' = adding \cup (S \ temporary)
      /\ excused' = excused \cup {p \in S : disabled[p] > 0}
  BY DEF AddTemporary
<1>2. ASSUME NEW p \in Principals \ excused' PROVE Accounts(p)' <= 1 /\ (p \in adding' => Accounts(p)' = 0)
  <2>1. p \in S => Accounts(p) = 0
    BY <1>1, <1>2 DEF Accounts, ServiceStateOK, ServiceTypeOK
  <2>2. p \notin excused /\ Accounts(p)' = Accounts(p)
    BY <1>1, <1>2 DEF Accounts
  <2> QED BY <2>1, <2>2, <1>1, <1>2 DEF AccountsInv
<1>3. \A p \in temporary' \ adding' : Accounts(p)' > 0 \/ p \in orphaned'
  <2>1. \A p \in temporary' \ adding' : p \in temporary \ adding /\ Accounts(p)' = Accounts(p)
    BY <1>1 DEF Accounts, AccountsInv
  <2> QED BY <2>1 DEF AccountsInv
<1>4. \A p \in Principals : Has(inbox', AccountKinds, p) => p \in temporary' \ adding'
  BY <1>1 DEF AccountsInv
<1>5. adding' \subseteq temporary'
  BY <1>1 DEF AccountsInv
<1> QED BY <1>2, <1>3, <1>4, <1>5 DEF AccountsInv

\* The daemon answers AddAccount.
LEMMA AccountAddedInv ==
    ASSUME ServiceStateOK, AccountsInv, NEW p \in Principals, AccountAdded(p)
    PROVE  AccountsInv'
<1>1. PICK e \in Events :
        /\ e.kind \in AccountKinds /\ e.id = p /\ inbox' = Append(inbox, e)
        /\ \/ enabled' = [enabled EXCEPT ![p] = @ + 1] /\ orphaned' = orphaned \ {p}
           \/ enabled' = enabled /\ orphaned' = orphaned \cup {p}
  BY EventsSent DEF AccountAdded, Send, AccountKinds
<1>2. /\ p \in adding /\ adding' = adding \ {p}
      /\ UNCHANGED <<disabled, temporary, excused>>
  BY DEF AccountAdded
<1>3. inbox \in Seq(Events) /\ enabled \in [Principals -> Nat] /\ disabled \in [Principals -> Nat]
      /\ temporary \subseteq Principals
  BY DEF ServiceStateOK, ManagerTypeOK, ServiceTypeOK
<1>4. /\ \A q : Has(inbox', AccountKinds, q) <=> Has(inbox, AccountKinds, q) \/ q = p
      /\ AnswersOnce(inbox')
  <2>1. ~Has(inbox, AccountKinds, p)
    BY <1>2 DEF AccountsInv
  <2> QED BY <2>1, <1>1, <1>3, AppendedEvent DEF AccountsInv
<1>5. \A q \in Principals : q # p => Accounts(q)' = Accounts(q) /\ (q \in orphaned' <=> q \in orphaned)
  BY <1>1, <1>2, <1>3 DEF Accounts
<1>6. Accounts(p) \in Nat
  BY <1>3 DEF Accounts
<1>7. \/ Accounts(p)' = Accounts(p) + 1
      \/ Accounts(p)' = Accounts(p) /\ p \in orphaned'
  BY <1>1, <1>2, <1>3 DEF Accounts
<1>8. \A q \in Principals \ excused' : Accounts(q)' <= 1 /\ (q \in adding' => Accounts(q)' = 0)
  BY <1>2, <1>5, <1>6, <1>7 DEF AccountsInv
<1>9. \A q \in temporary' \ adding' : Accounts(q)' > 0 \/ q \in orphaned'
  BY <1>2, <1>3, <1>5, <1>6, <1>7 DEF AccountsInv
<1>10. \A q \in Principals : Has(inbox', AccountKinds, q) => q \in temporary' \ adding'
  BY <1>2, <1>4 DEF AccountsInv
<1>11. adding' \subseteq temporary'
  BY <1>2 DEF AccountsInv
<1> QED BY <1>4, <1>8, <1>9, <1>10, <1>11 DEF AccountsInv

\* The service handles the answer.
LEMMA OnAccountAddedInv ==
    ASSUME ServiceStateOK, AccountsInv, NEW e, OnAccountAdded(e)
    PROVE  AccountsInv'
<1>1. /\ e = Head(inbox) /\ inbox # <<>> /\ inbox' = Tail(inbox) /\ e.id \in Principals
      /\ inbox \in Seq(Events)
  BY HandledTypes DEF OnAccountAdded, ServiceStateOK, ManagerTypeOK
<1>2. /\ e.kind \in AccountKinds /\ temporary' = temporary \ {e.id}
      /\ UNCHANGED <<enabled, disabled, adding, excused, orphaned>>
  BY DEF OnAccountAdded, AccountKinds
<1>3. /\ \A q : Has(inbox, AccountKinds, q) <=> Has(inbox', AccountKinds, q) \/ q = e.id
      /\ AnswersOnce(inbox')
      /\ ~Has(inbox', AccountKinds, e.id)
  BY <1>1, <1>2, HandledEvent DEF AccountsInv
<1>4. e.id \notin adding
  BY <1>1, <1>3 DEF AccountsInv
<1> QED BY <1>2, <1>3, <1>4 DEF AccountsInv, Accounts

\* Every other event.
LEMMA DispatchAccountsInv ==
    ASSUME ServiceStateOK, AccountsInv, Dispatch
    PROVE  AccountsInv'
<1>1. PICK e : \/ OnAdded(e) \/ OnRemoved(e) \/ OnRefreshed(e) \/ OnExpired(e) \/ OnListed(e)
               \/ OnGot(e) \/ OnSignedOut(e) \/ OnSignedIn(e) \/ OnInquiry(e)
               \/ OnAccountAdded(e)
  BY DEF Dispatch
<1>2. Handled(e)
  BY <1>1 DEF OnAdded, OnRemoved, OnRefreshed, OnExpired, OnListed, OnGot, OnSignedOut,
              OnSignedIn, OnInquiry, OnAccountAdded
<1>3. /\ e = Head(inbox) /\ inbox # <<>> /\ inbox' = Tail(inbox)
      /\ inbox \in Seq(Events)
      /\ e.kind # "listed" => e.id \in Principals
  BY <1>2, HandledTypes DEF ServiceStateOK, ManagerTypeOK
<1>4. CASE OnAccountAdded(e)
  BY <1>4, OnAccountAddedInv
<1>5. CASE ~OnAccountAdded(e)
  <2>1. e.kind \notin AccountKinds
    BY <1>1, <1>5 DEF OnAdded, OnRemoved, OnRefreshed, OnExpired, OnListed, OnGot, OnSignedOut,
                      OnSignedIn, OnInquiry, AccountKinds
  <2>2. /\ \A p \in Principals : Has(inbox', AccountKinds, p) <=> Has(inbox, AccountKinds, p)
        /\ AnswersOnce(inbox')
    BY <2>1, <1>3, HandledEvent DEF AccountsInv
  <2>3. UNCHANGED <<enabled, disabled, orphaned>>
    BY <1>1, <1>5 DEF OnAdded, OnRemoved, OnRefreshed, OnExpired, OnListed, OnGot, OnSignedOut,
                      OnSignedIn, OnInquiry
  <2>4. \/ UNCHANGED <<adding, temporary, excused>>
        \/ \E S \in SUBSET Principals : AddTemporary(S) /\ \A p \in S : enabled[p] = 0
    <3>1. table \subseteq Principals
      BY DEF ServiceStateOK, ManagerTypeOK
    <3>2. CASE OnAdded(e) \/ OnRefreshed(e)
      <4>1. e.id \in Principals
        BY <3>2, <1>3 DEF OnAdded, OnRefreshed
      <4>2. \/ UNCHANGED <<adding, temporary, excused>>
            \/ AddTemporary({e.id}) /\ Accounts(e.id) = 0
        BY <3>2 DEF OnAdded, OnRefreshed, NoTemporary
      <4>3. Accounts(e.id) = 0 => enabled[e.id] = 0
        BY <4>1 DEF Accounts, ServiceStateOK, ServiceTypeOK
      <4> QED BY <4>1, <4>2, <4>3
    <3>3. CASE OnListed(e)
      BY <3>1, <3>3 DEF OnListed
    <3> QED BY <3>2, <3>3, <1>1, <1>5 DEF OnRemoved, OnExpired, OnGot, OnSignedOut, OnSignedIn,
                                          OnInquiry
  <2>5. CASE UNCHANGED <<adding, temporary, excused>>
    BY <2>2, <2>3, <2>5, AccountsKeptInv DEF AccountsKept
  <2> QED BY <2>2, <2>3, <2>4, <2>5, AddTemporaryInv
<1> QED BY <1>4, <1>5

LEMMA UserAccountsInv ==
    ASSUME ServiceStateOK, AccountsInv, User
    PROVE  AccountsInv'
<1>1. PICK p \in Principals : \/ UserAdds(p) \/ UserRemoves(p) \/ UserDisables(p)
                              \/ UserEnables(p) \/ RenewalDue(p)
                              \/ \E c \in Calls : SignInCalled(c, p) \/ SignOutCalled(c, p)
  BY DEF User
<1>2. UNCHANGED <<inbox, adding, temporary>>
  BY <1>1 DEF UserAdds, UserRemoves, UserDisables, UserEnables, RenewalDue, SignInCalled,
              SignOutCalled, serviceVars
<1>3. enabled \in [Principals -> Nat] /\ disabled \in [Principals -> Nat]
      /\ temporary \subseteq Principals
  BY DEF ServiceStateOK, ServiceTypeOK
<1>4. CASE UserAdds(p)
  <2>1. /\ Accounts(p) = 0 /\ Accounts(p)' = 1
        /\ \A q \in Principals : q # p => Accounts(q)' = Accounts(q)
    BY <1>3, <1>4 DEF UserAdds, Accounts
  <2>2. /\ excused' = IF p \in temporary THEN excused \cup {p} ELSE excused
        /\ orphaned' = orphaned \ {p}
    BY <1>4 DEF UserAdds
  <2> QED BY <2>1, <2>2, <1>2, <1>3 DEF AccountsInv
<1>5. CASE UserRemoves(p)
  <2>1. /\ Accounts(p)' <= Accounts(p) /\ Accounts(p) \in Nat
        /\ Accounts(p)' \in Nat /\ Accounts(p) # 0
        /\ \A q \in Principals : q # p => Accounts(q)' = Accounts(q)
    BY <1>3, <1>5 DEF UserRemoves, Accounts
  <2>2. excused' = excused /\ orphaned' = orphaned \cup {p}
    BY <1>5 DEF UserRemoves
  <2> QED BY <2>1, <2>2, <1>2, <1>3 DEF AccountsInv
<1>6. CASE UserDisables(p) \/ UserEnables(p)
  <2>1. \A q \in Principals : Accounts(q)' = Accounts(q)
    BY <1>3, <1>6 DEF UserDisables, UserEnables, Accounts
  <2>2. excused' = excused /\ orphaned' = orphaned
    BY <1>6 DEF UserDisables, UserEnables
  <2> QED BY <2>1, <2>2, <1>2, <1>3 DEF AccountsInv
<1>7. CASE RenewalDue(p) \/ \E c \in Calls : SignInCalled(c, p) \/ SignOutCalled(c, p)
  <2>1. UNCHANGED <<enabled, disabled, excused, orphaned>>
    BY <1>7 DEF RenewalDue, SignInCalled, SignOutCalled, serviceVars
  <2> QED BY <2>1, <1>2, AccountsKeptInv DEF AccountsKept
<1> QED BY <1>1, <1>4, <1>5, <1>6, <1>7

LEMMA AccountsStep ==
    ASSUME ServiceStateOK, AccountsInv, [Next]_vars
    PROVE  AccountsInv'
<1>1. CASE Thread \/ SignInEnds
  <2>1. UNCHANGED <<enabled, disabled, adding, temporary, excused, orphaned>>
    BY <1>1 DEF Thread, SignInEnds
  <2>2. Appends
    BY <1>1, ThreadAppends
  <2>3. AccountsKept
    BY <2>1, <2>2, AppendsKeepsAnswers DEF AccountsKept
  <2> QED BY <2>3, AccountsKeptInv
<1>2. CASE Dispatch
  BY <1>2, DispatchAccountsInv
<1>3. CASE Monitor \/ Outside \/ PromptOpened \/ PromptAnswered \/ UNCHANGED vars
  <2>1. UNCHANGED <<enabled, disabled, adding, temporary, excused, orphaned, inbox>>
    BY <1>3 DEF Monitor, NotifyHandled, Outside, CursorFails, CacheChanges, TicketExpires,
                PromptOpened, PromptAnswered, PromptStep, vars, managerVars, serviceVars
  <2> QED BY <2>1, AccountsKeptInv DEF AccountsKept
<1>4. CASE User
  BY <1>4, UserAccountsInv
<1>5. ASSUME NEW p \in Principals, AccountAdded(p) PROVE AccountsInv'
  BY <1>5, AccountAddedInv
<1> QED BY <1>1, <1>2, <1>3, <1>4, <1>5 DEF Next

LEMMA InitAccounts == Init => AccountsInv
<1> SUFFICES ASSUME Init PROVE AccountsInv
  OBVIOUS
<1>1. inbox = <<>> /\ adding = {} /\ temporary = {}
  BY DEF Init, ManagerInit, ServiceInit
<1>2. AnswersOnce(inbox) /\ \A p : ~Has(inbox, AccountKinds, p)
  BY <1>1 DEF AnswersOnce, Has
<1>3. \A p \in Principals : Accounts(p) <= 1
  BY DEF Init, ServiceInit
<1> QED BY <1>1, <1>2, <1>3 DEF AccountsInv

\* The service never makes a second account for a principal, whatever signals
\* of one refresh or of several come together with the answers of the daemon
\* and with what the user does in Settings.
THEOREM OneAccount == Spec => []OneAccountPerPrincipal
<1>1. Init => ServiceStateOK /\ AccountsInv
  BY InitTypes, InitAccounts
<1>2. (ServiceStateOK /\ AccountsInv) /\ [Next]_vars => (ServiceStateOK /\ AccountsInv)'
  <2>1. ServiceStateOK /\ [Next]_vars => ServiceStateOK'
    BY ThreadTypes, SignInTypes, DispatchTypes, UserTypes, OtherTypes DEF Next
  <2> QED BY <2>1, AccountsStep
<1>3. ServiceStateOK /\ AccountsInv => OneAccountPerPrincipal
  <2> SUFFICES ASSUME ServiceStateOK, AccountsInv, NEW p \in Principals \ excused
               PROVE  Accounts(p) + Cardinality(adding \cap {p}) <= 1
    BY DEF OneAccountPerPrincipal
  <2>1. Accounts(p) \in Nat /\ Accounts(p) <= 1 /\ (p \in adding => Accounts(p) = 0)
    BY DEF AccountsInv, Accounts, ServiceStateOK, ServiceTypeOK
  <2>2. CASE p \in adding
    <3>1. adding \cap {p} = {p}
      BY <2>2
    <3>2. Cardinality({p}) = 1
      BY FS_Singleton
    <3> QED BY <3>1, <3>2, <2>1, <2>2
  <2>3. CASE p \notin adding
    <3>1. adding \cap {p} = {}
      BY <2>3
    <3> QED BY <3>1, <2>1, FS_EmptySet
  <2> QED BY <2>2, <2>3
<1> QED BY <1>1, <1>2, <1>3, PTL DEF Spec

-----------------------------------------------------------------------------
(* Refreshes that are due. *)

RefreshIn(q) == \E i \in DOMAIN q : q[i].kind = "refresh"

\* At least n refreshes are queued: their places, in order.
Refreshes(q, n) ==
    \E f \in [1 .. n -> DOMAIN q] :
        /\ \A k \in 1 .. n : q[f[k]].kind = "refresh"
        /\ \A j, k \in 1 .. n : j < k => f[j] < f[k]

\* Nothing that a refresh would find can be missed for good.
RefreshDue == notify \/ RefreshIn(queue)

LEMMA PushedRefreshes ==
    ASSUME NEW q \in Seq(Operations), NEW o \in Operations, NEW n \in Nat
    PROVE  /\ Refreshes(q, n) => Refreshes(Append(q, o), n)
           /\ Refreshes(q, n) /\ o.kind = "refresh" => Refreshes(Append(q, o), n + 1)
           /\ RefreshIn(Append(q, o)) <=> RefreshIn(q) \/ o.kind = "refresh"
<1> DEFINE r == Append(q, o)
           l == Len(q) + 1
<1>1. /\ Len(q) \in Nat /\ DOMAIN q = 1..Len(q)
      /\ l \in DOMAIN r /\ r[l] = o
      /\ \A i \in DOMAIN q : i \in DOMAIN r /\ r[i] = q[i]
      /\ \A i \in DOMAIN r : i \in DOMAIN q \/ i = l
  BY PushedOperation
<1> HIDE DEF r
<1>2. \A i \in DOMAIN q : i \in Nat /\ i < l
  BY <1>1
<1> HIDE DEF l
<1>3. RefreshIn(r) <=> RefreshIn(q) \/ o.kind = "refresh"
  BY <1>1 DEF RefreshIn
<1>4. ASSUME Refreshes(q, n) PROVE Refreshes(r, n)
  <2>1. PICK f \in [1 .. n -> DOMAIN q] :
          /\ \A k \in 1 .. n : q[f[k]].kind = "refresh"
          /\ \A j, k \in 1 .. n : j < k => f[j] < f[k]
    BY <1>4 DEF Refreshes
  <2>2. f \in [1 .. n -> DOMAIN r]
    BY <1>1
  <2>3. \A k \in 1 .. n : r[f[k]].kind = "refresh"
    BY <1>1, <2>1
  <2> QED BY <2>1, <2>2, <2>3 DEF Refreshes
<1>5. ASSUME Refreshes(q, n), o.kind = "refresh" PROVE Refreshes(r, n + 1)
  <2>1. PICK f \in [1 .. n -> DOMAIN q] :
          /\ \A k \in 1 .. n : q[f[k]].kind = "refresh"
          /\ \A j, k \in 1 .. n : j < k => f[j] < f[k]
    BY <1>5 DEF Refreshes
  <2> DEFINE g == [k \in 1 .. n + 1 |-> IF k = n + 1 THEN l ELSE f[k]]
  <2>2. \A k \in 1 .. n + 1 : k = n + 1 \/ k \in 1 .. n
    OBVIOUS
  <2>3. \A k \in 1 .. n : f[k] \in DOMAIN q
    OBVIOUS
  <2>4. g \in [1 .. n + 1 -> DOMAIN r]
    BY <1>1, <2>2, <2>3
  <2>5. \A k \in 1 .. n + 1 : r[g[k]].kind = "refresh"
    BY <1>1, <1>5, <2>1, <2>2, <2>3
  <2>6. ASSUME NEW j \in 1 .. n + 1, NEW k \in 1 .. n + 1, j < k PROVE g[j] < g[k]
    <3>1. j \in 1 .. n
      BY <2>6
    <3>2. CASE k = n + 1
      BY <3>1, <3>2, <1>2, <2>3
    <3>3. CASE k \in 1 .. n
      <4>1. f[j] < f[k] /\ j # n + 1 /\ k # n + 1
        BY <3>1, <3>3, <2>1, <2>6
      <4> QED BY <4>1
    <3> QED BY <2>2, <3>2, <3>3
  <2> HIDE DEF g
  <2> QED BY <2>4, <2>5, <2>6 DEF Refreshes
<1> QED BY <1>3, <1>4, <1>5 DEF r

LEMMA TakenRefreshes ==
    ASSUME NEW q \in Seq(Operations), q # <<>>, NEW n \in Nat, Refreshes(q, n)
    PROVE  /\ Head(q).kind # "refresh" => /\ Refreshes(Tail(q), n)
                                          /\ RefreshIn(q) => RefreshIn(Tail(q))
           /\ n > 0 => Refreshes(Tail(q), n - 1)
           /\ n > 1 => RefreshIn(Tail(q))
<1> DEFINE r == Tail(q)
<1>1. /\ 1 \in DOMAIN q /\ Head(q) = q[1]
      /\ \A i \in DOMAIN q : i # 1 => i - 1 \in DOMAIN r /\ r[i - 1] = q[i]
      /\ DOMAIN q \subseteq Nat \ {0}
  BY TakenOperation, LenProperties
<1> HIDE DEF r
<1>2. PICK f \in [1 .. n -> DOMAIN q] :
          /\ \A k \in 1 .. n : q[f[k]].kind = "refresh"
          /\ \A j, k \in 1 .. n : j < k => f[j] < f[k]
  BY DEF Refreshes
<1>3. \A k \in 1 .. n : f[k] \in DOMAIN q /\ f[k] \in Nat \ {0}
  BY <1>1
<1>4. ASSUME q[1].kind # "refresh" PROVE Refreshes(r, n)
  <2> DEFINE g == [k \in 1 .. n |-> f[k] - 1]
  <2>1. \A k \in 1 .. n : f[k] # 1
    BY <1>2, <1>4
  <2>2. \A k \in 1 .. n : g[k] \in DOMAIN r /\ r[g[k]].kind = "refresh"
    BY <1>1, <1>2, <1>3, <2>1
  <2>3. \A j, k \in 1 .. n : j < k => g[j] < g[k]
    BY <1>2, <1>3
  <2>4. g \in [1 .. n -> DOMAIN r]
    BY <2>2
  <2> HIDE DEF g
  <2> QED BY <2>2, <2>3, <2>4 DEF Refreshes
<1>5. ASSUME n > 0 PROVE Refreshes(r, n - 1)
  <2> DEFINE g == [k \in 1 .. n - 1 |-> f[k + 1] - 1]
  <2>1. \A k \in 1 .. n - 1 : k + 1 \in 1 .. n /\ 1 \in 1 .. n /\ 1 < k + 1
    OBVIOUS
  <2>2. \A k \in 1 .. n - 1 : f[k + 1] # 1
    BY <1>2, <1>3, <2>1
  <2>3. \A k \in 1 .. n - 1 : g[k] \in DOMAIN r /\ r[g[k]].kind = "refresh"
    BY <1>1, <1>2, <1>3, <2>1, <2>2
  <2>4. ASSUME NEW j \in 1 .. n - 1, NEW k \in 1 .. n - 1, j < k PROVE g[j] < g[k]
    <3>1. f[j + 1] < f[k + 1]
      <4>1. j + 1 < k + 1
        BY <2>4
      <4> QED BY <4>1, <1>2, <2>1
    <3> QED BY <3>1, <1>3, <2>1
  <2>5. g \in [1 .. n - 1 -> DOMAIN r]
    BY <2>3
  <2> HIDE DEF g
  <2> QED BY <2>3, <2>4, <2>5 DEF Refreshes
<1>6. ASSUME n > 1 PROVE RefreshIn(r)
  <2>1. 1 \in 1 .. n /\ 2 \in 1 .. n /\ 1 < 2
    BY <1>6
  <2>2. f[1] < f[2] /\ f[2] # 1
    BY <1>2, <1>3, <2>1
  <2>3. f[2] \in DOMAIN q /\ q[f[2]].kind = "refresh"
    BY <1>2, <2>1
  <2> QED BY <1>1, <2>2, <2>3 DEF RefreshIn
<1>7. ASSUME q[1].kind # "refresh", RefreshIn(q) PROVE RefreshIn(r)
  BY <1>1, <1>7 DEF RefreshIn
<1> QED BY <1>1, <1>4, <1>5, <1>6, <1>7 DEF r

\* Steps that do not take a refresh from the queue.
DueKept ==
    /\ RefreshDue => RefreshDue'
    /\ Refreshes(queue, pending) => Refreshes(queue', pending')

LEMMA PushedDue ==
    ASSUME ServiceStateOK, NEW o \in Operations, queue' = Append(queue, o),
           \/ pending' = pending /\ notify' = notify
           \/ o.kind = "refresh" /\ pending' = pending + 1
    PROVE  DueKept
<1>1. queue \in Seq(Operations) /\ pending \in Nat
  BY DEF ServiceStateOK, ManagerTypeOK
<1>2. Refreshes(queue, pending) => Refreshes(queue', pending')
  BY <1>1, PushedRefreshes
<1>3. RefreshIn(queue') <=> RefreshIn(queue) \/ o.kind = "refresh"
  BY <1>1, PushedRefreshes
<1> QED BY <1>2, <1>3 DEF DueKept, RefreshDue

LEMMA VerifiedDue ==
    ASSUME ServiceStateOK, NEW p, NEW l, Verified(p, l), notify => notify'
    PROVE  DueKept
<1>1. CASE ScheduleRefresh
  <2>1. queue \in Seq(Operations) /\ pending \in Nat
    BY DEF ServiceStateOK, ManagerTypeOK
  <2>2. RefreshOp \in Operations /\ RefreshOp.kind = "refresh"
    BY OperationsPushed DEF RefreshOp, Op
  <2> QED BY <1>1, <2>2, PushedDue DEF ScheduleRefresh
<1>2. CASE UNCHANGED <<queue, pending>>
  BY <1>2 DEF DueKept, RefreshDue
<1> QED BY <1>1, <1>2 DEF Verified

-----------------------------------------------------------------------------
(* The table of the identities and the credential caches. *)

TableInv ==
    /\ \A p \in Principals \ table : level[p] = "none"
    /\ pool.known \subseteq table
    /\ pool.at = "verify" => pool.todo \subseteq table
    /\ \A p \in table : cache[p] = "dead" =>
          level[p] = "dead" \/ (level[p] = "live" /\ p \in watched)

\* The manager knows of p what the caches say.
Matches(p) == (p \in table <=> cache[p] # "none") /\ level[p] = cache[p]

\* Unless a refresh is due or the last one failed: what the thread knows, as
\* far as it has come with the one that it is at.
SyncInv ==
    ~RefreshDue /\ ~failed =>
        /\ pool.at \in {"idle", "start", "inquire"} => \A p \in Principals : Matches(p)
        /\ pool.at = "enumerate" =>
              \A p \in Principals : /\ cache[p] # "none" => p \in pool.todo \cup pool.known
                                    /\ p \in pool.known => cache[p] # "none"
        /\ pool.at \in {"verify", "drop"} =>
              \A p \in Principals : cache[p] # "none" <=> p \in pool.known
        /\ pool.at = "verify" => \A p \in pool.known \ pool.todo : level[p] = cache[p]
        /\ pool.at = "drop" => \A p \in pool.known : level[p] = cache[p]

ManagerInv ==
    /\ ServiceStateOK
    /\ Refreshes(queue, pending)
    /\ TableInv
    /\ SyncInv

\* What the main loop does between two steps of the thread.
LoopQuiet ==
    /\ UNCHANGED <<cache, table, level, pool, failed>>
    /\ watched \subseteq watched'
    /\ DueKept

LEMMA QuietManager ==
    ASSUME ManagerInv, LoopQuiet
    PROVE  Refreshes(queue', pending') /\ TableInv' /\ SyncInv'
<1>1. Refreshes(queue', pending')
  BY DEF ManagerInv, LoopQuiet, DueKept
<1>2. TableInv'
  BY DEF ManagerInv, LoopQuiet, TableInv
<1>3. SyncInv'
  <2>1. ~RefreshDue' => ~RefreshDue
    BY DEF LoopQuiet, DueKept
  <2> QED BY <2>1 DEF ManagerInv, LoopQuiet, SyncInv, Matches
<1> QED BY <1>1, <1>2, <1>3

LEMMA LoopIsQuiet ==
    ASSUME ServiceStateOK,
           \/ Dispatch \/ Monitor \/ PromptOpened \/ PromptAnswered \/ User
           \/ \E p \in Principals : AccountAdded(p)
           \/ UNCHANGED vars
    PROVE  LoopQuiet
<1>1. ASSUME UNCHANGED <<queue, pending, notify>> PROVE DueKept
  BY <1>1 DEF DueKept, RefreshDue
<1>2. CASE Dispatch
  <2>1. PICK e : \/ OnAdded(e) \/ OnRemoved(e) \/ OnRefreshed(e) \/ OnExpired(e)
                 \/ OnListed(e) \/ OnGot(e) \/ OnSignedOut(e) \/ OnSignedIn(e) \/ OnInquiry(e)
                 \/ OnAccountAdded(e)
    BY <1>2 DEF Dispatch
  <2>2. /\ UNCHANGED <<cache, notify, table, level, pool, pending, failed>>
        /\ watched \subseteq watched'
    BY <2>1 DEF OnAdded, OnRemoved, OnRefreshed, OnExpired, OnListed, OnGot, OnSignedOut,
                OnSignedIn, OnInquiry, OnAccountAdded
  <2>3. CASE OnGot(e) /\ e.kind = "found"
    <3>1. e.id \in Principals /\ e.call \in Calls \cup {None}
      BY <2>3, HandledTypes DEF OnGot
    <3>2. Op("sign out", e.id, e.call) \in Operations
      BY <3>1, OperationsPushed
    <3>3. queue' = Append(queue, Op("sign out", e.id, e.call))
      BY <2>3 DEF OnGot, Push
    <3>4. DueKept
      BY <3>2, <3>3, <2>2, PushedDue
    <3> QED BY <3>4, <2>2 DEF LoopQuiet
  <2>4. CASE ~(OnGot(e) /\ e.kind = "found")
    <3>1. queue' = queue
      BY <2>1, <2>4 DEF OnAdded, OnRemoved, OnRefreshed, OnExpired, OnListed, OnGot,
                        OnSignedOut, OnSignedIn, OnInquiry, OnAccountAdded
    <3> QED BY <3>1, <2>2, <1>1 DEF LoopQuiet
  <2> QED BY <2>3, <2>4
<1>3. CASE Monitor
  <2>1. /\ UNCHANGED <<cache, table, level, watched, pool, failed>>
        /\ queue' = Append(queue, RefreshOp) /\ pending' = pending + 1
    BY <1>3 DEF Monitor, NotifyHandled, ScheduleRefresh
  <2>2. RefreshOp \in Operations /\ RefreshOp.kind = "refresh"
    BY OperationsPushed DEF RefreshOp, Op
  <2> QED BY <2>1, <2>2, PushedDue DEF LoopQuiet
<1>4. CASE PromptOpened \/ PromptAnswered
  BY <1>1, <1>4 DEF PromptOpened, PromptAnswered, PromptStep, managerVars, LoopQuiet
<1>5. CASE User
  <2>1. PICK p \in Principals : \/ UserAdds(p) \/ UserRemoves(p) \/ UserDisables(p)
                                \/ UserEnables(p) \/ RenewalDue(p)
                                \/ \E c \in Calls : SignInCalled(c, p) \/ SignOutCalled(c, p)
    BY <1>5 DEF User
  <2>2. /\ UNCHANGED <<cache, notify, table, level, watched, pool, pending, failed>>
        /\ \/ queue' = queue
           \/ \E kind \in {"get", "sign in", "sign out", "renew"}, c \in Calls \cup {None} :
                 queue' = Append(queue, Op(kind, p, c))
    BY <2>1 DEF UserAdds, UserRemoves, UserDisables, UserEnables, RenewalDue, SignInCalled,
                SignOutCalled, Push
  <2>3. DueKept
    BY <2>2, <1>1, OperationsPushed, PushedDue
  <2> QED BY <2>2, <2>3 DEF LoopQuiet
<1>6. ASSUME NEW p \in Principals, AccountAdded(p) PROVE LoopQuiet
  BY <1>1, <1>6 DEF AccountAdded, LoopQuiet
<1>7. CASE UNCHANGED vars
  BY <1>1, <1>7 DEF vars, managerVars, LoopQuiet
<1> QED BY <1>2, <1>3, <1>4, <1>5, <1>6, <1>7

\* The thread takes up an operation.
LEMMA TakingManager ==
    ASSUME ManagerInv, Take \/ RefreshSkipped \/ RefreshStarts
    PROVE  Refreshes(queue', pending') /\ TableInv' /\ SyncInv'
<1>1. /\ ServiceStateOK /\ Refreshes(queue, pending) /\ TableInv /\ SyncInv
      /\ queue \in Seq(Operations) /\ pending \in Nat
      /\ PoolOK
  BY DEF ManagerInv, ServiceStateOK, ManagerTypeOK
<1>2. Free
  BY DEF Take, RefreshSkipped, RefreshStarts
<1>3. pool.at = "idle" /\ pool.known = {} /\ queue # <<>>
  BY <1>1, <1>2, FreeThread
<1>4. CASE Take
  <2>1. /\ Head(queue).kind # "refresh" /\ queue' = Tail(queue)
        /\ pool'.at = "start" /\ pool'.known = {}
        /\ UNCHANGED <<cache, notify, table, level, watched, pending, failed>>
    BY <1>4 DEF Take, IdlePool
  <2>2. DueKept
    BY <1>1, <1>3, <2>1, TakenRefreshes DEF DueKept, RefreshDue
  <2>3. TableInv'
    BY <1>1, <2>1 DEF TableInv
  <2>4. SyncInv'
    BY <1>1, <1>3, <2>1, <2>2 DEF SyncInv, DueKept, Matches
  <2> QED BY <1>1, <2>2, <2>3, <2>4 DEF DueKept
<1>5. CASE RefreshSkipped
  <2>1. /\ queue' = Tail(queue) /\ pending > 1 /\ pending' = pending - 1
        /\ UNCHANGED <<cache, table, level, watched, pool, failed>>
    BY <1>5 DEF RefreshSkipped
  <2>2. Refreshes(queue', pending') /\ RefreshIn(queue')
    BY <1>1, <1>3, <2>1, TakenRefreshes
  <2>3. TableInv'
    BY <1>1, <2>1 DEF TableInv
  <2>4. SyncInv'
    BY <2>2 DEF SyncInv, RefreshDue
  <2> QED BY <2>2, <2>3, <2>4
<1>6. CASE RefreshStarts
  <2>1. /\ queue' = Tail(queue) /\ pending = 1 /\ pending' = 0
        /\ pool'.at = "enumerate" /\ pool'.known = {}
        /\ pool'.todo = {p \in Principals : cache[p] # "none"}
        /\ UNCHANGED <<cache, table, level, watched>>
    BY <1>6 DEF RefreshStarts
  <2>2. Refreshes(queue', pending')
    BY <1>1, <1>3, <2>1, TakenRefreshes
  <2>3. TableInv'
    BY <1>1, <2>1 DEF TableInv
  <2>4. SyncInv'
    BY <2>1 DEF SyncInv
  <2> QED BY <2>2, <2>3, <2>4
<1> QED BY <1>4, <1>5, <1>6

\* A refresh, cache by cache.
LEMMA RefreshingManager ==
    ASSUME ManagerInv,
           \/ \E p \in Principals : ImportCache(p) \/ VerifyIdentity(p) \/ DropStale(p)
           \/ CursorEnds \/ CursorFails \/ VerifyEnds \/ RefreshEnds
    PROVE  Refreshes(queue', pending') /\ TableInv' /\ SyncInv'
<1>1. /\ ServiceStateOK /\ Refreshes(queue, pending) /\ TableInv /\ SyncInv
      /\ level \in [Principals -> Level] /\ table \subseteq Principals
      /\ pool \in [op : Operations \cup {None}, at : Places,
                   todo : SUBSET Principals, known : SUBSET Principals]
  BY DEF ManagerInv, ServiceStateOK, ManagerTypeOK, PoolOK
<1>2. ASSUME UNCHANGED <<queue, pending, notify>>
      PROVE  Refreshes(queue', pending') /\ (RefreshDue' <=> RefreshDue)
  BY <1>1, <1>2 DEF RefreshDue
<1>3. ASSUME NEW p \in Principals, ImportCache(p)
      PROVE  Refreshes(queue', pending') /\ TableInv' /\ SyncInv'
  <2>1. /\ pool.at = "enumerate" /\ p \notin pool.known /\ cache[p] # "none"
        /\ pool'.at = "enumerate" /\ pool'.todo = pool.todo \ {p}
        /\ pool'.known = pool.known \cup {p}
        /\ UNCHANGED <<cache, watched, failed, queue, pending, notify>>
        /\ table' = table \cup {p}
        /\ level' = IF p \in table THEN level ELSE [level EXCEPT ![p] = cache[p]]
    BY <1>1, <1>3 DEF ImportCache, At
  <2>2. TableInv'
    BY <1>1, <2>1 DEF TableInv
  <2>3. SyncInv'
    BY <1>1, <1>2, <2>1 DEF SyncInv
  <2> QED BY <1>2, <2>1, <2>2, <2>3
<1>4. ASSUME NEW p \in Principals, VerifyIdentity(p)
      PROVE  Refreshes(queue', pending') /\ TableInv' /\ SyncInv'
  <2>1. /\ pool.at = "verify" /\ p \in pool.todo
        /\ pool'.at = "verify" /\ pool'.todo = pool.todo \ {p}
        /\ pool'.known = pool.known
        /\ UNCHANGED <<cache, table, watched, failed, notify>>
        /\ level' = [level EXCEPT ![p] = cache[p]]
        /\ Verified(p, cache[p])
    BY <1>1, <1>4 DEF VerifyIdentity, At, Verified
  <2>2. DueKept
    BY <1>1, <2>1, VerifiedDue
  <2>3. TableInv'
    BY <1>1, <2>1 DEF TableInv
  <2>4. SyncInv'
    BY <1>1, <2>1, <2>2 DEF SyncInv, DueKept
  <2> QED BY <1>1, <2>2, <2>3, <2>4 DEF DueKept
<1>5. ASSUME NEW p \in Principals, DropStale(p)
      PROVE  Refreshes(queue', pending') /\ TableInv' /\ SyncInv'
  <2>1. /\ pool.at = "drop" /\ p \in table \ pool.known /\ pool' = pool
        /\ table' = table \ {p} /\ watched' = watched \ {p}
        /\ level' = [level EXCEPT ![p] = "none"]
        /\ UNCHANGED <<cache, failed, queue, pending, notify>>
    BY <1>5 DEF DropStale, At
  <2>2. TableInv'
    BY <1>1, <2>1 DEF TableInv
  <2>3. SyncInv'
    BY <1>1, <1>2, <2>1 DEF SyncInv
  <2> QED BY <1>2, <2>1, <2>2, <2>3
<1>6. CASE CursorEnds
  <2>1. /\ pool.at = "enumerate" /\ \A p \in pool.todo : cache[p] = "none"
        /\ pool'.at = "verify" /\ pool'.todo = table /\ pool'.known = pool.known
        /\ UNCHANGED <<cache, table, level, watched, failed, queue, pending, notify>>
    BY <1>1, <1>6 DEF CursorEnds, At
  <2>2. TableInv'
    BY <1>1, <2>1 DEF TableInv
  <2>3. SyncInv'
    <3>1. pool.known \subseteq table
      BY <1>1 DEF TableInv
    <3> QED BY <1>1, <1>2, <2>1, <3>1 DEF SyncInv
  <2> QED BY <1>2, <2>1, <2>2, <2>3
<1>7. CASE CursorFails
  <2>1. /\ failed' = TRUE /\ pool'.known = pool.known
        /\ pool'.at = "verify" => pool'.todo = table
        /\ UNCHANGED <<cache, table, level, watched, queue, pending, notify>>
    BY <1>1, <1>7 DEF CursorFails
  <2>2. TableInv'
    BY <1>1, <2>1 DEF TableInv
  <2> QED BY <1>2, <2>1, <2>2 DEF SyncInv
<1>8. CASE VerifyEnds
  <2>1. /\ pool.at = "verify" /\ pool.todo = {}
        /\ pool'.at = "drop" /\ pool'.known = pool.known
        /\ UNCHANGED <<cache, table, level, watched, failed, queue, pending, notify>>
    BY <1>1, <1>8 DEF VerifyEnds, At
  <2>2. TableInv'
    BY <1>1, <2>1 DEF TableInv
  <2>3. SyncInv'
    BY <1>1, <1>2, <2>1 DEF SyncInv
  <2> QED BY <1>2, <2>1, <2>2, <2>3
<1>9. CASE RefreshEnds
  <2>1. /\ pool.at = "drop" /\ table \subseteq pool.known
        /\ pool'.at = "idle" /\ pool'.known = {}
        /\ UNCHANGED <<cache, table, level, watched, failed, queue, pending, notify>>
    BY <1>9 DEF RefreshEnds, At, IdlePool
  <2>2. TableInv'
    BY <1>1, <2>1 DEF TableInv
  <2>3. ASSUME ~RefreshDue, ~failed, NEW p \in Principals PROVE Matches(p)
    <3>1. pool.known = table
      BY <1>1, <2>1 DEF TableInv
    <3>2. (cache[p] # "none" <=> p \in table) /\ (p \in table => level[p] = cache[p])
      BY <1>1, <2>1, <2>3, <3>1 DEF SyncInv
    <3>3. p \notin table => level[p] = "none"
      BY <1>1 DEF TableInv
    <3> QED BY <3>2, <3>3 DEF Matches
  <2>4. SyncInv'
    BY <1>2, <2>1, <2>3 DEF SyncInv, Matches
  <2> QED BY <1>2, <2>1, <2>2, <2>4
<1> QED BY <1>3, <1>4, <1>5, <1>6, <1>7, <1>8, <1>9

\* The operations on one identity.
LEMMA OperationManager ==
    ASSUME ManagerInv, ListIdentities \/ GetIdentity \/ SignInInquires \/ SignOut \/ Renew
    PROVE  Refreshes(queue', pending') /\ TableInv' /\ SyncInv'
<1>1. /\ ServiceStateOK /\ Refreshes(queue, pending) /\ TableInv /\ SyncInv
      /\ cache \in [Principals -> Level]
      /\ pool \in [op : Operations \cup {None}, at : Places,
                   todo : SUBSET Principals, known : SUBSET Principals]
  BY DEF ManagerInv, ServiceStateOK, ManagerTypeOK, PoolOK
<1>2. /\ pool.at = "start" /\ pool'.at \in {"idle", "inquire"} /\ pool'.known \subseteq pool.known
      /\ UNCHANGED <<table, level, watched, failed, queue, pending>>
      /\ notify => notify'
      /\ ~notify' => cache' = cache
      /\ \A p \in Principals : cache'[p] = "dead" => cache[p] = "dead"
  <2>1. CASE ListIdentities \/ GetIdentity \/ SignInInquires
    <3>1. pool'.at \in {"idle", "inquire"} /\ pool'.known \subseteq pool.known
      <4>1. CASE ListIdentities \/ GetIdentity
        BY <4>1 DEF ListIdentities, GetIdentity, IdlePool
      <4>2. CASE SignInInquires
        BY <4>2, <1>1 DEF SignInInquires
      <4> QED BY <2>1, <4>1, <4>2
    <3>2. UNCHANGED <<cache, notify, table, level, watched, failed, queue, pending>>
      BY <2>1 DEF ListIdentities, GetIdentity, SignInInquires
    <3>3. pool.at = "start"
      BY <2>1 DEF ListIdentities, GetIdentity, SignInInquires, At
    <3> QED BY <3>1, <3>2, <3>3
  <2>2. CASE Renew
    BY <1>1, <2>2 DEF Renew, At, IdlePool
  <2>3. CASE SignOut
    <3>1. \A p \in Principals : cache'[p] = "dead" => cache[p] = "dead"
      BY <1>1, <2>3 DEF SignOut
    <3> QED BY <3>1, <1>1, <2>3 DEF SignOut, At, IdlePool
  <2> QED BY <2>1, <2>2, <2>3
<1>3. Refreshes(queue', pending') /\ (~RefreshDue' => ~RefreshDue /\ cache' = cache)
  BY <1>1, <1>2 DEF RefreshDue
<1>4. TableInv'
  <2>1. table \subseteq Principals
    BY <1>1 DEF ServiceStateOK, ManagerTypeOK
  <2> QED BY <2>1, <1>1, <1>2 DEF TableInv
<1>5. SyncInv'
  BY <1>1, <1>2, <1>3 DEF SyncInv, Matches
<1> QED BY <1>3, <1>4, <1>5

\* The end of a sign-in, however it ends.
LEMMA SignInManager ==
    ASSUME ManagerInv, SignInEnds
    PROVE  Refreshes(queue', pending') /\ TableInv' /\ SyncInv'
<1>1. /\ ServiceStateOK /\ PoolOK /\ Refreshes(queue, pending) /\ TableInv /\ SyncInv
      /\ cache \in [Principals -> Level] /\ level \in [Principals -> Level]
      /\ table \subseteq Principals
  BY DEF ManagerInv, ServiceStateOK, ManagerTypeOK
<1>2. /\ pool.at \in {"start", "inquire"} /\ pool.op.id \in Principals
      /\ pool'.at = "idle" /\ pool'.known = {}
      /\ failed' = failed /\ watched' = watched
  <2>1. pool.at \in {"start", "inquire"} /\ pool.op.id \in Principals
    BY <1>1, AtPlaces DEF SignInEnds
  <2>2. pool' = IdlePool /\ failed' = failed /\ watched' = watched
    BY DEF SignInEnds, SignInSucceeds, SignInRefused, NewSignInRefused
  <2> QED BY <2>1, <2>2 DEF IdlePool
<1> DEFINE p == pool.op.id
<1>3. CASE SignInSucceeds
  <2>1. /\ notify' = TRUE /\ table' = table \cup {p} /\ Verified(p, "live")
        /\ level' = [level EXCEPT ![p] = "live"]
        /\ \A q \in Principals : cache'[q] = "dead" => q # p /\ cache[q] = "dead"
    BY <1>1, <1>2, <1>3 DEF SignInSucceeds, Verified, Without
  <2>2. DueKept
    BY <1>1, <2>1, VerifiedDue
  <2>3. TableInv'
    BY <1>1, <1>2, <2>1 DEF TableInv
  <2> QED BY <1>1, <2>1, <2>2, <2>3 DEF DueKept, SyncInv, RefreshDue
<1>4. CASE SignInRefused(prompt = "cancelled")
  <2>1. /\ p \in table \/ cache[p] = "live"
        /\ table' = IF cache[p] = "live" THEN table \cup {p} ELSE table
        /\ Verified(p, cache[p])
        /\ level' = [level EXCEPT ![p] = cache[p]]
        /\ UNCHANGED <<cache, notify>>
    BY <1>4 DEF SignInRefused, Verified
  <2>2. DueKept
    BY <1>1, <2>1, VerifiedDue
  <2>3. TableInv'
    BY <1>1, <1>2, <2>1 DEF TableInv
  <2>4. ASSUME ~RefreshDue', ~failed, NEW q \in Principals PROVE Matches(q)'
    <3>1. \A r \in Principals : Matches(r)
      BY <1>1, <1>2, <2>2, <2>4 DEF SyncInv, DueKept
    <3>2. (q \in table' <=> q \in table) /\ level'[q] = cache[q]
      BY <1>1, <1>2, <2>1, <3>1 DEF Matches
    <3> QED BY <2>1, <3>1, <3>2 DEF Matches
  <2>5. SyncInv'
    BY <1>2, <2>4 DEF SyncInv
  <2> QED BY <1>1, <2>2, <2>3, <2>5 DEF DueKept
<1>5. CASE NewSignInRefused
  <2>1. /\ UNCHANGED <<table, level, queue, pending>>
        /\ notify => notify'
        /\ ~notify' => cache' = Without({})
        /\ \A q \in Principals : cache'[q] = "dead" => cache[q] = "dead"
    BY <1>5 DEF NewSignInRefused, Without
  <2>2. Without({}) = cache
    BY <1>1 DEF Without
  <2>3. Refreshes(queue', pending') /\ (~RefreshDue' => ~RefreshDue /\ cache' = cache)
    BY <1>1, <2>1, <2>2 DEF RefreshDue
  <2>4. TableInv'
    BY <1>1, <1>2, <2>1 DEF TableInv
  <2>5. SyncInv'
    BY <1>1, <1>2, <2>1, <2>3 DEF SyncInv, Matches
  <2> QED BY <2>3, <2>4, <2>5
<1> QED BY <1>3, <1>4, <1>5 DEF SignInEnds

\* What happens to the caches outside.
LEMMA OutsideManager ==
    ASSUME ManagerInv, NEW p \in Principals, CacheChanges(p) \/ TicketExpires(p)
    PROVE  Refreshes(queue', pending') /\ TableInv' /\ SyncInv'
<1>1. /\ ServiceStateOK /\ Refreshes(queue, pending) /\ TableInv /\ SyncInv
      /\ cache \in [Principals -> Level] /\ table \subseteq Principals
  BY DEF ManagerInv, ServiceStateOK, ManagerTypeOK
<1>2. CASE CacheChanges(p)
  <2>1. /\ UNCHANGED <<table, level, watched, queue, pending, pool, failed>> /\ notify' = TRUE
        /\ \A q \in Principals : cache'[q] = "dead" => cache[q] = "dead"
    BY <1>1, <1>2 DEF CacheChanges
  <2>2. TableInv'
    BY <1>1, <2>1 DEF TableInv
  <2> QED BY <1>1, <2>1, <2>2 DEF SyncInv, RefreshDue
<1>3. CASE TicketExpires(p)
  <2>1. /\ UNCHANGED <<table, level, watched, queue, pending, pool, failed>>
        /\ notify' = (notify \/ p \in watched)
        /\ cache[p] = "live" /\ cache' = [cache EXCEPT ![p] = "dead"]
        /\ p \in table => p \in watched /\ level[p] = "live"
    BY <1>3 DEF TicketExpires
  <2>2. TableInv'
    BY <1>1, <2>1 DEF TableInv
  <2>3. ~RefreshDue' => ~RefreshDue /\ p \notin table
    BY <2>1 DEF RefreshDue
  <2>4. ASSUME ~RefreshDue', ~failed
        PROVE  /\ pool.at = "enumerate" /\ p \notin pool.known /\ p \in pool.todo
               /\ \A q \in Principals : /\ cache[q] # "none" => q \in pool.todo \cup pool.known
                                        /\ q \in pool.known => cache[q] # "none"
    <3>1. p \notin pool.known
      BY <1>1, <2>3, <2>4 DEF TableInv
    <3>2. ~Matches(p)
      BY <2>1, <2>3, <2>4 DEF Matches
    <3>3. pool.at \in Places
      BY <1>1 DEF ServiceStateOK, PoolOK
    <3>4. pool.at = "enumerate"
      BY <1>1, <2>1, <2>3, <2>4, <3>1, <3>2, <3>3 DEF SyncInv, Places
    <3> QED BY <1>1, <2>1, <2>3, <2>4, <3>1, <3>4 DEF SyncInv
  <2>5. SyncInv'
    BY <1>1, <2>1, <2>4 DEF SyncInv
  <2> QED BY <1>1, <2>1, <2>2, <2>5
<1> QED BY <1>2, <1>3

LEMMA TypesStep == ServiceStateOK /\ [Next]_vars => ServiceStateOK'
  BY ThreadTypes, SignInTypes, DispatchTypes, UserTypes, OtherTypes DEF Next

LEMMA ManagerStep == ManagerInv /\ [Next]_vars => ManagerInv'
<1> SUFFICES ASSUME ManagerInv, [Next]_vars PROVE ManagerInv'
  OBVIOUS
<1>1. ServiceStateOK /\ ServiceStateOK'
  BY TypesStep DEF ManagerInv
<1>2. CASE Thread
  BY <1>1, <1>2, TakingManager, RefreshingManager, OperationManager DEF Thread, ManagerInv
<1>3. CASE SignInEnds
  BY <1>1, <1>3, SignInManager DEF ManagerInv
<1>4. CASE Outside
  BY <1>1, <1>4, RefreshingManager, OutsideManager DEF Outside, ManagerInv
<1>5. CASE \/ Dispatch \/ Monitor \/ PromptOpened \/ PromptAnswered \/ User
           \/ \E p \in Principals : AccountAdded(p)
           \/ UNCHANGED vars
  BY <1>1, <1>5, LoopIsQuiet, QuietManager DEF ManagerInv
<1> QED BY <1>2, <1>3, <1>4, <1>5 DEF Next

LEMMA InitManager == Init => ManagerInv
<1> SUFFICES ASSUME Init PROVE ManagerInv
  OBVIOUS
<1>1. ServiceStateOK
  BY InitTypes
<1>2. /\ queue = <<RefreshOp, Op("list", None, None)>> /\ pending = 1
      /\ table = {} /\ level = [p \in Principals |-> "none"] /\ pool = IdlePool
  BY DEF Init, ManagerInit
<1>3. DOMAIN queue = 1 .. 2 /\ queue[1].kind = "refresh"
  BY <1>2 DEF RefreshOp, Op
<1>4. RefreshDue
  BY <1>3 DEF RefreshDue, RefreshIn
<1>5. Refreshes(queue, pending)
  <2> DEFINE f == [k \in 1 .. 1 |-> 1]
  <2>1. f \in [1 .. pending -> DOMAIN queue]
    BY <1>2, <1>3
  <2>2. \A k \in 1 .. pending : f[k] = 1
    BY <1>2
  <2>3. ASSUME NEW j \in 1 .. pending, NEW k \in 1 .. pending, j < k PROVE f[j] < f[k]
    BY <1>2, <2>3
  <2> HIDE DEF f
  <2> QED BY <1>3, <2>1, <2>2, <2>3 DEF Refreshes
<1>6. TableInv
  BY <1>2 DEF TableInv, IdlePool
<1> QED BY <1>1, <1>4, <1>5, <1>6 DEF ManagerInv, SyncInv

-----------------------------------------------------------------------------
(* The start of the service. *)

\* Only refreshes come before the listing.
ListNext(q) ==
    \E k \in DOMAIN q : q[k].kind = "list" /\ \A j \in DOMAIN q : j < k => q[j].kind = "refresh"

\* The result of the listing is still to be handled.
BeforeListing ==
    \/ ListNext(queue) /\ pool.at \notin {"start", "inquire"}
    \/ pool.at = "start" /\ pool.op.kind = "list"
    \/ Has(inbox, {"listed"}, None)

StartInv ==
    ~running =>
        /\ exports = {} /\ unchecked = {} /\ BeforeListing
        /\ \A p \in Principals : ~Has(inbox, {"signed in"}, p)

LEMMA PushedList ==
    ASSUME NEW q \in Seq(Operations), NEW o \in Operations, ListNext(q)
    PROVE  ListNext(Append(q, o))
<1> DEFINE r == Append(q, o)
           l == Len(q) + 1
<1>1. /\ Len(q) \in Nat /\ DOMAIN q = 1..Len(q)
      /\ \A i \in DOMAIN q : i \in DOMAIN r /\ r[i] = q[i]
      /\ \A i \in DOMAIN r : i \in DOMAIN q \/ i = l
  BY PushedOperation
<1> HIDE DEF r
<1>2. \A i \in DOMAIN q : ~(l < i)
  BY <1>1
<1> HIDE DEF l
<1>3. PICK k \in DOMAIN q : q[k].kind = "list" /\ \A j \in DOMAIN q : j < k => q[j].kind = "refresh"
  BY DEF ListNext
<1>4. \A j \in DOMAIN r : j < k => r[j].kind = "refresh"
  BY <1>1, <1>2, <1>3
<1> QED BY <1>1, <1>3, <1>4 DEF ListNext, r

LEMMA TakenList ==
    ASSUME NEW q \in Seq(Operations), q # <<>>, ListNext(q)
    PROVE  /\ Head(q).kind # "refresh" => Head(q).kind = "list"
           /\ Head(q).kind = "refresh" => ListNext(Tail(q))
<1> DEFINE r == Tail(q)
<1>1. /\ 1 \in DOMAIN q /\ Head(q) = q[1]
      /\ DOMAIN q \subseteq Nat \ {0}
      /\ \A i \in DOMAIN r :
            i \in Nat /\ i + 1 \in DOMAIN q /\ i + 1 > 1 /\ r[i] = q[i + 1]
      /\ \A i \in DOMAIN q : i # 1 => i - 1 \in DOMAIN r /\ r[i - 1] = q[i]
  BY TakenOperation, LenProperties
<1> HIDE DEF r
<1>2. PICK k \in DOMAIN q : q[k].kind = "list" /\ \A j \in DOMAIN q : j < k => q[j].kind = "refresh"
  BY DEF ListNext
<1>3. k = 1 \/ 1 < k
  BY <1>1
<1>4. ASSUME q[1].kind = "refresh" PROVE ListNext(r)
  <2>1. k # 1 /\ k - 1 \in DOMAIN r /\ r[k - 1].kind = "list"
    BY <1>1, <1>2, <1>4
  <2>2. ASSUME NEW j \in DOMAIN r, j < k - 1 PROVE r[j].kind = "refresh"
    <3>1. j + 1 < k
      BY <1>1, <2>2
    <3> QED BY <3>1, <1>1, <1>2
  <2> QED BY <2>1, <2>2 DEF ListNext
<1> QED BY <1>1, <1>2, <1>3, <1>4 DEF r

\* While the thread goes on, no signal and no listing are on their way.
LEMMA NothingAwaited ==
    ASSUME ServiceStateOK, ~Waiting, NEW kinds \in SUBSET (Signals \cup {"listed"})
    PROVE  \A p : ~Has(inbox, kinds, p)
<1>1. DOMAIN inbox = 1 .. Len(inbox)
  BY LenProperties DEF ServiceStateOK, ManagerTypeOK
<1> QED BY <1>1 DEF Waiting, Has

\* The main loop leaves the thread alone and at most pushes an operation.
LEMMA LoopPushes ==
    ASSUME ServiceStateOK,
           \/ Dispatch \/ Monitor \/ PromptOpened \/ PromptAnswered \/ User
           \/ \E p \in Principals : AccountAdded(p)
           \/ UNCHANGED vars
    PROVE  pool' = pool /\ (queue' = queue \/ \E o \in Operations : queue' = Append(queue, o))
<1>1. CASE Dispatch
  <2>1. PICK e : \/ OnAdded(e) \/ OnRemoved(e) \/ OnRefreshed(e) \/ OnExpired(e)
                 \/ OnListed(e) \/ OnGot(e) \/ OnSignedOut(e) \/ OnSignedIn(e) \/ OnInquiry(e)
                 \/ OnAccountAdded(e)
    BY <1>1 DEF Dispatch
  <2>2. CASE OnGot(e) /\ e.kind = "found"
    <3>1. e.id \in Principals /\ e.call \in Calls \cup {None}
      BY <2>2, HandledTypes DEF OnGot
    <3>2. Op("sign out", e.id, e.call) \in Operations
      BY <3>1, OperationsPushed
    <3> QED BY <2>2, <3>2 DEF OnGot, Push
  <2>3. CASE ~(OnGot(e) /\ e.kind = "found")
    BY <2>1, <2>3 DEF OnAdded, OnRemoved, OnRefreshed, OnExpired, OnListed, OnGot, OnSignedOut,
                      OnSignedIn, OnInquiry, OnAccountAdded
  <2> QED BY <2>2, <2>3
<1>2. CASE Monitor
  BY <1>2, OperationsPushed DEF Monitor, NotifyHandled, ScheduleRefresh
<1>3. CASE User
  <2>1. PICK p \in Principals : \/ UserAdds(p) \/ UserRemoves(p) \/ UserDisables(p)
                                \/ UserEnables(p) \/ RenewalDue(p)
                                \/ \E c \in Calls : SignInCalled(c, p) \/ SignOutCalled(c, p)
    BY <1>3 DEF User
  <2>2. /\ pool' = pool
        /\ \/ queue' = queue
           \/ \E kind \in {"get", "sign in", "sign out", "renew"}, c \in Calls \cup {None} :
                 queue' = Append(queue, Op(kind, p, c))
    BY <2>1 DEF UserAdds, UserRemoves, UserDisables, UserEnables, RenewalDue, SignInCalled,
                SignOutCalled, Push
  <2> QED BY <2>2, OperationsPushed
<1>4. CASE \/ PromptOpened \/ PromptAnswered \/ UNCHANGED vars
           \/ \E p \in Principals : AccountAdded(p)
  BY <1>4 DEF PromptOpened, PromptAnswered, PromptStep, AccountAdded, vars, managerVars
<1> QED BY <1>1, <1>2, <1>3, <1>4

\* Until the listing is handled the thread does nothing that would be seen.
LEMMA ThreadStart ==
    ASSUME ServiceStateOK, StartInv, Thread
    PROVE  StartInv'
<1>1. /\ PoolOK /\ queue \in Seq(Operations) /\ inbox \in Seq(Events)
  BY DEF ServiceStateOK, ManagerTypeOK
<1> SUFFICES ASSUME ~running
             PROVE  /\ exports' = {} /\ unchecked' = {} /\ BeforeListing'
                    /\ \A p \in Principals : ~Has(inbox', {"signed in"}, p)
  BY DEF Thread, StartInv
<1>2. exports' = {} /\ unchecked' = {}
  BY DEF Thread, Marked, StartInv
<1>3. /\ BeforeListing
      /\ \A p \in Principals : ~Has(inbox, {"signed in"}, p)
  BY DEF StartInv
<1>4. ~Waiting => ~Has(inbox, {"listed"}, None)
  BY NothingAwaited
<1>5. CASE Take
  <2>1. /\ pool.at = "idle" /\ queue # <<>> /\ ~Waiting
        /\ Head(queue).kind # "refresh" /\ pool'.at = "start" /\ pool'.op = Head(queue)
        /\ inbox' = inbox
    BY <1>1, <1>5, FreeThread DEF Take, IdlePool
  <2>2. ListNext(queue)
    BY <1>3, <1>4, <2>1 DEF BeforeListing
  <2> QED BY <1>1, <1>2, <1>3, <2>1, <2>2, TakenList DEF BeforeListing
<1>6. CASE RefreshSkipped \/ RefreshStarts
  <2>1. /\ pool.at = "idle" /\ queue # <<>> /\ ~Waiting
        /\ Head(queue).kind = "refresh" /\ queue' = Tail(queue)
        /\ pool'.at \in {"idle", "enumerate"} /\ inbox' = inbox
    BY <1>1, <1>6, FreeThread DEF RefreshSkipped, RefreshStarts
  <2>2. ListNext(queue)
    BY <1>3, <1>4, <2>1 DEF BeforeListing
  <2> QED BY <1>1, <1>2, <1>3, <2>1, <2>2, TakenList DEF BeforeListing
<1>7. CASE ListIdentities
  <2> DEFINE e == [kind |-> "listed", id |-> None, call |-> None]
  <2>1. e \in Events /\ e.kind = "listed" /\ e.id = None /\ inbox' = Append(inbox, e)
    BY <1>7, EventsSent DEF ListIdentities, Send
  <2> HIDE DEF e
  <2>2. /\ Has(inbox', {"listed"}, None)
        /\ \A p \in Principals : ~Has(inbox', {"signed in"}, p)
    BY <1>1, <1>3, <2>1, AppendedEvent
  <2> QED BY <1>2, <2>2 DEF BeforeListing
<1>8. CASE \/ \E p \in Principals : ImportCache(p) \/ VerifyIdentity(p) \/ DropStale(p)
           \/ CursorEnds \/ VerifyEnds \/ RefreshEnds
  <2>1. ~Waiting /\ pool.at \in Refreshing /\ pool'.at \in Refreshing \cup {"idle"}
    <3>1. pool \in [op : Operations \cup {None}, at : Places,
                    todo : SUBSET Principals, known : SUBSET Principals]
      BY <1>1 DEF PoolOK
    <3>2. ASSUME NEW p \in Principals, ImportCache(p) \/ VerifyIdentity(p) \/ DropStale(p)
          PROVE  ~Waiting /\ pool.at \in Refreshing /\ pool'.at = pool.at
      BY <3>1, <3>2 DEF ImportCache, VerifyIdentity, DropStale, At, Refreshing
    <3>3. CASE CursorEnds \/ VerifyEnds
      BY <3>1, <3>3 DEF CursorEnds, VerifyEnds, At, Refreshing
    <3>4. CASE RefreshEnds
      BY <3>4 DEF RefreshEnds, At, Refreshing, IdlePool
    <3> QED BY <1>8, <3>2, <3>3, <3>4
  <2>2. ListNext(queue)
    BY <1>3, <1>4, <2>1 DEF BeforeListing, Refreshing
  <2>3. queue' = queue \/ queue' = Append(queue, RefreshOp)
    BY <1>8 DEF ImportCache, VerifyIdentity, Verified, ScheduleRefresh, DropStale, CursorEnds,
                VerifyEnds, RefreshEnds
  <2>4. ListNext(queue')
    BY <1>1, <2>2, <2>3, OperationsPushed, PushedList
  <2>5. \/ inbox' = inbox
        \/ \E e \in Events : e.kind # "signed in" /\ inbox' = Append(inbox, e)
    BY <1>8, EventsSent DEF ImportCache, VerifyIdentity, DropStale, CursorEnds, VerifyEnds,
                            RefreshEnds, Send, ThreadKinds, Signals
  <2>6. \A p \in Principals : ~Has(inbox', {"signed in"}, p)
    <3>1. ASSUME NEW e \in Events, e.kind # "signed in", inbox' = Append(inbox, e)
          PROVE  \A p \in Principals : ~Has(inbox', {"signed in"}, p)
      BY <1>1, <1>3, <3>1, AppendedEvent
    <3> QED BY <1>3, <2>5, <3>1
  <2> QED BY <1>2, <2>1, <2>4, <2>6 DEF BeforeListing, Refreshing
<1>9. CASE GetIdentity \/ SignInInquires \/ SignOut \/ Renew
  <2>1. ~Waiting /\ pool.at = "start" /\ pool.op.kind # "list"
    BY <1>9 DEF GetIdentity, SignInInquires, SignOut, Renew, At
  <2> QED BY <1>3, <1>4, <2>1 DEF BeforeListing
<1> QED BY <1>5, <1>6, <1>7, <1>8, <1>9 DEF Thread

LEMMA NoSignInAtStart ==
    ASSUME ServiceStateOK, StartInv, SignInEnds
    PROVE  running
<1>1. /\ ~Waiting /\ pool.at \in {"start", "inquire"} /\ pool.op.kind = "sign in"
  BY DEF SignInEnds, At
<1>2. ~Has(inbox, {"listed"}, None)
  BY <1>1, NothingAwaited
<1> QED BY <1>1, <1>2 DEF StartInv, BeforeListing

LEMMA DispatchStart ==
    ASSUME ServiceStateOK, StartInv, Dispatch, ~running'
    PROVE  /\ ~running /\ exports' = exports
           /\ BeforeListing'
           /\ unchecked' \subseteq unchecked
           /\ \A p \in Principals : ~Has(inbox', {"signed in"}, p)
<1>1. PICK e : \/ OnAdded(e) \/ OnRemoved(e) \/ OnRefreshed(e) \/ OnExpired(e) \/ OnListed(e)
               \/ OnGot(e) \/ OnSignedOut(e) \/ OnSignedIn(e) \/ OnInquiry(e)
               \/ OnAccountAdded(e)
  BY DEF Dispatch
<1>2. Handled(e)
  BY <1>1 DEF OnAdded, OnRemoved, OnRefreshed, OnExpired, OnListed, OnGot, OnSignedOut,
              OnSignedIn, OnInquiry, OnAccountAdded
<1>3. /\ e = Head(inbox) /\ inbox # <<>> /\ inbox' = Tail(inbox)
      /\ inbox \in Seq(Events) /\ queue \in Seq(Operations)
      /\ e.kind # "listed" => e.id \in Principals
  BY <1>2, HandledTypes DEF ServiceStateOK, ManagerTypeOK
<1>4. ~OnListed(e) /\ ~running
  <2>1. OnListed(e) => running'
    BY DEF OnListed
  <2>2. CASE ~OnListed(e)
    <3>1. UNCHANGED running
      BY <1>1, <2>2 DEF OnAdded, OnRemoved, OnRefreshed, OnExpired, OnGot, OnSignedOut,
                        OnSignedIn, OnInquiry, OnAccountAdded
    <3> QED BY <2>2, <3>1
  <2> QED BY <2>1, <2>2
<1>5. /\ BeforeListing
      /\ \A p \in Principals : ~Has(inbox, {"signed in"}, p)
  BY <1>4 DEF StartInv
<1>6. e.kind # "listed"
  BY <1>1, <1>4 DEF OnAdded, OnRemoved, OnRefreshed, OnExpired, OnGot, OnSignedOut, OnSignedIn,
                    OnInquiry, OnAccountAdded
<1>7. /\ Has(inbox, {"listed"}, None) => Has(inbox', {"listed"}, None)
      /\ \A p \in Principals : ~Has(inbox', {"signed in"}, p)
      /\ e.kind # "signed in"
  BY <1>3, <1>5, <1>6, HandledEvent
<1>8. exports' = exports
  BY <1>1, <1>4, <1>7 DEF OnAdded, OnRemoved, OnRefreshed, OnExpired, OnGot, OnSignedOut,
     OnSignedIn, OnInquiry, OnAccountAdded
<1>9. unchecked' \subseteq unchecked
  BY <1>1 DEF OnAdded, OnRemoved, OnRefreshed, OnExpired, OnListed, OnGot, OnSignedOut,
              OnSignedIn, OnInquiry, OnAccountAdded, EnsureAccount
<1>10. BeforeListing'
  <2>1. pool' = pool /\ (queue' = queue \/ \E o \in Operations : queue' = Append(queue, o))
    BY LoopPushes
  <2>2. ListNext(queue) => ListNext(queue')
    BY <2>1, <1>3, PushedList
  <2> QED BY <2>1, <2>2, <1>5, <1>7 DEF BeforeListing
<1> QED BY <1>4, <1>7, <1>8, <1>9, <1>10

LEMMA StartStep ==
    ASSUME ServiceStateOK, StartInv, [Next]_vars
    PROVE  StartInv'
<1>1. inbox \in Seq(Events) /\ queue \in Seq(Operations)
  BY DEF ServiceStateOK, ManagerTypeOK
<1>2. CASE Thread
  BY <1>2, ThreadStart
<1>3. CASE SignInEnds
  BY <1>3, NoSignInAtStart DEF SignInEnds, StartInv
<1>4. CASE Dispatch
  BY <1>4, DispatchStart DEF StartInv
<1>5. CASE \/ Monitor \/ PromptOpened \/ PromptAnswered \/ User \/ UNCHANGED vars
           \/ \E p \in Principals : AccountAdded(p)
  <2>1. /\ UNCHANGED <<running, exports>> /\ unchecked' \subseteq unchecked
        /\ \/ inbox' = inbox
           \/ \E e \in Events : e.kind \in AccountKinds /\ inbox' = Append(inbox, e)
    <3>1. CASE \/ Monitor \/ PromptOpened \/ PromptAnswered \/ User \/ UNCHANGED vars
      BY <3>1 DEF Monitor, NotifyHandled, PromptOpened, PromptAnswered, PromptStep, User,
                  UserAdds, UserRemoves, UserDisables, UserEnables, RenewalDue, SignInCalled,
                  SignOutCalled, EnsureAccount, vars, managerVars, serviceVars
    <3>2. ASSUME NEW p \in Principals, AccountAdded(p)
          PROVE  /\ UNCHANGED <<running, exports>> /\ unchecked' = unchecked
                 /\ \E e \in Events : e.kind \in AccountKinds /\ inbox' = Append(inbox, e)
      BY <3>2, EventsSent DEF AccountAdded, Send, AccountKinds
    <3> QED BY <1>5, <3>1, <3>2
  <2>2. pool' = pool /\ (queue' = queue \/ \E o \in Operations : queue' = Append(queue, o))
    BY <1>5, LoopPushes
  <2>3. ListNext(queue) => ListNext(queue')
    BY <2>2, <1>1, PushedList
  <2>4. /\ Has(inbox, {"listed"}, None) => Has(inbox', {"listed"}, None)
        /\ \A p : Has(inbox', {"signed in"}, p) => Has(inbox, {"signed in"}, p)
    <3>1. ASSUME NEW e \in Events, e.kind \in AccountKinds, inbox' = Append(inbox, e)
          PROVE  /\ Has(inbox, {"listed"}, None) => Has(inbox', {"listed"}, None)
                 /\ \A p : Has(inbox', {"signed in"}, p) => Has(inbox, {"signed in"}, p)
      <4>1. e.kind # "signed in"
        BY <3>1 DEF AccountKinds
      <4>2. \A kinds, p : Has(inbox', kinds, p)
                            <=> Has(inbox, kinds, p) \/ (e.kind \in kinds /\ e.id = p)
        BY <1>1, <3>1, AppendedEvent
      <4>3. Has(inbox, {"listed"}, None) => Has(inbox', {"listed"}, None)
        BY <4>2
      <4>4. ASSUME NEW p, Has(inbox', {"signed in"}, p) PROVE Has(inbox, {"signed in"}, p)
        <5>1. ~(e.kind \in {"signed in"} /\ e.id = p)
          BY <4>1
        <5> QED BY <4>2, <4>4, <5>1, Zenon
      <4> QED BY <4>3, <4>4
    <3>2. CASE inbox' = inbox
      BY <3>2
    <3>3. CASE \E e \in Events : e.kind \in AccountKinds /\ inbox' = Append(inbox, e)
      BY <3>1, <3>3
    <3> QED BY <2>1, <3>2, <3>3
  <2> QED BY <2>1, <2>2, <2>3, <2>4 DEF StartInv, BeforeListing
<1>6. CASE Outside
  <2>1. /\ UNCHANGED <<queue, inbox, running, exports, unchecked>>
        /\ pool' = pool \/ (pool.at \in Refreshing /\ pool'.at \in Refreshing)
    <3>1. CASE CursorFails
      <4>1. pool.at = "enumerate" /\ pool'.at \in {"verify", "drop"}
        BY <3>1 DEF CursorFails, At, ServiceStateOK, PoolOK
      <4> QED BY <4>1, <1>6, <3>1 DEF Outside, CursorFails, serviceVars, Refreshing
    <3>2. CASE \E p \in Principals : CacheChanges(p) \/ TicketExpires(p)
      BY <1>6, <3>2 DEF Outside, CacheChanges, TicketExpires, serviceVars
    <3> QED BY <1>6, <3>1, <3>2 DEF Outside
  <2> QED BY <2>1 DEF StartInv, BeforeListing, Refreshing
<1> QED BY <1>2, <1>3, <1>4, <1>5, <1>6 DEF Next

LEMMA InitStart == Init => StartInv
<1> SUFFICES ASSUME Init PROVE StartInv
  OBVIOUS
<1>1. /\ queue = <<RefreshOp, Op("list", None, None)>> /\ pool = IdlePool /\ inbox = <<>>
      /\ exports = {} /\ unchecked = {}
  BY DEF Init, ManagerInit, ServiceInit
<1>2. DOMAIN queue = 1 .. 2 /\ queue[1].kind = "refresh" /\ queue[2].kind = "list"
  BY <1>1 DEF RefreshOp, Op
<1>3. 2 \in DOMAIN queue /\ \A j \in DOMAIN queue : j < 2 => j = 1
  BY <1>2
<1>4. ListNext(queue)
  BY <1>2, <1>3 DEF ListNext
<1>5. \A p : ~Has(inbox, {"signed in"}, p)
  BY <1>1 DEF Has
<1> QED BY <1>1, <1>4, <1>5 DEF StartInv, BeforeListing, IdlePool

-----------------------------------------------------------------------------
(* The identities on the bus. *)

Appearing == {"added", "signed in"}

\* With q still to be handled, the exports x will be the table t, but for those
\* of h.
ExportsOK(q, t, h, x, run) ==
    /\ \A p \in Principals : Has(q, {"removed"}, p) => p \notin t
    /\ Follows(q, t)
    /\ run => \A p \in t \ (x \cup h) : Has(q, Appearing, p)
    /\ run => \A p \in x \ t : Has(q, {"removed"}, p)

ExportsInv == ExportsOK(inbox, table, hidden, exports, running)

\* The event e tells of all that is new when the table t, of which h is hidden,
\* becomes u, of which k is.
Tells(e, t, h, u, k) ==
    /\ e.kind \in Appearing => e.id \in u
    /\ e.kind = "removed" => e.id \notin u
    /\ \A p \in t \ u : e.kind = "removed" /\ e.id = p
    /\ \A p \in u \ k : p \in t \ h \/ (e.kind \in Appearing /\ e.id = p)

LEMMA ToldExports ==
    ASSUME NEW q \in Seq(Events), NEW e \in Events, NEW t \in SUBSET Principals,
           NEW u \in SUBSET Principals, NEW x \in SUBSET Principals, NEW run \in BOOLEAN,
           NEW h, NEW k, ExportsOK(q, t, h, x, run), Tells(e, t, h, u, k),
           t = u \/ \A p : ~Has(q, {"removed"}, p)
    PROVE  ExportsOK(Append(q, e), u, k, x, run)
<1> DEFINE r == Append(q, e)
<1>1. \A kinds, p : Has(r, kinds, p) <=> Has(q, kinds, p) \/ (e.kind \in kinds /\ e.id = p)
  BY AppendedEvent
<1>2. Follows(r, u)
  <2>1. Follows(q, t)
    BY DEF ExportsOK
  <2>2. /\ \A p \in t \ u : e.kind = "removed" /\ e.id = p
        /\ e.kind \in {"added", "signed in"} => e.id \in u
    BY DEF Tells, Appearing
  <2> QED BY <2>1, <2>2, AppendedEvent
<1> HIDE DEF r
<1>3. ASSUME NEW p \in Principals, Has(r, {"removed"}, p) PROVE p \notin u
  BY <1>1, <1>3 DEF ExportsOK, Tells
<1>4. ASSUME run, NEW p \in u \ (x \cup k) PROVE Has(r, Appearing, p)
  BY <1>1, <1>4 DEF ExportsOK, Tells
<1>5. ASSUME run, NEW p \in x \ u PROVE Has(r, {"removed"}, p)
  BY <1>1, <1>5 DEF ExportsOK, Tells
<1> QED BY <1>2, <1>3, <1>4, <1>5 DEF ExportsOK, r

\* The events that put identities on the bus and take them off.
LEMMA HandledExports ==
    ASSUME NEW q \in Seq(Events), q # <<>>, NEW t \in SUBSET Principals,
           NEW x \in SUBSET Principals, NEW run \in BOOLEAN, NEW y \in SUBSET Principals,
           NEW h, ExportsOK(q, t, h, x, run),
           run /\ Head(q).kind \in Appearing => y = x \cup {Head(q).id},
           run /\ Head(q).kind = "removed" => y = x \ {Head(q).id},
           run /\ Head(q).kind \notin Appearing \cup {"removed"} => y = x
    PROVE  ExportsOK(Tail(q), t, h, y, run)
<1> DEFINE r == Tail(q)
           e == Head(q)
<1>1. /\ \A kinds, p : Has(q, kinds, p) <=> Has(r, kinds, p) \/ (e.kind \in kinds /\ e.id = p)
      /\ e \in Events
  BY HandledEvent
<1>2. /\ Follows(r, t)
      /\ e.kind \in Appearing => e.id \in t \/ Has(r, {"removed"}, e.id)
  BY HandledEvent DEF ExportsOK, Appearing
<1> HIDE DEF r, e
<1>3. ASSUME NEW p \in Principals, Has(r, {"removed"}, p) PROVE p \notin t
  BY <1>1, <1>3 DEF ExportsOK
<1>4. ASSUME run, NEW p \in t \ (y \cup h) PROVE Has(r, Appearing, p)
  <2>1. ~Has(q, {"removed"}, p)
    BY DEF ExportsOK
  <2>2. ~(e.kind = "removed" /\ e.id = p)
    BY <1>1, <2>1
  <2>3. p \notin x /\ ~(e.kind \in Appearing /\ e.id = p)
    BY <1>4, <2>2 DEF e
  <2>4. Has(q, Appearing, p)
    BY <1>4, <2>3 DEF ExportsOK
  <2> QED BY <1>1, <2>3, <2>4
<1>5. ASSUME run, NEW p \in y \ t PROVE Has(r, {"removed"}, p)
  <2>1. CASE p \in x
    <3>1. ~(e.kind = "removed" /\ e.id = p)
      BY <1>5 DEF e
    <3>2. Has(q, {"removed"}, p)
      BY <1>5, <2>1 DEF ExportsOK
    <3> QED BY <1>1, <3>1, <3>2
  <2>2. CASE p \notin x
    <3>1. e.kind \in Appearing /\ e.id = p
      BY <1>5, <2>2 DEF e
    <3> QED BY <1>2, <1>5, <3>1
  <2> QED BY <2>1, <2>2
<1> QED BY <1>2, <1>3, <1>4, <1>5 DEF ExportsOK, r

\* Events that have nothing to do with the table.
LEMMA SilentEvent ==
    ASSUME NEW e, e.kind \notin Appearing \cup {"removed"}, NEW t, NEW h
    PROVE  Tells(e, t, h, t, h)
  BY DEF Tells

\* The thread tells the main loop whatever it changes of the table.
ThreadTells ==
    \/ inbox' = inbox /\ table' = table /\ table \ hidden' \subseteq table \ hidden
    \/ \E e \in Events : inbox' = Append(inbox, e) /\ Tells(e, table, hidden, table', hidden')
    \/ \E e, f \in Events : /\ inbox' = Append(Append(inbox, e), f) /\ table' = table
                            /\ Tells(e, table, hidden, table, hidden)
                            /\ Tells(f, table, hidden, table, hidden')

LEMMA SentTells ==
    ASSUME NEW kind \in ThreadKinds \ {"listed"}, NEW p \in Principals,
           NEW c \in Calls \cup {None}, Send(kind, p, c),
           \/ kind \in Appearing /\ table' = table \cup {p}
           \/ kind = "removed" /\ table' = table \ {p}
           \/ kind \notin Appearing \cup {"removed"} /\ table' = table,
           (hidden \cap table') \ hidden' \subseteq (IF kind \in Appearing THEN {p} ELSE {})
    PROVE  ThreadTells
<1> DEFINE e == [kind |-> kind, id |-> p, call |-> c]
<1>1. e \in Events /\ e.kind = kind /\ e.id = p /\ inbox' = Append(inbox, e)
  BY EventsSent DEF Send
<1> HIDE DEF e
<1>2. Tells(e, table, hidden, table', hidden')
  BY <1>1 DEF Tells, Appearing
<1> QED BY <1>1, <1>2 DEF ThreadTells

LEMMA ThreadTellsAll ==
    ASSUME ServiceStateOK, Thread \/ SignInEnds
    PROVE  ThreadTells
<1>1. PoolOK
  BY DEF ServiceStateOK
<1>2. CASE Thread
  <2>h. /\ (hidden \cap table') \ hidden' = {}
        /\ table' = table => table \ hidden' \subseteq table \ hidden
    BY <1>2 DEF Thread
  <2>1. ASSUME NEW p \in Principals, ImportCache(p) PROVE ThreadTells
    <3>1. CASE p \in table
      BY <2>1, <2>h, <3>1 DEF ImportCache, ThreadTells
    <3>2. CASE p \notin table
      BY <2>1, <2>h, <3>2, SentTells DEF ImportCache, ThreadKinds, Signals, Appearing
    <3> QED BY <3>1, <3>2
  <2>2. ASSUME NEW p \in Principals, VerifyIdentity(p) PROVE ThreadTells
    <3>1. /\ table' = table
          /\ inbox' = inbox \/ Send("refreshed", p, None) \/ Send("expired", p, None)
      BY <2>2 DEF VerifyIdentity
    <3> QED BY <2>h, <3>1, SentTells DEF ThreadTells, ThreadKinds, Signals, Appearing
  <2>3. ASSUME NEW p \in Principals, DropStale(p) PROVE ThreadTells
    BY <2>3, <2>h, SentTells DEF DropStale, ThreadKinds, Signals, Appearing
  <2>4. CASE ListIdentities
    <3> DEFINE e == [kind |-> "listed", id |-> None, call |-> None]
    <3>1. e \in Events /\ e.kind = "listed" /\ inbox' = Append(inbox, e) /\ table' = table
      BY <2>4, EventsSent DEF ListIdentities, Send
    <3> HIDE DEF e
    <3>2. Tells(e, table, hidden, table', hidden')
      BY <2>h, <3>1 DEF Tells, Appearing
    <3> QED BY <3>1, <3>2 DEF ThreadTells
  <2>5. CASE GetIdentity \/ SignInInquires \/ SignOut
    <3>1. pool.op.id \in Principals /\ pool.op.call \in Calls \cup {None}
      BY <1>1, <2>5, AtPlaces DEF GetIdentity, SignInInquires, SignOut
    <3>2. table' = table /\ \E kind \in {"found", "missing", "inquiry", "signed out"} :
                               Send(kind, pool.op.id, pool.op.call)
      BY <2>5 DEF GetIdentity, SignInInquires, SignOut
    <3> QED BY <2>h, <3>1, <3>2, SentTells DEF ThreadKinds, Signals, Appearing
  <2>6. CASE \/ Take \/ RefreshSkipped \/ RefreshStarts \/ CursorEnds \/ VerifyEnds
             \/ RefreshEnds \/ Renew
    BY <2>6, <2>h DEF Take, RefreshSkipped, RefreshStarts, CursorEnds, VerifyEnds, RefreshEnds, Renew,
                ThreadTells
  <2> QED BY <1>2, <2>1, <2>2, <2>3, <2>4, <2>5, <2>6 DEF Thread
<1>3. CASE SignInEnds
  <2> DEFINE p == pool.op.id
  <2>1. p \in Principals /\ pool.op.call \in Calls \cup {None} /\ level \in [Principals -> Level]
    BY <1>1, <1>3, AtPlaces DEF SignInEnds, ServiceStateOK, ManagerTypeOK
  <2>2. /\ prompt = "cancelled" => hidden' = hidden \cup (table' \ table)
        /\ prompt # "cancelled" =>
              hidden' = IF level'[p] = "live" THEN hidden \ {p} ELSE hidden
    BY <1>3 DEF SignInEnds
  <2>3. CASE SignInSucceeds
    <3>1. (hidden \cap table') \ hidden' \subseteq {p}
      BY <2>2
    <3> QED BY <2>1, <2>3, <3>1, SentTells DEF SignInSucceeds, ThreadKinds, Signals, Appearing
  <2>4. CASE NewSignInRefused
    <3>1. p \notin table /\ table' = table
      BY <2>4 DEF NewSignInRefused
    <3>2. (hidden \cap table') \ hidden' = {}
      BY <2>2, <3>1
    <3> QED BY <2>1, <2>4, <3>1, <3>2, SentTells
            DEF NewSignInRefused, ThreadKinds, Signals, Appearing
  <2>5. CASE SignInRefused(prompt = "cancelled")
    <3>1. PICK r \in Events, x \in Events :
            /\ r.kind = (IF cache[p] = "live" /\ prompt # "cancelled"
                         THEN "signed in" ELSE "refused")
            /\ r.id = p
            /\ x.kind = "expired" /\ x.id = p
            /\ inbox' = IF p \in watched /\ level[p] = "live" /\ cache[p] = "dead"
                        THEN Append(Append(inbox, x), r) ELSE Append(inbox, r)
      BY <2>1, <2>5, RefusedEvents
    <3>2. /\ table' = IF cache[p] = "live" THEN table \cup {p} ELSE table
          /\ level'[p] = cache[p]
      BY <2>1, <2>5 DEF SignInRefused, Verified
    <3>3. Tells(x, table, hidden, table, hidden)
      BY <3>1, SilentEvent DEF Appearing
    <3>4. Tells(r, table, hidden, table', hidden')
      <4>1. CASE prompt = "cancelled"
        BY <4>1, <2>2, <3>1, <3>2 DEF Tells, Appearing
      <4>2. CASE prompt # "cancelled"
        BY <4>2, <2>2, <3>1, <3>2 DEF Tells, Appearing
      <4> QED BY <4>1, <4>2
    <3>5. CASE cache[p] = "dead"
      <4>1. table' = table
        BY <3>2, <3>5
      <4>2. inbox' = Append(Append(inbox, x), r) \/ inbox' = Append(inbox, r)
        BY <3>1
      <4> QED BY <3>1, <3>3, <3>4, <4>1, <4>2 DEF ThreadTells
    <3>6. CASE cache[p] # "dead"
      BY <3>1, <3>4, <3>6 DEF ThreadTells
    <3> QED BY <3>5, <3>6
  <2> QED BY <1>3, <2>3, <2>4, <2>5 DEF SignInEnds
<1> QED BY <1>2, <1>3

LEMMA ThreadExports ==
    ASSUME ServiceStateOK, ExportsInv, Thread \/ SignInEnds
    PROVE  ExportsInv'
<1>1. /\ inbox \in Seq(Events) /\ table \subseteq Principals /\ table' \subseteq Principals
      /\ exports \subseteq Principals /\ running \in BOOLEAN
  <2>1. ServiceStateOK'
    BY ThreadTypes, SignInTypes
  <2> QED BY <2>1 DEF ServiceStateOK, ManagerTypeOK, ServiceTypeOK
<1>2. /\ exports' = exports /\ running' = running
      /\ (inbox' = inbox /\ table' = table) \/ \A p : ~Has(inbox, {"removed"}, p)
  <2>1. exports' = exports /\ running' = running
    BY DEF Thread, SignInEnds
  <2>2. ~Waiting => \A p : ~Has(inbox, {"removed"}, p)
    BY NothingAwaited DEF Signals
  <2>3. CASE Thread
    <3>1. ASSUME NEW p \in Principals, ImportCache(p) \/ VerifyIdentity(p) \/ DropStale(p)
          PROVE  ~Waiting
      BY <3>1 DEF ImportCache, VerifyIdentity, DropStale, At
    <3>2. ListIdentities \/ GetIdentity \/ SignInInquires \/ SignOut => ~Waiting
      BY DEF ListIdentities, GetIdentity, SignInInquires, SignOut, At
    <3>3. \/ Take \/ RefreshSkipped \/ RefreshStarts \/ CursorEnds \/ VerifyEnds \/ RefreshEnds
          \/ Renew
          => UNCHANGED <<inbox, table>>
      BY DEF Take, RefreshSkipped, RefreshStarts, CursorEnds, VerifyEnds, RefreshEnds, Renew
    <3>4. ~Waiting \/ UNCHANGED <<inbox, table>>
      BY <2>3, <3>1, <3>2, <3>3 DEF Thread
    <3> QED BY <2>1, <2>2, <3>4
  <2>4. CASE SignInEnds
    <3>1. ~Waiting
      BY <2>4 DEF SignInEnds, At
    <3> QED BY <2>1, <2>2, <3>1
  <2> QED BY <2>3, <2>4
<1>3. ExportsOK(inbox, table, hidden, exports, running)
  BY DEF ExportsInv
<1>4. ThreadTells
  BY ThreadTellsAll
<1>5. CASE inbox' = inbox /\ table' = table /\ table \ hidden' \subseteq table \ hidden
  <2>1. ExportsOK(inbox, table, hidden', exports, running)
    BY <1>3, <1>5 DEF ExportsOK
  <2> QED BY <2>1, <1>2, <1>5 DEF ExportsInv
<1>6. ASSUME \A p : ~Has(inbox, {"removed"}, p), NEW e \in Events, inbox' = Append(inbox, e),
             Tells(e, table, hidden, table', hidden')
      PROVE  ExportsInv'
  <2>1. ExportsOK(Append(inbox, e), table', hidden', exports, running)
    BY <1>1, <1>3, <1>6, ToldExports
  <2> QED BY <2>1, <1>2, <1>6 DEF ExportsInv
<1>7. ASSUME NEW e \in Events, NEW f \in Events, inbox' = Append(Append(inbox, e), f),
             table' = table, Tells(e, table, hidden, table, hidden),
             Tells(f, table, hidden, table, hidden')
      PROVE  ExportsInv'
  <2>1. /\ Append(inbox, e) \in Seq(Events)
        /\ ExportsOK(Append(inbox, e), table, hidden, exports, running)
    <3>1. Append(inbox, e) \in Seq(Events)
      BY <1>1, AppendedEvent
    <3> QED BY <1>1, <1>3, <1>7, <3>1, ToldExports
  <2> DEFINE r == Append(inbox, e)
  <2>2. r \in Seq(Events) /\ ExportsOK(r, table, hidden, exports, running)
    BY <2>1
  <2>3. inbox' = Append(r, f)
    BY <1>7
  <2> HIDE DEF r
  <2>4. ExportsOK(inbox', table, hidden', exports, running)
    BY <1>1, <1>7, <2>2, <2>3, ToldExports
  <2> QED BY <2>4, <1>2, <1>7 DEF ExportsInv
<1> QED BY <1>2, <1>4, <1>5, <1>6, <1>7 DEF ThreadTells

LEMMA DispatchExports ==
    ASSUME ServiceStateOK, StartInv, ExportsInv, Dispatch
    PROVE  ExportsInv'
<1>1. PICK e : \/ OnAdded(e) \/ OnRemoved(e) \/ OnRefreshed(e) \/ OnExpired(e) \/ OnListed(e)
               \/ OnGot(e) \/ OnSignedOut(e) \/ OnSignedIn(e) \/ OnInquiry(e)
               \/ OnAccountAdded(e)
  BY DEF Dispatch
<1>2. Handled(e) /\ table' = table /\ hidden' = hidden
  BY <1>1 DEF OnAdded, OnRemoved, OnRefreshed, OnExpired, OnListed, OnGot, OnSignedOut,
              OnSignedIn, OnInquiry, OnAccountAdded
<1>3. /\ e = Head(inbox) /\ inbox # <<>> /\ inbox' = Tail(inbox)
      /\ inbox \in Seq(Events) /\ table \subseteq Principals /\ exports \subseteq Principals
      /\ running \in BOOLEAN
      /\ e.kind # "listed" => e.id \in Principals
      /\ exports' \subseteq Principals
  <2>1. ServiceStateOK'
    BY DispatchTypes
  <2> QED BY <2>1, <1>2, HandledTypes DEF ServiceStateOK, ManagerTypeOK, ServiceTypeOK
<1>4. ExportsOK(inbox, table, hidden, exports, running)
  BY DEF ExportsInv
<1>5. CASE OnListed(e)
  <2>1. ExportsOK(Tail(inbox), table, hidden, exports, FALSE)
    <3>1. ExportsOK(inbox, table, hidden, exports, FALSE)
      BY <1>4 DEF ExportsOK
    <3> QED BY <3>1, <1>3, HandledExports
  <2>2. running' = TRUE /\ exports' = exports \cup table
    BY <1>5 DEF OnListed
  <2>3. table \ exports' = {}
    BY <2>2
  <2>4. ASSUME NEW p \in exports' \ table PROVE running /\ p \in exports
    BY <2>2, <2>4 DEF StartInv
  <2>5. CASE running
    <3>1. ExportsOK(Tail(inbox), table, hidden, exports, TRUE)
      BY <2>5, <1>3, <1>4, <1>5, HandledExports DEF OnListed, Appearing
    <3> QED BY <3>1, <2>2, <2>3, <2>4, <1>2, <1>3 DEF ExportsInv, ExportsOK
  <2> QED BY <2>1, <2>2, <2>3, <2>4, <2>5, <1>2, <1>3 DEF ExportsInv, ExportsOK
<1>6. CASE ~OnListed(e)
  <2>1. running' = running
    BY <1>1, <1>6 DEF OnAdded, OnRemoved, OnRefreshed, OnExpired, OnGot, OnSignedOut,
                      OnSignedIn, OnInquiry, OnAccountAdded
  <2>2. /\ running /\ e.kind \in Appearing => exports' = exports \cup {e.id}
        /\ running /\ e.kind = "removed" => exports' = exports \ {e.id}
        /\ running /\ e.kind \notin Appearing \cup {"removed"} => exports' = exports
    <3>1. CASE OnAdded(e)
      BY <3>1 DEF OnAdded, Appearing
    <3>2. CASE OnRemoved(e)
      BY <3>2 DEF OnRemoved, Appearing
    <3>3. CASE OnSignedIn(e)
      BY <3>3 DEF OnSignedIn, Appearing
    <3>4. CASE OnRefreshed(e) \/ OnExpired(e) \/ OnInquiry(e) \/ OnSignedOut(e)
      BY <3>4 DEF OnRefreshed, OnExpired, OnInquiry, OnSignedOut, Appearing
    <3>5. CASE OnGot(e) \/ OnAccountAdded(e)
      BY <3>5 DEF OnGot, OnAccountAdded, Appearing
    <3> QED BY <1>1, <1>6, <3>1, <3>2, <3>3, <3>4, <3>5
  <2>3. ExportsOK(Tail(inbox), table, hidden, exports', running)
    BY <2>2, <1>3, <1>4, HandledExports
  <2> QED BY <2>1, <2>3, <1>2, <1>3 DEF ExportsInv
<1> QED BY <1>5, <1>6

\* The events that the main loop and the daemon leave as they are.
LEMMA OtherInbox ==
    ASSUME ServiceStateOK,
           \/ Outside \/ Monitor \/ PromptOpened \/ PromptAnswered \/ User \/ UNCHANGED vars
    PROVE  UNCHANGED <<inbox, table, level, running, exports, hidden>>
<1>1. CASE Outside
  BY <1>1 DEF Outside, CursorFails, CacheChanges, TicketExpires, serviceVars
<1>2. CASE Monitor \/ PromptOpened \/ PromptAnswered \/ UNCHANGED vars
  BY <1>2 DEF Monitor, NotifyHandled, PromptOpened, PromptAnswered, PromptStep, vars,
              managerVars, serviceVars
<1>3. CASE User
  BY <1>3 DEF User, UserAdds, UserRemoves, UserDisables, UserEnables, RenewalDue,
              SignInCalled, SignOutCalled, serviceVars
<1> QED BY <1>1, <1>2, <1>3

LEMMA ExportsStep ==
    ASSUME ServiceStateOK, StartInv, ExportsInv, [Next]_vars
    PROVE  ExportsInv'
<1>1. CASE Thread \/ SignInEnds
  BY <1>1, ThreadExports
<1>2. CASE Dispatch
  BY <1>2, DispatchExports
<1>3. CASE Outside \/ Monitor \/ PromptOpened \/ PromptAnswered \/ User \/ UNCHANGED vars
  BY <1>3, OtherInbox DEF ExportsInv
<1>4. ASSUME NEW p \in Principals, AccountAdded(p) PROVE ExportsInv'
  <2>1. PICK e \in Events : e.kind \in AccountKinds /\ inbox' = Append(inbox, e)
    BY <1>4, EventsSent DEF AccountAdded, Send, AccountKinds
  <2>2. Tells(e, table, hidden, table, hidden)
    BY <2>1, SilentEvent DEF AccountKinds, Appearing
  <2>3. UNCHANGED <<table, hidden, running, exports>>
    BY <1>4 DEF AccountAdded
  <2>4. ExportsOK(Append(inbox, e), table, hidden, exports, running)
    BY <2>2, ToldExports DEF ExportsInv, ServiceStateOK, ManagerTypeOK, ServiceTypeOK
  <2> QED BY <2>1, <2>3, <2>4 DEF ExportsInv
<1> QED BY <1>1, <1>2, <1>3, <1>4 DEF Next

LEMMA InitExports == Init => ExportsInv
<1> SUFFICES ASSUME Init PROVE ExportsInv
  OBVIOUS
<1>1. inbox = <<>> /\ table = {} /\ ~running
  BY DEF Init, ManagerInit, ServiceInit
<1>2. Follows(inbox, table) /\ \A p : ~Has(inbox, {"removed"}, p)
  BY <1>1 DEF Follows, Has
<1> QED BY <1>1, <1>2 DEF ExportsInv, ExportsOK

-----------------------------------------------------------------------------
(* At rest. *)

ServiceInv == ManagerInv /\ AccountsInv /\ StartInv /\ ExportsInv

LEMMA InitService == Init => ServiceInv
  BY InitManager, InitAccounts, InitStart, InitExports DEF ServiceInv

LEMMA ServiceStep == ServiceInv /\ [Next]_vars => ServiceInv'
  BY ManagerStep, AccountsStep, StartStep, ExportsStep DEF ServiceInv, ManagerInv

\* At rest nothing is due, and nothing is on its way.
LEMMA RestingService ==
    ASSUME ManagerInv, AtRest
    PROVE  /\ \A p \in Principals : Matches(p)
           /\ \A kinds, p : ~Has(inbox, kinds, p)
           /\ ~RefreshDue /\ pool.at = "idle"
<1>1. DOMAIN queue = {} /\ DOMAIN inbox = {}
  BY DEF AtRest
<1>2. ~RefreshDue /\ \A kinds, p : ~Has(inbox, kinds, p)
  BY <1>1 DEF AtRest, RefreshDue, RefreshIn, Has
<1>3. pool.at = "idle" /\ ~failed
  BY DEF AtRest, IdlePool
<1> QED BY <1>2, <1>3 DEF ManagerInv, SyncInv

\* However the caches changed while they were being enumerated, and whichever
\* refreshes were skipped, at rest the manager knows what the caches hold and
\* the bus shows the same identities, but for those that a sign-in found whose
\* prompt was cancelled.
THEOREM CachesAreFollowed == Spec => []ServiceFollowsCaches
<1>1. ServiceInv => ServiceFollowsCaches
  <2> SUFFICES ASSUME ServiceInv, AtRest
               PROVE  /\ table = {p \in Principals : cache[p] # "none"}
                      /\ level = cache
                      /\ exports \subseteq table /\ table \ exports \subseteq hidden
    BY DEF ServiceFollowsCaches
  <2>1. /\ \A p \in Principals : (p \in table <=> cache[p] # "none") /\ level[p] = cache[p]
        /\ \A kinds, p : ~Has(inbox, kinds, p)
    BY RestingService DEF ServiceInv, Matches
  <2>2. /\ table \subseteq Principals /\ exports \subseteq Principals
        /\ level \in [Principals -> Level] /\ cache \in [Principals -> Level]
    BY DEF ServiceInv, ManagerInv, ServiceStateOK, ManagerTypeOK, ServiceTypeOK
  <2>3. exports \subseteq table /\ table \ exports \subseteq hidden
    BY <2>1 DEF ServiceInv, ExportsInv, ExportsOK, AtRest
  <2>4. level = cache
    BY <2>1, <2>2
  <2> QED BY <2>1, <2>2, <2>3, <2>4
<1> QED BY <1>1, InitService, ServiceStep, PTL DEF Spec

-----------------------------------------------------------------------------
(* The two promises to look after an account. *)

\* What will make the service see that p is signed in.
AccountDue(p) ==
    \/ RefreshDue
    \/ pool.at = "enumerate"
    \/ pool.at = "verify" /\ p \in pool.todo
    \/ Has(inbox, {"added", "refreshed"}, p)
    \/ p \in adding

SignedInInv ==
    running /\ ~failed =>
        \A p \in table \ orphaned : level[p] = "live" /\ Accounts(p) = 0 => AccountDue(p)

\* The thread leaves what is due and what is on its way to the main loop.
LEMMA ThreadKeepsDue ==
    ASSUME ManagerInv, Thread \/ SignInEnds
    PROVE  /\ RefreshDue => RefreshDue' \/ pool'.at = "enumerate"
           /\ \A kinds, p : Has(inbox, kinds, p) => Has(inbox', kinds, p)
<1>1. /\ ServiceStateOK /\ PoolOK /\ Refreshes(queue, pending)
      /\ queue \in Seq(Operations) /\ pending \in Nat /\ inbox \in Seq(Events)
  BY DEF ManagerInv, ServiceStateOK, ManagerTypeOK
<1>2. ASSUME NEW kinds, NEW p, Has(inbox, kinds, p) PROVE Has(inbox', kinds, p)
  <2>1. Appends
    BY <1>1, ThreadAppends
  <2>2. ASSUME NEW q \in Seq(Events), NEW e \in Events, Has(q, kinds, p)
        PROVE  Append(q, e) \in Seq(Events) /\ Has(Append(q, e), kinds, p)
    BY <2>2, AppendedEvent
  <2>3. ASSUME NEW e \in Events, inbox' = Append(inbox, e) PROVE Has(inbox', kinds, p)
    BY <1>1, <1>2, <2>2, <2>3
  <2>4. ASSUME NEW e \in Events, NEW f \in Events, inbox' = Append(Append(inbox, e), f)
        PROVE  Has(inbox', kinds, p)
    <3>1. Append(inbox, e) \in Seq(Events) /\ Has(Append(inbox, e), kinds, p)
      BY <1>1, <1>2, <2>2
    <3> QED BY <2>2, <2>4, <3>1
  <2> QED BY <1>2, <2>1, <2>3, <2>4 DEF Appends
<1>3. ASSUME NEW p \in Principals, VerifyIdentity(p) PROVE DueKept
  <2>1. Verified(p, cache[p]) /\ notify' = notify
    BY <1>3 DEF VerifyIdentity
  <2> QED BY <1>1, <2>1, VerifiedDue
<1>4. ASSUME RefreshDue, UNCHANGED <<queue, pending>>, notify => notify' PROVE RefreshDue'
  BY <1>4 DEF RefreshDue
<1>5. ASSUME RefreshDue, Thread PROVE RefreshDue' \/ pool'.at = "enumerate"
  <2>1. CASE Take
    <3>1. queue # <<>> /\ Head(queue).kind # "refresh" /\ queue' = Tail(queue) /\ notify' = notify
      BY <2>1 DEF Take, Free
    <3> QED BY <1>1, <1>5, <3>1, TakenRefreshes DEF RefreshDue
  <2>2. CASE RefreshSkipped
    <3>1. queue # <<>> /\ pending > 1 /\ queue' = Tail(queue)
      BY <2>2 DEF RefreshSkipped, Free
    <3> QED BY <1>1, <3>1, TakenRefreshes DEF RefreshDue
  <2>3. CASE RefreshStarts
    BY <2>3 DEF RefreshStarts
  <2>4. ASSUME NEW p \in Principals, ImportCache(p) \/ VerifyIdentity(p) \/ DropStale(p)
        PROVE  RefreshDue'
    <3>1. CASE VerifyIdentity(p)
      BY <1>3, <1>5, <3>1 DEF DueKept
    <3>2. CASE ImportCache(p) \/ DropStale(p)
      BY <1>4, <1>5, <3>2 DEF ImportCache, DropStale
    <3> QED BY <2>4, <3>1, <3>2
  <2>5. CASE \/ CursorEnds \/ VerifyEnds \/ RefreshEnds \/ ListIdentities \/ GetIdentity
             \/ SignInInquires
    BY <1>4, <1>5, <2>5 DEF CursorEnds, VerifyEnds, RefreshEnds, ListIdentities, GetIdentity,
                            SignInInquires
  <2>6. CASE SignOut \/ Renew
    <3>1. UNCHANGED <<queue, pending>> /\ (notify => notify')
      BY <2>6 DEF SignOut, Renew
    <3> QED BY <1>4, <1>5, <3>1
  <2> QED BY <1>5, <2>1, <2>2, <2>3, <2>4, <2>5, <2>6 DEF Thread
<1>6. ASSUME RefreshDue, SignInEnds PROVE RefreshDue'
  <2>1. CASE SignInSucceeds
    BY <2>1 DEF SignInSucceeds, RefreshDue
  <2>2. CASE SignInRefused(prompt = "cancelled")
    <3>1. Verified(pool.op.id, cache[pool.op.id]) /\ notify' = notify
      BY <2>2 DEF SignInRefused
    <3> QED BY <1>1, <1>6, <3>1, VerifiedDue DEF DueKept
  <2>3. CASE NewSignInRefused
    BY <1>4, <1>6, <2>3 DEF NewSignInRefused
  <2> QED BY <1>6, <2>1, <2>2, <2>3 DEF SignInEnds
<1> QED BY <1>2, <1>5, <1>6

LEMMA ThreadSignedIn ==
    ASSUME ManagerInv, SignedInInv, Thread
    PROVE  SignedInInv'
<1>1. /\ ServiceStateOK /\ PoolOK /\ TableInv
      /\ level \in [Principals -> Level] /\ table \subseteq Principals
      /\ inbox \in Seq(Events)
      /\ pool \in [op : Operations \cup {None}, at : Places,
                   todo : SUBSET Principals, known : SUBSET Principals]
  BY DEF ManagerInv, ServiceStateOK, ManagerTypeOK, PoolOK
<1>2. UNCHANGED <<running, enabled, disabled, adding, orphaned>>
  BY DEF Thread
<1> SUFFICES ASSUME running, ~failed', NEW p \in table' \ orphaned, level'[p] = "live",
                    Accounts(p) = 0
             PROVE  AccountDue(p)'
  BY <1>2 DEF SignedInInv, Accounts
<1>3. /\ RefreshDue => RefreshDue' \/ pool'.at = "enumerate"
      /\ \A kinds : Has(inbox, kinds, p) => Has(inbox', kinds, p)
  BY ThreadKeepsDue
<1>4. ASSUME p \in table, level[p] = "live", ~failed,
             pool.at # "enumerate",
             pool.at = "verify" /\ p \in pool.todo =>
                pool'.at = "verify" /\ p \in pool'.todo
      PROVE  AccountDue(p)'
  <2>1. AccountDue(p)
    BY <1>4 DEF SignedInInv
  <2> QED BY <1>2, <1>3, <1>4, <2>1 DEF AccountDue
<1>5. CASE Take \/ RefreshSkipped
  <2>1. pool.at = "idle"
    BY <1>1, <1>5, FreeThread DEF Take, RefreshSkipped
  <2>2. UNCHANGED <<table, level, failed>>
    BY <1>5 DEF Take, RefreshSkipped
  <2> QED BY <1>4, <2>1, <2>2
<1>6. CASE RefreshStarts
  BY <1>6 DEF RefreshStarts, AccountDue
<1>7. ASSUME NEW q \in Principals, ImportCache(q) PROVE AccountDue(p)'
  BY <1>1, <1>7 DEF ImportCache, At, AccountDue
<1>8. ASSUME NEW q \in Principals, VerifyIdentity(q) PROVE AccountDue(p)'
  <2>1. /\ pool.at = "verify" /\ pool'.at = "verify" /\ pool'.todo = pool.todo \ {q}
        /\ level' = [level EXCEPT ![q] = cache[q]]
        /\ UNCHANGED <<table, failed>>
    BY <1>1, <1>8 DEF VerifyIdentity, Verified, At
  <2>2. CASE p = q
    <3> DEFINE e == [kind |-> "refreshed", id |-> p, call |-> None]
    <3>1. p \in Principals /\ cache[p] = "live"
      BY <1>1, <2>1, <2>2
    <3>2. e \in Events /\ e.kind = "refreshed" /\ e.id = p
      BY <3>1, EventsSent DEF ThreadKinds, Signals
    <3>3. inbox' = Append(inbox, e)
      BY <1>8, <2>2, <3>1 DEF VerifyIdentity, Send
    <3> HIDE DEF e
    <3>4. Has(inbox', {"added", "refreshed"}, p)
      BY <1>1, <3>2, <3>3, AppendedEvent
    <3> QED BY <3>4 DEF AccountDue
  <2>3. CASE p # q
    <3>1. level[p] = "live" /\ p \in table
      BY <1>1, <2>1, <2>3
    <3> QED BY <1>4, <2>1, <2>3, <3>1
  <2> QED BY <2>2, <2>3
<1>9. ASSUME NEW q \in Principals, DropStale(q) PROVE AccountDue(p)'
  <2>1. /\ pool.at = "drop" /\ pool' = pool /\ failed' = failed
        /\ table' = table \ {q} /\ level' = [level EXCEPT ![q] = "none"]
    BY <1>9 DEF DropStale, At
  <2>2. level[p] = "live" /\ p \in table
    BY <1>1, <2>1
  <2> QED BY <1>4, <2>1, <2>2
<1>10. CASE CursorEnds
  <2>1. pool'.at = "verify" /\ pool'.todo = table /\ table' = table
    BY <1>1, <1>10 DEF CursorEnds
  <2> QED BY <2>1 DEF AccountDue
<1>11. CASE VerifyEnds \/ RefreshEnds
  <2>1. /\ pool.at \in {"verify", "drop"}
        /\ pool.at = "verify" => pool.todo = {}
    BY <1>11 DEF VerifyEnds, RefreshEnds, At
  <2>2. UNCHANGED <<table, level, failed>>
    BY <1>11 DEF VerifyEnds, RefreshEnds
  <2> QED BY <1>4, <2>1, <2>2
<1>12. CASE ListIdentities \/ GetIdentity \/ SignInInquires \/ SignOut \/ Renew
  <2>1. pool.at = "start"
    BY <1>12 DEF ListIdentities, GetIdentity, SignInInquires, SignOut, Renew, At
  <2>2. UNCHANGED <<table, level, failed>>
    BY <1>12 DEF ListIdentities, GetIdentity, SignInInquires, SignOut, Renew
  <2> QED BY <1>4, <2>1, <2>2
<1> QED BY <1>5, <1>6, <1>7, <1>8, <1>9, <1>10, <1>11, <1>12 DEF Thread

LEMMA SignInSignedIn ==
    ASSUME ManagerInv, SignedInInv, SignInEnds
    PROVE  SignedInInv'
<1>1. /\ ServiceStateOK /\ PoolOK /\ TableInv /\ SyncInv
      /\ level \in [Principals -> Level] /\ table \subseteq Principals
  BY DEF ManagerInv, ServiceStateOK, ManagerTypeOK
<1>2. /\ UNCHANGED <<running, enabled, disabled, adding, orphaned, failed>>
      /\ pool.at \in {"start", "inquire"}
      /\ pool.op.id \in Principals
  <2>1. UNCHANGED <<running, enabled, disabled, adding, orphaned, failed>>
    BY DEF SignInEnds, SignInSucceeds, SignInRefused, NewSignInRefused
  <2>2. pool.at \in {"start", "inquire"} /\ pool.op.id \in Principals
    BY <1>1, AtPlaces DEF SignInEnds
  <2> QED BY <2>1, <2>2
<1> SUFFICES ASSUME running, ~failed, NEW p \in table' \ orphaned, level'[p] = "live",
                    Accounts(p) = 0
             PROVE  AccountDue(p)'
  BY <1>2 DEF SignedInInv, Accounts
<1>3. /\ RefreshDue => RefreshDue' \/ pool'.at = "enumerate"
      /\ \A kinds : Has(inbox, kinds, p) => Has(inbox', kinds, p)
  BY ThreadKeepsDue
<1>4. ASSUME p \in table, level[p] = "live" PROVE AccountDue(p)'
  <2>1. AccountDue(p)
    BY <1>4 DEF SignedInInv
  <2> QED BY <1>2, <1>3, <2>1 DEF AccountDue
<1>5. CASE SignInSucceeds
  BY <1>5 DEF SignInSucceeds, AccountDue, RefreshDue
<1>6. CASE SignInRefused(prompt = "cancelled")
  <2>1. /\ table' = IF cache[pool.op.id] = "live" THEN table \cup {pool.op.id} ELSE table
        /\ level' = [level EXCEPT ![pool.op.id] = cache[pool.op.id]]
    BY <1>6 DEF SignInRefused, Verified
  <2>2. CASE RefreshDue
    BY <1>3, <2>2 DEF AccountDue
  <2>3. CASE ~RefreshDue
    <3>1. \A q \in Principals : Matches(q)
      BY <1>1, <1>2, <2>3 DEF SyncInv
    <3>2. level' = level /\ table' = table
      BY <1>1, <1>2, <2>1, <3>1 DEF Matches
    <3> QED BY <1>4, <3>2
  <2> QED BY <2>2, <2>3
<1>7. CASE NewSignInRefused
  BY <1>4, <1>7 DEF NewSignInRefused
<1> QED BY <1>5, <1>6, <1>7 DEF SignInEnds

\* AddTemporary for identities without account leaves them being added.
LEMMA AddedAreAdding ==
    ASSUME AccountsInv, NEW S, AddTemporary(S), NEW p \in S \ orphaned, Accounts(p) = 0
    PROVE  p \in adding'
<1>1. adding' = adding \cup (S \ temporary)
  BY DEF AddTemporary
<1>2. CASE p \in temporary \ adding
  <2>1. Accounts(p) > 0
    BY <1>2 DEF AccountsInv
  <2> QED BY <2>1
<1> QED BY <1>1, <1>2

LEMMA DispatchSignedIn ==
    ASSUME ManagerInv, AccountsInv, SignedInInv, Dispatch
    PROVE  SignedInInv'
<1>1. ServiceStateOK /\ DueKept
  BY LoopIsQuiet DEF ManagerInv, LoopQuiet
<1>2. PICK e : \/ OnAdded(e) \/ OnRemoved(e) \/ OnRefreshed(e) \/ OnExpired(e) \/ OnListed(e)
               \/ OnGot(e) \/ OnSignedOut(e) \/ OnSignedIn(e) \/ OnInquiry(e)
               \/ OnAccountAdded(e)
  BY DEF Dispatch
<1>3. Handled(e) /\ UNCHANGED <<table, level, pool, failed, enabled, disabled, orphaned>>
  BY <1>2 DEF OnAdded, OnRemoved, OnRefreshed, OnExpired, OnListed, OnGot, OnSignedOut,
              OnSignedIn, OnInquiry, OnAccountAdded
<1>4. /\ e = Head(inbox) /\ inbox # <<>> /\ inbox' = Tail(inbox)
      /\ inbox \in Seq(Events) /\ table \subseteq Principals
      /\ enabled \in [Principals -> Nat] /\ disabled \in [Principals -> Nat]
  BY <1>1, <1>3, HandledTypes DEF ServiceStateOK, ManagerTypeOK, ServiceTypeOK
<1>5. adding \subseteq adding'
  BY <1>2 DEF OnAdded, OnRemoved, OnRefreshed, OnExpired, OnListed, OnGot, OnSignedOut,
              OnSignedIn, OnInquiry, OnAccountAdded, AddTemporary, NoTemporary
<1> SUFFICES ASSUME running', ~failed, NEW p \in table \ orphaned, level[p] = "live",
                    Accounts(p) = 0
             PROVE  AccountDue(p)'
  BY <1>3 DEF SignedInInv, Accounts
<1>6. CASE OnListed(e)
  <2>1. enabled[p] = 0
    BY <1>4 DEF Accounts
  <2>2. p \in {q \in table : enabled[q] = 0} \ orphaned
    BY <2>1
  <2>3. p \in adding'
    BY <1>6, <2>2, AddedAreAdding DEF OnListed
  <2> QED BY <2>3 DEF AccountDue
<1>7. CASE ~OnListed(e)
  <2>1. running
    BY <1>2, <1>7 DEF OnAdded, OnRemoved, OnRefreshed, OnExpired, OnGot, OnSignedOut,
                      OnSignedIn, OnInquiry, OnAccountAdded
  <2>2. AccountDue(p)
    BY <2>1 DEF SignedInInv
  <2>3. CASE Has(inbox, {"added", "refreshed"}, p)
    <3>1. Has(inbox', {"added", "refreshed"}, p) \/ (e.kind \in {"added", "refreshed"} /\ e.id = p)
      BY <1>4, <2>3, HandledEvent
    <3>2. CASE e.kind \in {"added", "refreshed"} /\ e.id = p
      <4>1. OnAdded(e) \/ OnRefreshed(e)
        BY <1>2, <3>2 DEF OnRemoved, OnExpired, OnListed, OnGot, OnSignedOut, OnSignedIn,
                          OnInquiry, OnAccountAdded
      <4>2. AddTemporary({p})
        BY <2>1, <3>2, <4>1 DEF OnAdded, OnRefreshed
      <4>3. p \in adding'
        BY <4>2, AddedAreAdding
      <4> QED BY <4>3 DEF AccountDue
    <3> QED BY <3>1, <3>2 DEF AccountDue
  <2>4. CASE ~Has(inbox, {"added", "refreshed"}, p)
    BY <1>1, <1>3, <1>5, <2>2, <2>4 DEF AccountDue, DueKept
  <2> QED BY <2>3, <2>4
<1> QED BY <1>6, <1>7

\* The daemon answers AddAccount.
LEMMA AccountAddedSignedIn ==
    ASSUME ManagerInv, SignedInInv, NEW q \in Principals, AccountAdded(q)
    PROVE  SignedInInv'
<1>1. ServiceStateOK /\ DueKept
  BY LoopIsQuiet DEF ManagerInv, LoopQuiet
<1>2. /\ inbox \in Seq(Events) /\ table \subseteq Principals
      /\ enabled \in [Principals -> Nat] /\ disabled \in [Principals -> Nat]
  BY <1>1 DEF ServiceStateOK, ManagerTypeOK, ServiceTypeOK
<1>3. PICK e \in Events :
        /\ inbox' = Append(inbox, e)
        /\ \/ enabled' = [enabled EXCEPT ![q] = @ + 1] /\ orphaned' = orphaned \ {q}
           \/ enabled' = enabled /\ orphaned' = orphaned \cup {q}
  BY EventsSent DEF AccountAdded, Send, AccountKinds
<1>4. /\ UNCHANGED <<running, failed, table, level, pool, disabled>>
      /\ adding' = adding \ {q}
  BY DEF AccountAdded
<1> SUFFICES ASSUME running, ~failed, NEW p \in table \ orphaned', level[p] = "live",
                    Accounts(p)' = 0
             PROVE  AccountDue(p)'
  BY <1>4 DEF SignedInInv
<1>5. p # q
  <2> SUFFICES ASSUME p = q PROVE FALSE
    OBVIOUS
  <2>1. enabled'[q] = enabled[q] + 1 /\ enabled[q] \in Nat /\ disabled'[q] \in Nat
    BY <1>2, <1>3, <1>4
  <2> QED BY <2>1 DEF Accounts
<1>6. p \notin orphaned /\ Accounts(p) = 0
  BY <1>2, <1>3, <1>4, <1>5 DEF Accounts
<1>7. AccountDue(p)
  BY <1>6 DEF SignedInInv
<1>8. Has(inbox, {"added", "refreshed"}, p) => Has(inbox', {"added", "refreshed"}, p)
  BY <1>2, <1>3, AppendedEvent
<1> QED BY <1>1, <1>4, <1>5, <1>7, <1>8 DEF AccountDue, DueKept

\* What the user does with accounts.
LEMMA UserSignedIn ==
    ASSUME ManagerInv, SignedInInv, User
    PROVE  SignedInInv'
<1>1. ServiceStateOK /\ DueKept
  BY LoopIsQuiet DEF ManagerInv, LoopQuiet
<1>2. /\ table \subseteq Principals
      /\ enabled \in [Principals -> Nat] /\ disabled \in [Principals -> Nat]
  BY <1>1 DEF ServiceStateOK, ManagerTypeOK, ServiceTypeOK
<1>3. PICK q \in Principals : \/ UserAdds(q) \/ UserRemoves(q) \/ UserDisables(q)
                              \/ UserEnables(q) \/ RenewalDue(q)
                              \/ \E c \in Calls : SignInCalled(c, q) \/ SignOutCalled(c, q)
  BY DEF User
<1>4. UNCHANGED <<running, failed, table, level, pool, inbox, adding>>
  BY <1>3 DEF UserAdds, UserRemoves, UserDisables, UserEnables, RenewalDue, SignInCalled,
              SignOutCalled, serviceVars
<1>5. ASSUME NEW p \in table \ orphaned', Accounts(p)' = 0
      PROVE  p \notin orphaned /\ Accounts(p) = 0
  <2>1. p \in Principals /\ enabled[p] \in Nat /\ disabled[p] \in Nat
    BY <1>2
  <2>2. CASE UserAdds(q)
    <3>1. /\ enabled' = [enabled EXCEPT ![q] = 1] /\ disabled' = disabled
          /\ orphaned' = orphaned \ {q}
      BY <2>2 DEF UserAdds
    <3>2. p # q
      BY <1>2, <1>5, <2>1, <3>1 DEF Accounts
    <3> QED BY <1>2, <1>5, <3>1, <3>2 DEF Accounts
  <2>3. CASE UserRemoves(q)
    <3>1. p # q /\ orphaned' = orphaned \cup {q}
      BY <1>5, <2>3 DEF UserRemoves
    <3>2. enabled'[p] = enabled[p] /\ disabled'[p] = disabled[p]
      BY <1>2, <2>1, <2>3, <3>1 DEF UserRemoves
    <3> QED BY <1>5, <3>1, <3>2 DEF Accounts
  <2>4. CASE UserDisables(q) \/ UserEnables(q)
    <3>1. Accounts(p)' = Accounts(p)
      BY <1>2, <2>1, <2>4 DEF UserDisables, UserEnables, Accounts
    <3> QED BY <1>5, <2>4, <3>1 DEF UserDisables, UserEnables
  <2>5. CASE RenewalDue(q) \/ \E c \in Calls : SignInCalled(c, q) \/ SignOutCalled(c, q)
    BY <1>5, <2>5 DEF RenewalDue, SignInCalled, SignOutCalled, serviceVars, Accounts
  <2> QED BY <1>3, <2>2, <2>3, <2>4, <2>5
<1> QED BY <1>1, <1>4, <1>5 DEF SignedInInv, AccountDue, DueKept

LEMMA OtherSignedIn ==
    ASSUME ManagerInv, SignedInInv,
           Outside \/ Monitor \/ PromptOpened \/ PromptAnswered \/ UNCHANGED vars
    PROVE  SignedInInv'
<1>1. ServiceStateOK
  BY DEF ManagerInv
<1>2. UNCHANGED <<enabled, disabled, adding, orphaned>>
  BY DEF Outside, Monitor, PromptOpened, PromptAnswered, PromptStep, vars, serviceVars
<1>3. UNCHANGED <<inbox, table, level, running>>
  BY <1>1, OtherInbox
<1>4. (failed' = failed /\ pool' = pool /\ (RefreshDue => RefreshDue')) \/ failed'
  <2>1. CASE Outside
    BY <2>1 DEF Outside, CursorFails, CacheChanges, TicketExpires, RefreshDue
  <2>2. CASE Monitor \/ PromptOpened \/ PromptAnswered \/ UNCHANGED vars
    BY <1>1, <2>2, LoopIsQuiet DEF LoopQuiet, DueKept
  <2> QED BY <2>1, <2>2
<1> QED BY <1>2, <1>3, <1>4 DEF SignedInInv, AccountDue, Accounts

LEMMA SignedInStep ==
    ASSUME ManagerInv, AccountsInv, SignedInInv, [Next]_vars
    PROVE  SignedInInv'
  BY ThreadSignedIn, SignInSignedIn, DispatchSignedIn, AccountAddedSignedIn, UserSignedIn,
     OtherSignedIn DEF Next

\* At rest whoever is signed in has an account, unless the daemon refused it
\* or the user removed it: no signal is lost between a refresh, the answers of
\* the daemon and the account that is being added.
THEOREM SignedInIsServed == Spec => []SignedInHasAccount
<1>1. Init => ServiceInv /\ SignedInInv
  BY InitService DEF Init, ServiceInit, SignedInInv
<1>2. (ServiceInv /\ SignedInInv) /\ [Next]_vars => (ServiceInv /\ SignedInInv)'
  BY ServiceStep, SignedInStep DEF ServiceInv
<1>3. ServiceInv /\ SignedInInv => SignedInHasAccount
  <2> SUFFICES ASSUME ServiceInv, SignedInInv, AtRest, NEW p \in table \ orphaned,
                      level[p] = "live"
               PROVE  Accounts(p) > 0
    BY DEF SignedInHasAccount
  <2>1. ~RefreshDue /\ pool.at = "idle" /\ ~Has(inbox, {"added", "refreshed"}, p)
    BY RestingService DEF ServiceInv
  <2>2. Accounts(p) # 0
    BY <2>1 DEF AtRest, SignedInInv, AccountDue
  <2>3. Accounts(p) \in Nat
    BY DEF ServiceInv, ManagerInv, ServiceStateOK, ManagerTypeOK, ServiceTypeOK, Accounts
  <2> QED BY <2>2, <2>3
<1> QED BY <1>1, <1>2, <1>3, PTL DEF Spec

\* The events after which the service has the account of p checked.
CheckKinds == {"account added", "removed", "refreshed", "expired"}

\* The refresh that the thread is at has not come to p yet, or will drop it.
Unsettled(p) ==
    \/ pool.at = "enumerate"
    \/ pool.at = "verify" /\ (p \in pool.todo \/ p \notin pool.known)
    \/ pool.at = "drop" /\ p \notin pool.known

\* What will make the service have the account of p checked.
CheckDue(p) ==
    \/ Has(inbox, CheckKinds, p)
    \/ p \in table /\ level[p] # "dead" /\ (failed \/ RefreshDue \/ Unsettled(p))

CheckedInv == running => \A p \in unchecked : enabled[p] > 0 => CheckDue(p)

\* A change of its level makes an identity one to check.
MarkedLevels == \A p \in Principals : (level[p] = "live") # (level'[p] = "live") => CheckDue(p)'

LEMMA ThreadChecked ==
    ASSUME CheckedInv, Marked, UNCHANGED <<running, enabled>>, MarkedLevels,
           \A p \in Principals : running /\ CheckDue(p) => CheckDue(p)',
           unchecked \subseteq Principals
    PROVE  CheckedInv'
<1> SUFFICES ASSUME running, NEW p \in unchecked', enabled[p] > 0 PROVE CheckDue(p)'
  BY DEF CheckedInv
<1>1. p \in unchecked \/ (p \in Principals /\ (level[p] = "live") # (level'[p] = "live"))
  BY DEF Marked
<1> QED BY <1>1 DEF CheckedInv, MarkedLevels

\* An event about p that has its account checked.
LEMMA SentCheck ==
    ASSUME ServiceStateOK, NEW p \in Principals,
           NEW kind \in {"removed", "refreshed", "expired"}, Send(kind, p, None)
    PROVE  CheckDue(p)'
<1> DEFINE e == [kind |-> kind, id |-> p, call |-> None]
<1>1. e \in Events /\ e.kind \in CheckKinds /\ e.id = p
  BY EventsSent DEF ThreadKinds, Signals, CheckKinds
<1>2. inbox' = Append(inbox, e)
  BY DEF Send
<1> HIDE DEF e
<1>3. Has(inbox', CheckKinds, p)
  BY <1>1, <1>2, AppendedEvent DEF ServiceStateOK, ManagerTypeOK
<1> QED BY <1>3 DEF CheckDue

\* An identity whose ticket has expired but is not known to have is watched.
LEMMA DeadIsWatched ==
    ASSUME TableInv, NEW p \in Principals, cache[p] = "dead", p \in table, level[p] # "dead"
    PROVE  level[p] = "live" /\ p \in watched
  BY DEF TableInv

\* The thread verifies p.
LEMMA VerifyChecks ==
    ASSUME ManagerInv, NEW p \in Principals, VerifyIdentity(p), level[p] # "dead" \/ level'[p] = "live"
    PROVE  CheckDue(p)'
<1>1. /\ ServiceStateOK /\ PoolOK /\ TableInv /\ SyncInv
      /\ cache \in [Principals -> Level] /\ level \in [Principals -> Level]
      /\ pool \in [op : Operations \cup {None}, at : Places,
                   todo : SUBSET Principals, known : SUBSET Principals]
  BY DEF ManagerInv, ServiceStateOK, ManagerTypeOK, PoolOK
<1>2. /\ pool.at = "verify" /\ p \in pool.todo /\ p \in table
      /\ pool'.at = "verify" /\ pool'.known = pool.known
      /\ level' = [level EXCEPT ![p] = cache[p]]
      /\ UNCHANGED <<table, failed, notify>>
      /\ Verified(p, cache[p])
  BY <1>1 DEF VerifyIdentity, Verified, At, TableInv
<1>3. DueKept
  BY <1>1, <1>2, VerifiedDue
<1>4. CASE cache[p] = "live"
  <2>1. Send("refreshed", p, None)
    BY <1>4 DEF VerifyIdentity
  <2> QED BY <1>1, <2>1, SentCheck
<1>5. CASE cache[p] = "dead"
  <2>1. level[p] = "live" /\ p \in watched
    BY <1>1, <1>2, <1>5, DeadIsWatched
  <2>2. Send("expired", p, None)
    BY <1>5, <2>1 DEF VerifyIdentity
  <2> QED BY <1>1, <2>2, SentCheck
<1>6. CASE cache[p] = "none"
  <2>1. failed \/ RefreshDue \/ p \notin pool.known
    BY <1>1, <1>2, <1>6 DEF SyncInv
  <2>2. level'[p] = "none"
    BY <1>1, <1>2, <1>6
  <2> QED BY <1>2, <1>3, <2>1, <2>2 DEF CheckDue, Unsettled, DueKept
<1> QED BY <1>1, <1>4, <1>5, <1>6 DEF Level

LEMMA ThreadKeepsChecks ==
    ASSUME ManagerInv, Thread
    PROVE  MarkedLevels /\ \A p \in Principals : CheckDue(p) => CheckDue(p)'
<1>1. /\ ServiceStateOK /\ PoolOK /\ TableInv
      /\ level \in [Principals -> Level] /\ table \subseteq Principals
      /\ pool \in [op : Operations \cup {None}, at : Places,
                   todo : SUBSET Principals, known : SUBSET Principals]
  BY DEF ManagerInv, ServiceStateOK, ManagerTypeOK, PoolOK
<1>2. /\ RefreshDue => RefreshDue' \/ pool'.at = "enumerate"
      /\ \A kinds, p : Has(inbox, kinds, p) => Has(inbox', kinds, p)
  BY ThreadKeepsDue
<1>3. ASSUME NEW p \in Principals, CheckDue(p), p \in table => p \in table' /\ level'[p] = level[p],
             failed' = failed, Unsettled(p) => Unsettled(p)' \/ p \notin table
      PROVE  CheckDue(p)'
  BY <1>2, <1>3 DEF CheckDue, Unsettled
<1>4. CASE Take \/ RefreshSkipped
  <2>1. pool.at = "idle" /\ UNCHANGED <<table, level, failed>>
    BY <1>1, <1>4, FreeThread DEF Take, RefreshSkipped
  <2> QED BY <1>3, <2>1 DEF MarkedLevels, Unsettled
<1>5. CASE RefreshStarts
  <2>1. pool'.at = "enumerate" /\ UNCHANGED <<table, level>>
    BY <1>5 DEF RefreshStarts
  <2> QED BY <1>2, <2>1 DEF MarkedLevels, CheckDue, Unsettled
<1>6. ASSUME NEW q \in Principals, ImportCache(q)
      PROVE  MarkedLevels /\ \A p \in Principals : CheckDue(p) => CheckDue(p)'
  <2>1. /\ pool.at = "enumerate" /\ pool'.at = "enumerate" /\ failed' = failed
        /\ table' = table \cup {q}
        /\ \A p \in Principals : level'[p] # level[p] => p = q /\ q \notin table
    BY <1>1, <1>6 DEF ImportCache, At
  <2>2. ASSUME NEW p \in Principals, CheckDue(p) PROVE CheckDue(p)'
    BY <1>3, <2>1, <2>2 DEF Unsettled
  <2>3. ASSUME NEW p \in Principals, (level[p] = "live") # (level'[p] = "live") PROVE CheckDue(p)'
    <3>1. p = q /\ q \notin table
      BY <2>1, <2>3
    <3>2. level[p] = "none"
      BY <1>1, <3>1 DEF TableInv
    <3>3. level'[p] = "live" /\ p \in table'
      BY <2>1, <2>3, <3>1, <3>2
    <3> QED BY <2>1, <3>3 DEF CheckDue, Unsettled
  <2> QED BY <2>2, <2>3 DEF MarkedLevels
<1>7. ASSUME NEW q \in Principals, VerifyIdentity(q)
      PROVE  MarkedLevels /\ \A p \in Principals : CheckDue(p) => CheckDue(p)'
  <2>1. /\ pool.at = "verify" /\ pool'.at = "verify" /\ pool'.todo = pool.todo \ {q}
        /\ pool'.known = pool.known
        /\ level' = [level EXCEPT ![q] = cache[q]]
        /\ UNCHANGED <<table, failed>>
    BY <1>1, <1>7 DEF VerifyIdentity, Verified, At
  <2>2. ASSUME NEW p \in Principals, CheckDue(p) PROVE CheckDue(p)'
    <3>1. CASE p # q
      BY <1>1, <1>3, <2>1, <2>2, <3>1 DEF Unsettled
    <3>2. CASE Has(inbox, CheckKinds, p)
      BY <1>2, <3>2 DEF CheckDue
    <3>3. CASE p = q /\ ~Has(inbox, CheckKinds, p)
      <4>1. level[q] # "dead"
        BY <2>2, <3>3 DEF CheckDue
      <4> QED BY <1>7, <3>3, <4>1, VerifyChecks
    <3> QED BY <3>1, <3>2, <3>3
  <2>3. ASSUME NEW p \in Principals, (level[p] = "live") # (level'[p] = "live") PROVE CheckDue(p)'
    <3>1. p = q
      BY <1>1, <2>1, <2>3
    <3>2. level[q] # "dead" \/ level'[q] = "live"
      BY <2>3, <3>1
    <3> QED BY <1>7, <3>1, <3>2, VerifyChecks
  <2> QED BY <2>2, <2>3 DEF MarkedLevels
<1>8. ASSUME NEW q \in Principals, DropStale(q)
      PROVE  MarkedLevels /\ \A p \in Principals : CheckDue(p) => CheckDue(p)'
  <2>1. /\ pool' = pool /\ failed' = failed
        /\ table' = table \ {q} /\ level' = [level EXCEPT ![q] = "none"]
        /\ Send("removed", q, None)
    BY <1>8 DEF DropStale
  <2>2. CheckDue(q)'
    BY <1>1, <2>1, SentCheck
  <2>3. \A p \in Principals : p # q => level'[p] = level[p] /\ (p \in table => p \in table')
    BY <1>1, <2>1
  <2>4. ASSUME NEW p \in Principals, p # q, CheckDue(p) PROVE CheckDue(p)'
    BY <1>3, <2>1, <2>3, <2>4 DEF Unsettled
  <2>5. ASSUME NEW p \in Principals, CheckDue(p) PROVE CheckDue(p)'
    BY <2>2, <2>4, <2>5
  <2>6. MarkedLevels
    BY <2>2, <2>3 DEF MarkedLevels
  <2> QED BY <2>5, <2>6
<1>9. CASE CursorEnds
  <2>1. /\ pool'.at = "verify" /\ pool'.todo = table /\ pool.at = "enumerate"
        /\ UNCHANGED <<table, level, failed>>
    BY <1>1, <1>9 DEF CursorEnds, At
  <2> QED BY <1>3, <2>1 DEF MarkedLevels, Unsettled
<1>10. CASE VerifyEnds
  <2>1. /\ pool.at = "verify" /\ pool.todo = {} /\ pool'.at = "drop" /\ pool'.known = pool.known
        /\ UNCHANGED <<table, level, failed>>
    BY <1>1, <1>10 DEF VerifyEnds, At
  <2> QED BY <1>3, <2>1 DEF MarkedLevels, Unsettled
<1>11. CASE RefreshEnds
  <2>1. /\ pool.at = "drop" /\ table \subseteq pool.known
        /\ UNCHANGED <<table, level, failed>>
    BY <1>11 DEF RefreshEnds, At
  <2> QED BY <1>3, <2>1 DEF MarkedLevels, Unsettled
<1>12. CASE ListIdentities \/ GetIdentity \/ SignInInquires \/ SignOut \/ Renew
  <2>1. pool.at = "start" /\ UNCHANGED <<table, level, failed>>
    BY <1>12 DEF ListIdentities, GetIdentity, SignInInquires, SignOut, Renew, At
  <2> QED BY <1>3, <2>1 DEF MarkedLevels, Unsettled
<1> QED BY <1>4, <1>5, <1>6, <1>7, <1>8, <1>9, <1>10, <1>11, <1>12 DEF Thread

LEMMA SignInKeepsChecks ==
    ASSUME ManagerInv, SignInEnds
    PROVE  MarkedLevels /\ \A p \in Principals : CheckDue(p) => CheckDue(p)'
<1>1. /\ ServiceStateOK /\ PoolOK /\ TableInv /\ SyncInv
      /\ level \in [Principals -> Level] /\ cache \in [Principals -> Level]
      /\ table \subseteq Principals /\ inbox \in Seq(Events)
  BY DEF ManagerInv, ServiceStateOK, ManagerTypeOK
<1>2. pool.at \in {"start", "inquire"} /\ pool.op.id \in Principals
      /\ pool.op.call \in Calls \cup {None}
  BY <1>1, AtPlaces DEF SignInEnds
<1>3. failed' = failed /\ pool' = IdlePool
  BY DEF SignInEnds, SignInSucceeds, SignInRefused, NewSignInRefused
<1>4. /\ RefreshDue => RefreshDue'
      /\ \A kinds, p : Has(inbox, kinds, p) => Has(inbox', kinds, p)
  BY <1>3, ThreadKeepsDue DEF IdlePool
<1>5. ASSUME NEW p \in Principals, CheckDue(p), p \in table => p \in table' /\ level'[p] = level[p]
      PROVE  CheckDue(p)'
  <2>1. ~Unsettled(p)
    BY <1>2 DEF Unsettled
  <2> QED BY <1>3, <1>4, <1>5, <2>1 DEF CheckDue
<1>q. PICK q \in Principals : q = pool.op.id
  BY <1>2
<1>6. CASE SignInSucceeds
  <2>1. /\ table' = table \cup {q} /\ level' = [level EXCEPT ![q] = "live"] /\ notify'
    BY <1>6, <1>q DEF SignInSucceeds, Verified
  <2>2. CheckDue(q)'
    <3>1. q \in table' /\ level'[q] # "dead"
      BY <1>1, <1>q, <2>1
    <3>2. RefreshDue'
      BY <2>1 DEF RefreshDue
    <3> QED BY <3>1, <3>2 DEF CheckDue
  <2>3. \A p \in Principals : p # q => level'[p] = level[p]
    BY <1>1, <2>1
  <2>4. ASSUME NEW p \in Principals, CheckDue(p) PROVE CheckDue(p)'
    <3>1. CASE p = q
      BY <2>2, <3>1
    <3>2. CASE p # q
      <4>1. p \in table => p \in table' /\ level'[p] = level[p]
        BY <2>1, <2>3, <3>2
      <4> QED BY <1>5, <2>4, <4>1
    <3> QED BY <3>1, <3>2
  <2> QED BY <2>2, <2>3, <2>4 DEF MarkedLevels
<1>7. CASE SignInRefused(prompt = "cancelled")
  <2>1. /\ table' = IF cache[q] = "live" THEN table \cup {q} ELSE table
        /\ level' = [level EXCEPT ![q] = cache[q]]
    BY <1>7, <1>q DEF SignInRefused, Verified
  <2>2. \A p \in Principals : p # q => level'[p] = level[p]
    BY <1>1, <2>1
  <2>3. CASE ~RefreshDue /\ ~failed
    <3>1. \A p \in Principals : Matches(p)
      BY <1>1, <1>2, <2>3 DEF SyncInv
    <3>2. level' = level /\ table' = table
      BY <1>1, <1>2, <2>1, <3>1 DEF Matches
    <3> QED BY <1>5, <3>2 DEF MarkedLevels
  <2>4. CASE RefreshDue \/ failed
    <3>1. ASSUME level[q] # "dead" \/ level'[q] = "live", q \in table \/ cache[q] = "live"
          PROVE  CheckDue(q)'
      <4>1. CASE cache[q] = "dead"
        <5>1. q \in table /\ level[q] # "dead"
          BY <1>1, <1>2, <2>1, <3>1, <4>1
        <5>2. level[q] = "live" /\ q \in watched
          BY <1>1, <1>2, <4>1, <5>1, DeadIsWatched
        <5>3. PICK r \in Events, x \in Events :
                /\ x.kind = "expired" /\ x.id = q
                /\ inbox' = Append(Append(inbox, x), r)
          BY <1>1, <1>2, <1>7, <1>q, <4>1, <5>2, RefusedEvents
        <5> DEFINE i == Append(inbox, x)
        <5>4. i \in Seq(Events)
          BY <1>1, AppendedEvent
        <5>5. x.kind \in CheckKinds
          BY <5>3 DEF CheckKinds
        <5>6. Has(i, CheckKinds, q)
          BY <1>1, <5>3, <5>5, AppendedEvent, Zenon
        <5>7. inbox' = Append(i, r)
          BY <5>3
        <5> HIDE DEF i
        <5>8. Has(inbox', CheckKinds, q)
          BY <5>4, <5>6, <5>7, AppendedEvent, Zenon
        <5> QED BY <5>8, Zenon DEF CheckDue
      <4>2. CASE cache[q] # "dead"
        <5>1. q \in table' /\ level'[q] # "dead"
          BY <1>1, <1>2, <2>1, <3>1, <4>2
        <5>2. RefreshDue' \/ failed'
          BY <1>3, <1>4, <2>4
        <5> QED BY <5>1, <5>2, Zenon DEF CheckDue
      <4> QED BY <4>1, <4>2
    <3>2. ASSUME NEW p \in Principals, CheckDue(p) PROVE CheckDue(p)'
      <4>1. CASE p # q
        BY <1>5, <2>1, <2>2, <3>2, <4>1
      <4>2. CASE Has(inbox, CheckKinds, p)
        BY <1>4, <4>2 DEF CheckDue
      <4>3. CASE p = q /\ ~Has(inbox, CheckKinds, p)
        <5>1. q \in table /\ level[q] # "dead"
          BY <3>2, <4>3, Zenon DEF CheckDue
        <5>2. CheckDue(q)'
          BY <3>1, <5>1
        <5> QED BY <4>3, <5>2
      <4> QED BY <4>1, <4>2, <4>3
    <3>3. ASSUME NEW p \in Principals, (level[p] = "live") # (level'[p] = "live")
          PROVE  CheckDue(p)'
      <4>1. p = q
        BY <2>2, <3>3
      <4>2. level[q] # "dead" \/ level'[q] = "live"
        BY <3>3, <4>1
      <4>3. q \in table \/ cache[q] = "live"
        <5>1. level[q] = "live" \/ cache[q] = "live"
          BY <1>1, <1>2, <2>1, <3>3, <4>1
        <5> QED BY <1>1, <1>2, <5>1 DEF TableInv
      <4>4. CheckDue(q)'
        BY <3>1, <4>2, <4>3
      <4> QED BY <4>1, <4>4
    <3> QED BY <3>2, <3>3 DEF MarkedLevels
  <2> QED BY <2>3, <2>4
<1>8. CASE NewSignInRefused
  <2>1. UNCHANGED <<table, level>>
    BY <1>8 DEF NewSignInRefused
  <2> QED BY <1>5, <2>1 DEF MarkedLevels
<1> QED BY <1>6, <1>7, <1>8 DEF SignInEnds

\* The handlers have the accounts checked.
LEMMA DispatchChecked ==
    ASSUME ManagerInv, StartInv, CheckedInv, Dispatch
    PROVE  CheckedInv'
<1>1. ServiceStateOK /\ DueKept
  BY LoopIsQuiet DEF ManagerInv, LoopQuiet
<1>2. PICK e : \/ OnAdded(e) \/ OnRemoved(e) \/ OnRefreshed(e) \/ OnExpired(e) \/ OnListed(e)
               \/ OnGot(e) \/ OnSignedOut(e) \/ OnSignedIn(e) \/ OnInquiry(e)
               \/ OnAccountAdded(e)
  BY DEF Dispatch
<1>3. Handled(e) /\ UNCHANGED <<table, level, pool, failed, enabled, disabled>>
  BY <1>2 DEF OnAdded, OnRemoved, OnRefreshed, OnExpired, OnListed, OnGot, OnSignedOut,
              OnSignedIn, OnInquiry, OnAccountAdded
<1>4. /\ e = Head(inbox) /\ inbox # <<>> /\ inbox' = Tail(inbox)
      /\ inbox \in Seq(Events) /\ unchecked \subseteq Principals
      /\ enabled \in [Principals -> Nat] /\ disabled \in [Principals -> Nat]
      /\ e.kind # "listed" => e.id \in Principals
  BY <1>1, <1>3, HandledTypes DEF ServiceStateOK, ManagerTypeOK, ServiceTypeOK
<1>5. unchecked' \subseteq unchecked /\ (running => running')
  <2>1. CASE OnListed(e)
    BY <2>1 DEF OnListed
  <2>2. CASE OnAdded(e) \/ OnGot(e) \/ OnSignedIn(e) \/ OnInquiry(e)
    <3>1. UNCHANGED <<running, unchecked>>
      BY <2>2 DEF OnAdded, OnGot, OnSignedIn, OnInquiry
    <3> QED BY <3>1
  <2>3. CASE OnRemoved(e) \/ OnRefreshed(e) \/ OnExpired(e) \/ OnSignedOut(e) \/ OnAccountAdded(e)
    <3>1. UNCHANGED running
      BY <2>3 DEF OnRemoved, OnRefreshed, OnExpired, OnSignedOut, OnAccountAdded
    <3>2. unchecked' = unchecked \ {e.id} \/ UNCHANGED unchecked
      BY <2>3 DEF OnRemoved, OnRefreshed, OnExpired, OnSignedOut, OnAccountAdded, EnsureAccount
    <3> QED BY <3>1, <3>2
  <2> QED BY <1>2, <2>1, <2>2, <2>3
<1> SUFFICES ASSUME running', NEW p \in unchecked', enabled[p] > 0 PROVE CheckDue(p)'
  BY <1>3 DEF CheckedInv
<1>6. running
  BY <1>5 DEF StartInv
<1>7. CheckDue(p)
  BY <1>5, <1>6 DEF CheckedInv
<1>8. CASE Has(inbox, CheckKinds, p)
  <2>1. Has(inbox', CheckKinds, p) \/ (e.kind \in CheckKinds /\ e.id = p)
    BY <1>4, <1>8, HandledEvent
  <2>2. ~(e.kind \in CheckKinds /\ e.id = p)
    <3> SUFFICES ASSUME e.kind \in CheckKinds, e.id = p PROVE FALSE
      OBVIOUS
    <3>1. Accounts(p) > 0
      BY <1>4, <1>5 DEF Accounts
    <3>2. CASE OnRemoved(e)
      BY <1>6, <3>1, <3>2 DEF OnRemoved, EnsureAccount
    <3>3. CASE OnRefreshed(e)
      BY <1>6, <3>1, <3>3 DEF OnRefreshed, EnsureAccount
    <3>4. CASE OnExpired(e)
      BY <1>6, <3>4 DEF OnExpired, EnsureAccount
    <3>5. CASE OnAccountAdded(e)
      BY <3>5 DEF OnAccountAdded, EnsureAccount, CheckKinds
    <3> QED BY <1>2, <3>2, <3>3, <3>4, <3>5 DEF OnAdded, OnListed, OnGot, OnSignedOut,
                                               OnSignedIn, OnInquiry, CheckKinds
  <2> QED BY <2>1, <2>2 DEF CheckDue
<1>9. CASE ~Has(inbox, CheckKinds, p)
  BY <1>1, <1>3, <1>7, <1>9 DEF CheckDue, Unsettled, DueKept
<1> QED BY <1>8, <1>9

\* Everything else.
LEMMA OtherChecked ==
    ASSUME ManagerInv, CheckedInv,
           \/ Outside \/ Monitor \/ PromptOpened \/ PromptAnswered \/ User \/ UNCHANGED vars
           \/ \E q \in Principals : AccountAdded(q)
    PROVE  CheckedInv'
<1>1. ServiceStateOK /\ inbox \in Seq(Events) /\ unchecked \subseteq Principals
      /\ enabled \in [Principals -> Nat]
  BY DEF ManagerInv, ServiceStateOK, ManagerTypeOK, ServiceTypeOK
<1>2. UNCHANGED <<running, table, level>>
  <2>1. ASSUME NEW q \in Principals, AccountAdded(q) PROVE UNCHANGED <<running, table, level>>
    BY <2>1 DEF AccountAdded
  <2> QED BY <1>1, <2>1, OtherInbox
<1>3. (failed' = failed /\ pool' = pool /\ (RefreshDue => RefreshDue')) \/ failed'
  <2>1. CASE Outside
    BY <2>1 DEF Outside, CursorFails, CacheChanges, TicketExpires, RefreshDue
  <2>2. CASE ~Outside
    BY <1>1, <2>2, LoopIsQuiet DEF LoopQuiet, DueKept
  <2> QED BY <2>1, <2>2
<1>4. ASSUME NEW p \in Principals, CheckDue(p), Has(inbox, CheckKinds, p) => Has(inbox', CheckKinds, p)
      PROVE  CheckDue(p)'
  BY <1>2, <1>3, <1>4 DEF CheckDue, Unsettled
<1>5. ASSUME NEW q \in Principals, AccountAdded(q) PROVE CheckedInv'
  <2>1. /\ unchecked' = unchecked
        /\ \/ enabled' = [enabled EXCEPT ![q] = @ + 1] /\ Send("account added", q, None)
           \/ enabled' = enabled /\ Send("account refused", q, None)
    BY <1>5 DEF AccountAdded
  <2>2. PICK e \in Events :
          /\ inbox' = Append(inbox, e)
          /\ \/ enabled' = [enabled EXCEPT ![q] = @ + 1] /\ e.kind = "account added" /\ e.id = q
             \/ enabled' = enabled
    <3> DEFINE a == [kind |-> "account added", id |-> q, call |-> None]
               f == [kind |-> "account refused", id |-> q, call |-> None]
    <3>1. a \in Events /\ f \in Events
      BY EventsSent DEF AccountKinds
    <3>2. CASE enabled' = [enabled EXCEPT ![q] = @ + 1] /\ Send("account added", q, None)
      <4>1. inbox' = Append(inbox, a) /\ a.kind = "account added" /\ a.id = q
        BY <3>2 DEF Send
      <4> QED BY <3>1, <3>2, <4>1
    <3>3. CASE enabled' = enabled /\ Send("account refused", q, None)
      <4>1. inbox' = Append(inbox, f)
        BY <3>3 DEF Send
      <4> QED BY <3>1, <3>3, <4>1
    <3> QED BY <2>1, <3>2, <3>3
  <2>3. \A p : /\ Has(inbox, CheckKinds, p) => Has(inbox', CheckKinds, p)
               /\ e.kind = "account added" /\ e.id = p => Has(inbox', CheckKinds, p)
    BY <1>1, <2>2, AppendedEvent DEF CheckKinds
  <2> SUFFICES ASSUME running, NEW p \in unchecked, enabled'[p] > 0 PROVE CheckDue(p)'
    BY <1>2, <2>1 DEF CheckedInv
  <2>4. CASE enabled'[p] = enabled[p]
    <3>1. CheckDue(p)
      BY <2>4 DEF CheckedInv
    <3> QED BY <1>1, <1>4, <2>3, <3>1
  <2>5. CASE enabled'[p] # enabled[p]
    <3>1. p = q /\ e.kind = "account added" /\ e.id = q
      BY <1>1, <2>2, <2>5
    <3> QED BY <2>3, <3>1 DEF CheckDue
  <2> QED BY <2>4, <2>5
<1>6. CASE \/ Outside \/ Monitor \/ PromptOpened \/ PromptAnswered \/ User \/ UNCHANGED vars
  <2>1. inbox' = inbox
    BY <1>1, <1>6, OtherInbox
  <2>2. \A p \in Principals : p \in unchecked' /\ enabled'[p] > 0 => p \in unchecked /\ enabled[p] > 0
    <3>1. CASE \/ Outside \/ Monitor \/ PromptOpened \/ PromptAnswered \/ UNCHANGED vars
      BY <3>1 DEF Outside, Monitor, PromptOpened, PromptAnswered, PromptStep, vars, serviceVars
    <3>2. ASSUME NEW q \in Principals,
                 \/ UserAdds(q) \/ UserRemoves(q) \/ UserDisables(q) \/ UserEnables(q)
                 \/ RenewalDue(q) \/ \E c \in Calls : SignInCalled(c, q) \/ SignOutCalled(c, q)
          PROVE  \A p \in Principals :
                    p \in unchecked' /\ enabled'[p] > 0 => p \in unchecked /\ enabled[p] > 0
      <4>1. CASE UserAdds(q)
        BY <1>1, <4>1 DEF UserAdds
      <4>2. CASE UserRemoves(q)
        BY <1>1, <4>2 DEF UserRemoves
      <4>3. CASE UserDisables(q)
        BY <1>1, <4>3 DEF UserDisables
      <4>4. CASE UserEnables(q)
        BY <1>1, <4>4 DEF UserEnables, EnsureAccount
      <4>5. CASE RenewalDue(q) \/ \E c \in Calls : SignInCalled(c, q) \/ SignOutCalled(c, q)
        BY <4>5 DEF RenewalDue, SignInCalled, SignOutCalled, serviceVars
      <4> QED BY <3>2, <4>1, <4>2, <4>3, <4>4, <4>5
    <3> QED BY <1>6, <3>1, <3>2 DEF User
  <2>3. unchecked' \subseteq Principals
    <3>1. ServiceStateOK'
      BY <1>1, <1>6, UserTypes, OtherTypes
    <3> QED BY <3>1 DEF ServiceStateOK, ServiceTypeOK
  <2>4. ASSUME running, NEW p \in unchecked', enabled'[p] > 0 PROVE CheckDue(p)'
    <3>1. p \in Principals /\ CheckDue(p)
      BY <2>2, <2>3, <2>4 DEF CheckedInv
    <3> QED BY <1>4, <2>1, <3>1
  <2> QED BY <1>2, <2>4 DEF CheckedInv
<1> QED BY <1>5, <1>6

LEMMA CheckedStep ==
    ASSUME ManagerInv, StartInv, CheckedInv, [Next]_vars
    PROVE  CheckedInv'
<1>1. unchecked \subseteq Principals
  BY DEF ManagerInv, ServiceStateOK, ServiceTypeOK
<1>2. CASE Thread
  <2>1. Marked /\ UNCHANGED <<running, enabled>>
    BY <1>2 DEF Thread
  <2>2. MarkedLevels /\ \A p \in Principals : CheckDue(p) => CheckDue(p)'
    BY <1>2, ThreadKeepsChecks
  <2> QED BY <1>1, <2>1, <2>2, ThreadChecked
<1>3. CASE SignInEnds
  <2>1. Marked /\ UNCHANGED <<running, enabled>>
    BY <1>3 DEF SignInEnds
  <2>2. MarkedLevels /\ \A p \in Principals : CheckDue(p) => CheckDue(p)'
    BY <1>3, SignInKeepsChecks
  <2> QED BY <1>1, <2>1, <2>2, ThreadChecked
<1>4. CASE Dispatch
  BY <1>4, DispatchChecked
<1>5. CASE \/ Outside \/ Monitor \/ PromptOpened \/ PromptAnswered \/ User \/ UNCHANGED vars
           \/ \E p \in Principals : AccountAdded(p)
  BY <1>5, OtherChecked
<1> QED BY <1>2, <1>3, <1>4, <1>5 DEF Next

\* At rest the daemon has been asked to check the account of every identity
\* that was signed in or out since the service started.
THEOREM ChangesAreChecked == Spec => []AccountsChecked
<1>1. Init => ServiceInv /\ CheckedInv
  BY InitService DEF Init, ServiceInit, CheckedInv
<1>2. (ServiceInv /\ CheckedInv) /\ [Next]_vars => (ServiceInv /\ CheckedInv)'
  BY ServiceStep, CheckedStep DEF ServiceInv
<1>3. ServiceInv /\ CheckedInv => AccountsChecked
  <2> SUFFICES ASSUME ServiceInv, CheckedInv, AtRest, NEW p \in unchecked PROVE enabled[p] = 0
    BY DEF AccountsChecked
  <2>1. /\ ~RefreshDue /\ pool.at = "idle" /\ ~Has(inbox, CheckKinds, p)
        /\ running /\ ~failed
    BY RestingService DEF ServiceInv, AtRest
  <2>2. ~CheckDue(p)
    BY <2>1 DEF CheckDue, Unsettled
  <2>3. enabled[p] \in Nat
    BY DEF ServiceInv, ManagerInv, ServiceStateOK, ServiceTypeOK
  <2> QED BY <2>1, <2>2, <2>3 DEF CheckedInv
<1> QED BY <1>1, <1>2, <1>3, PTL DEF Spec
=============================================================================
