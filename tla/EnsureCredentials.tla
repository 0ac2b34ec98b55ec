------------------------- MODULE EnsureCredentials -------------------------
(***************************************************************************)
(* The credentials queue of goa-daemon (src/daemon/goadaemon.c) and the    *)
(* thread that runs a provider's check (src/goabackend/goaprovider.c).     *)
(*                                                                         *)
(* Everything but the provider's synchronous call runs on the daemon's     *)
(* main loop, so a handler is one step.  A check runs in a worker thread:  *)
(* it starts inside the handler that found the queue ready, ends in        *)
(* ProviderReturns, and its result is collected by a later main-loop step. *)
(* The task being checked stays at the head of the queue until then.       *)
(*                                                                         *)
(* A GoaObject is an instance: an account that is unexported and later     *)
(* exported again under the same id is a different object, and tasks of    *)
(* the queue keep the object they were made for.                           *)
(***************************************************************************)
EXTENDS Naturals, Sequences, SequencesExt

CONSTANTS
    Objects,   \* GoaObject instances that may be exported, each at most once
    Ids,       \* account ids
    IdOf,      \* the id an object is exported under
    Calls,     \* D-Bus invocations of EnsureCredentials, reused once answered
    None       \* no object, no check

ASSUME ObjectsAssumption == IsFiniteSet(Objects)
ASSUME IdOfAssumption == IdOf \in [Objects -> Ids]

Answers == {"ok", "unauthorized", "failed"}

VARIABLES
    exported,     \* objects on the bus now
    unborn,       \* objects not created yet
    attention,    \* Account:AttentionNeeded of each object
    credentials,  \* what the provider's service would say of each id
    queue,        \* ensure_credentials_queue
    running,      \* ensure_credentials_running
    check,        \* the check in the worker thread, or None
    netTimer,     \* credentials_timeout_id is set
    call          \* each invocation: idle, waiting on an object, or answered

vars == <<exported, unborn, attention, credentials, queue, running, check,
          netTimer, call>>

\* The object manager and the service behind the provider: not the daemon's.
envVars == <<exported, unborn, credentials>>

Task == [object: Objects, priority: {"high", "low"}, calls: SUBSET Calls]
NewTask(o, priority, cs) == [object |-> o, priority |-> priority, calls |-> cs]

Check == [object: Objects, result: Answers \cup {"pending"}, cancelled: BOOLEAN]
NewCheck(o) == [object |-> o, result |-> "pending", cancelled |-> FALSE]

Call == [state: {"waiting"}, object: Objects]
            \cup [state: {"idle"} \cup Answers, object: {None}]

ASSUME NoneAssumption == None \notin Objects \cup Ids \cup Check

\* At most one object of an id is exported.
OneObjectPerId(S) == \A o, p \in S : IdOf[o] = IdOf[p] => o = p

Init ==
    /\ exported \in {S \in SUBSET Objects : OneObjectPerId(S)}
    /\ unborn = Objects \ exported
    /\ attention = [o \in Objects |-> FALSE]
    /\ credentials \in [Ids -> {"valid", "expired"}]
    /\ queue = <<>>
    /\ running = FALSE
    /\ check = None
    /\ netTimer = TRUE
    /\ call = [c \in Calls |-> [state |-> "idle", object |-> None]]

-----------------------------------------------------------------------------
(* The queue. *)

Waiting(c) == call[c].state = "waiting"

\* The positions of q whose task is about account id.
PositionsOf(q, id) == {i \in DOMAIN q : IdOf[q[i].object] = id}

\* The bug of a sort that may reorder tasks of the same priority.
StableOrders_Unstable(q) ==
    {p \in [DOMAIN q -> DOMAIN q] :
        /\ \A k \in DOMAIN q : \E i \in DOMAIN q : p[i] = k
        /\ \A i, j \in DOMAIN q :
              i < j => ~(q[p[i]].priority = "low" /\ q[p[j]].priority = "high")}

\* The permutations that sort q by priority and keep the order of equals.
StableOrders(q) ==
    LET before(i, j) == \/ q[i].priority = "high" /\ q[j].priority = "low"
                        \/ q[i].priority = q[j].priority /\ i < j
    IN  {p \in [DOMAIN q -> DOMAIN q] :
            /\ \A k \in DOMAIN q : \E i \in DOMAIN q : p[i] = k
            /\ \A i, j \in DOMAIN q : i < j => before(p[i], p[j])}

Sorted(q) == {[i \in DOMAIN q |-> q[p[i]]] : p \in StableOrders(q)}

\* ensure_credentials_queue_check with q the queue and nothing running: sort,
\* leave the head in place and start its check, with a cancellable of its own.
StartNext(q) ==
    IF q = <<>>
      THEN queue' = <<>> /\ running' = FALSE /\ check' = None
      ELSE /\ queue' \in Sorted(q)
           /\ running' = TRUE
           /\ check' = NewCheck(Head(queue').object)

\* The bug of sorting before looking at ensure_credentials_running.
QueueCheck_SortsRunning(q) ==
    IF running THEN queue' \in Sorted(q) /\ UNCHANGED <<running, check>>
               ELSE StartNext(q)

\* ensure_credentials_queue_check after the queue became q.
QueueCheck(q) ==
    IF running THEN queue' = q /\ UNCHANGED <<running, check>> ELSE StartNext(q)

\* A coalesce that forgets to raise the priority of a queued network check.
Coalesce_KeepsPriority(q, i, c) == [q EXCEPT ![i].calls = @ \cup {c}]

\* A coalesce that forgets the invocation.
Coalesce_DropsCall(q, i, c) == [q EXCEPT ![i].priority = "high"]

\* ensure_credentials_queue_coalesce of call c with the first task of its id:
\* the task is raised to the call's priority and answers it too.
Coalesce(q, i, c) ==
    [q EXCEPT ![i].priority = "high", ![i].calls = @ \cup {c}]

-----------------------------------------------------------------------------
(* Handlers of the main loop. *)

\* on_account_handle_ensure_credentials: client call c on exported object o.
\* The branch without a provider is absent: update_account_object exports
\* no object of an unknown provider type.
EnsureCredentials(c, o) ==
    /\ ~Waiting(c)
    /\ o \in exported
    /\ call' = [call EXCEPT ![c] = [state |-> "waiting", object |-> o]]
    /\ LET same == PositionsOf(queue, IdOf[o])
       IN  \/ /\ same = {}
              /\ QueueCheck(Append(queue, NewTask(o, "high", {c})))
           \/ /\ same # {}
              /\ \E i \in same :
                    /\ \A j \in same : i <= j
                    /\ queue' = Coalesce(queue, i, c)
              /\ UNCHANGED <<running, check>>
    /\ UNCHANGED <<envVars, attention, netTimer>>

\* The same without a look at the tasks already in the queue.
CheckCredentials_NoCoalesce ==
    /\ netTimer
    /\ netTimer' = FALSE
    /\ \E s \in SetToSeqs(exported) :
          QueueCheck(queue \o [i \in DOMAIN s |-> NewTask(s[i], "low", {})])
    /\ UNCHANGED <<envVars, attention, call>>

\* on_check_credentials_timeout, goa_daemon_check_credentials: one task of low
\* priority per exported account that no task of the queue is about, in the
\* order of the object manager's hash table.
CheckCredentials ==
    /\ netTimer
    /\ netTimer' = FALSE
    /\ LET fresh == {o \in exported : PositionsOf(queue, IdOf[o]) = {}}
       IN  \E s \in SetToSeqs(fresh) :
              QueueCheck(queue \o [i \in DOMAIN s |-> NewTask(s[i], "low", {})])
    /\ UNCHANGED <<envVars, attention, call>>

\* on_network_monitor_network_changed, queue_check_credentials: the timer is
\* removed and armed anew.
NetworkChanged ==
    /\ netTimer' = TRUE
    /\ UNCHANGED <<envVars, attention, queue, running, check, call>>

\* A timer callback that forgets to cancel.
Timeout_NoCancel ==
    /\ check # None /\ ~check.cancelled
    /\ UNCHANGED vars

\* ensure_credentials_timeout_cb, CREDENTIALS_CHECK_TIMEOUT after the start.
\* The timer of a check that has ended cancels a cancellable nobody reads.
Timeout ==
    /\ check # None /\ ~check.cancelled
    /\ check' = [check EXCEPT !.cancelled = TRUE]
    /\ UNCHANGED <<envVars, attention, queue, running, netTimer, call>>

\* goa_provider_ensure_credentials_finish: a cancelled check failed, whatever
\* the provider returned.
Verdict == IF check.cancelled THEN "failed" ELSE check.result

\* The bug of answering one invocation and forgetting the others.
Answered_One(task, v) ==
    LET one == CHOOSE c \in Calls : c \in task.calls
    IN  IF task.calls = {} THEN call ELSE [call EXCEPT ![one] = [state |-> v, object |-> None]]

\* The bug of answering everybody who waits.
Answered_Everybody(task, v) ==
    [c \in Calls |-> IF Waiting(c) THEN [state |-> v, object |-> None] ELSE call[c]]

\* Every invocation of task, answered with v.
Answered(task, v) ==
    [c \in Calls |-> IF c \in task.calls THEN [state |-> v, object |-> None]
                                          ELSE call[c]]

\* AttentionNeeded after verdict v: only these two change it.
Attention(before, v) ==
    IF v = "unauthorized" THEN TRUE ELSE IF v = "ok" THEN FALSE ELSE before

\* A collector that does not look at the queue again.
Collect_NoQueueCheck ==
    /\ check # None /\ check.result # "pending"
    /\ LET head == Head(queue)
       IN  /\ attention' = [attention EXCEPT ![head.object] = Attention(@, Verdict)]
           /\ call' = Answered(head, Verdict)
           /\ queue' = Tail(queue) /\ running' = FALSE /\ check' = None
    /\ UNCHANGED <<envVars, netTimer>>

\* A collector that runs before the provider has returned.
Collect_Early ==
    /\ check # None
    /\ LET head == Head(queue)
       IN  /\ attention' = [attention EXCEPT ![head.object] = Attention(@, Verdict)]
           /\ call' = Answered(head, Verdict)
           /\ StartNext(Tail(queue))
    /\ UNCHANGED <<envVars, netTimer>>

\* ensure_credentials_queue_collector, ensure_credentials_queue_complete.
Collect ==
    /\ check # None /\ check.result # "pending"
    /\ LET head == Head(queue)
       IN  /\ attention' = [attention EXCEPT ![head.object] = Attention(@, Verdict)]
           /\ call' = Answered(head, Verdict)
           /\ StartNext(Tail(queue))
    /\ UNCHANGED <<envVars, netTimer>>

-----------------------------------------------------------------------------
(* The worker thread, the object manager and the provider's service. *)

\* ensure_credentials_in_thread_func ends: the provider found the credentials
\* of the account valid, found them refused or missing, or failed on the way.
ProviderReturns(r) ==
    /\ check # None /\ check.result = "pending"
    /\ r = "ok" => credentials[IdOf[check.object]] = "valid"
    /\ r = "unauthorized" => credentials[IdOf[check.object]] = "expired"
    /\ check' = [check EXCEPT !.result = r]
    /\ UNCHANGED <<envVars, attention, queue, running, netTimer, call>>

\* goa_daemon_reload_configuration as this component sees it: objects leave
\* the bus, new ones come under ids that were free before the reload.
Reload ==
    /\ exported' \in {S \in SUBSET (exported \cup unborn) : OneObjectPerId(S)}
    /\ \A o \in exported' \ exported, p \in exported : IdOf[o] # IdOf[p]
    /\ unborn' = unborn \ exported'
    /\ UNCHANGED <<attention, credentials, queue, running, check, netTimer, call>>

\* Credentials expire, and the user signs in again.
CredentialsChange(id) ==
    /\ credentials' \in [Ids -> {"valid", "expired"}]
    /\ \A other \in Ids \ {id} : credentials'[other] = credentials[other]
    /\ UNCHANGED <<exported, unborn, attention, queue, running, check, netTimer, call>>

-----------------------------------------------------------------------------

Next ==
    \/ \E c \in Calls, o \in Objects : EnsureCredentials(c, o)
    \/ CheckCredentials
    \/ NetworkChanged
    \/ Timeout
    \/ Collect
    \/ \E r \in Answers : ProviderReturns(r)
    \/ Reload
    \/ \E id \in Ids : CredentialsChange(id)

\* The main loop dispatches timers and results, and a provider's call returns
\* once its cancellable is cancelled.  Clients and the network owe nothing.
Fairness ==
    /\ WF_vars(CheckCredentials)
    /\ WF_vars(Timeout)
    /\ WF_vars(Collect)
    /\ WF_vars(check # None /\ check.cancelled /\ \E r \in Answers : ProviderReturns(r))

Spec == Init /\ [][Next]_vars

FairSpec == Spec /\ Fairness

-----------------------------------------------------------------------------
(* Properties. *)

TypeOK ==
    /\ exported \subseteq Objects
    /\ unborn \subseteq Objects
    /\ attention \in [Objects -> BOOLEAN]
    /\ credentials \in [Ids -> {"valid", "expired"}]
    /\ queue \in Seq(Task)
    /\ running \in BOOLEAN
    /\ check \in Check \cup {None}
    /\ netTimer \in BOOLEAN
    /\ call \in [Calls -> Call]

\* The collector pops the task whose check ended: whatever clients and timers
\* did to the queue meanwhile, the task at its head is still the one that was
\* started.  The collector asserts it (g_assert (task == task_queued)).
HeadIsChecked ==
    /\ running <=> check # None
    /\ check # None => queue # <<>> /\ Head(queue).object = check.object

\* Two tasks never wait for the same account id, so that a client's call has
\* one task to be coalesced with and a service is not asked twice in a row.
OneTaskPerId ==
    \A i, j \in DOMAIN queue :
        IdOf[queue[i].object] = IdOf[queue[j].object] => i = j

\* A client that waits is in exactly one task of the queue, about the id it
\* asked about, and no task holds an invocation that was answered already:
\* no call is lost and none is answered twice.
CallsQueuedOnce ==
    /\ \A c \in Calls : Waiting(c) => \E i \in DOMAIN queue : c \in queue[i].calls
    /\ \A i \in DOMAIN queue : \A c \in queue[i].calls :
          Waiting(c) /\ IdOf[call[c].object] = IdOf[queue[i].object]

\* A task has high priority if and only if a client waits for it.
PriorityTracksClients ==
    \A i \in DOMAIN queue : queue[i].priority = "high" <=> queue[i].calls # {}

\* The daemon never rests while tasks are queued: a queue with nothing running
\* would stay as it is until the next call or network change.
NeverIdleWithWork == queue # <<>> => running

\* A check starts on a task no client waits for only when no client waits for
\* any task: a client that joins a queued network check is not left behind it.
ClientsFirst ==
    [][running' /\ (~running \/ Head(queue').object # Head(queue).object)
        => \/ Head(queue').calls # {}
           \/ \A i \in DOMAIN queue' : queue'[i].calls = {}]_vars

\* Once clients wait for two tasks, the one ahead in the queue stays ahead
\* through every later sort, raise and arrival.
NoOvertaking ==
    [][\A i, j \in DOMAIN queue :
        (i < j /\ queue[i].calls # {} /\ queue[j].calls # {})
        => \A k, l \in DOMAIN queue' :
              (/\ queue'[k].object = queue[i].object
               /\ queue'[l].object = queue[j].object
               /\ OneTaskPerId') => k < l]_vars

\* "If this method fails because the token service indicates that
\* authorization has expired, the AttentionNeeded property will be set to TRUE.
\* On the other hand, if this property was already TRUE and this method
\* succeeds, it is set to FALSE" (data/dbus-interfaces.xml), for the account
\* the method was called on.  A call coalesced with a task of an earlier object
\* of the same id breaks it: the property of that object changes instead.
DocumentedAttention ==
    [][\A c \in Calls : Waiting(c) =>
        /\ call'[c].state = "unauthorized" => attention'[call[c].object]
        /\ call'[c].state = "ok" => ~attention'[call[c].object]]_vars

\* Every EnsureCredentials call is answered, however many other calls arrive,
\* accounts come and go and providers hang until they are cancelled.
EveryCallAnswered == \A c \in Calls : Waiting(c) ~> ~Waiting(c)

\* The queue implements the service its clients see.
Service == INSTANCE CheckService WITH
    wanted <- {IdOf[queue[i].object] : i \in DOMAIN queue},
    checking <- IF running THEN IdOf[Head(queue).object] ELSE None,
    state <- [c \in Calls |-> call[c].state],
    about <- [c \in Calls |-> IF call[c].object = None THEN None
                                                      ELSE IdOf[call[c].object]]

ImplementsService == Service!Spec
=============================================================================
