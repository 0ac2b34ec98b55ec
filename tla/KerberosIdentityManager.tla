---------------------- MODULE KerberosIdentityManager ----------------------
(***************************************************************************)
(* The GoaKerberosIdentityManager of goa-identity-service: one pool thread *)
(* that takes operations from a queue, the table of the identities it has  *)
(* found in the credential caches, and the signals and results it sends to *)
(* the main loop, which IdentityService handles.                           *)
(*                                                                         *)
(* A principal has at most one credential cache, whose ticket is live or   *)
(* has expired (dead).  After what the thread sends to the main loop it    *)
(* waits until it is handled (Signals), after the result of a task it does *)
(* not, except for that of the listing.                                    *)
(***************************************************************************)
EXTENDS Integers, Sequences, FiniteSets, SequencesExt

CONSTANTS
    Principals,
    Calls,       \* D-Bus calls to the service
    None,
    MaxChanges   \* bound: how often users and the KDC change caches and accounts

ASSUME ChangesAssumption == MaxChanges \in Nat

VARIABLES
    cache,    \* per principal: its credential cache outside of the process
    notify,   \* the monitor, or an alarm, has something for the main loop
    table,    \* self->identities
    level,    \* per principal: cached_verification_level of its identity
    watched,  \* the identities whose signals are connected
    queue,    \* the operations pushed on the thread pool
    pending,  \* pending_refresh_count
    pool,     \* the operation the thread is at, and how far it is
    inbox,    \* what waits to be dispatched by the main loop
    failed,   \* history: the last refresh could not enumerate all caches
    changes   \* history: the changes made so far

managerVars == <<cache, notify, table, level, watched, queue, pending, pool, inbox, failed, changes>>

Level == {"none", "dead", "live"}  \* UNVERIFIED, EXISTS, SIGNED_IN
Signals == {"added", "removed", "refreshed", "expired", "inquiry"}
Op(kind, id, call) == [kind |-> kind, id |-> id, call |-> call]
Operations ==
    {o \in [kind : {"refresh", "list", "get", "sign in", "sign out", "renew"},
            id : Principals \cup {None}, call : Calls \cup {None}] :
        o.kind \notin {"refresh", "list"} => o.id \in Principals}
ASSUME NoneAssumption == None \notin Operations

RefreshOp == Op("refresh", None, None)
IdlePool == [op |-> None, at |-> "idle", todo |-> {}, known |-> {}]

ManagerInit ==
    /\ cache \in [Principals -> Level]
    /\ notify = FALSE
    /\ table = {} /\ watched = {}
    /\ level = [p \in Principals |-> "none"]
    /\ queue = <<RefreshOp, Op("list", None, None)>> /\ pending = 1
    /\ pool = IdlePool
    /\ inbox = <<>>
    /\ failed = FALSE /\ changes = 0

\* The thread waits until the main loop has acknowledged its signal, or, after
\* a listing, until the task of the listing is gone.
Waiting == \E i \in 1 .. Len(inbox) : inbox[i].kind \in Signals \cup {"listed"}
At(place) == pool.op # None /\ pool.at = place /\ ~Waiting

Send(kind, id, call) == inbox' = Append(inbox, [kind |-> kind, id |-> id, call |-> call])

ScheduleRefresh ==
    /\ pending' = pending + 1
    /\ queue' = Append(queue, RefreshOp)

-----------------------------------------------------------------------------
(* The thread: goa_kerberos_identity_manager_thread_pool_func.             *)

Free == pool.op = None /\ queue # <<>> /\ ~Waiting

Take ==
    /\ Free /\ Head(queue).kind # "refresh"
    /\ pool' = [IdlePool EXCEPT !.op = Head(queue), !.at = "start"]
    /\ queue' = Tail(queue)
    /\ UNCHANGED <<cache, notify, table, level, watched, pending, inbox, failed, changes>>

\* Mutant: a refresh that is skipped stays counted.
RefreshSkipped_Counted ==
    /\ Free /\ Head(queue).kind = "refresh" /\ pending > 1
    /\ queue' = Tail(queue) /\ UNCHANGED pending
    /\ UNCHANGED <<cache, notify, table, level, watched, pool, inbox, failed, changes>>

\* "If we have more refreshes queued up, don't bother doing this one"
RefreshSkipped ==
    /\ Free /\ Head(queue).kind = "refresh" /\ pending > 1
    /\ queue' = Tail(queue) /\ pending' = pending - 1
    /\ UNCHANGED <<cache, notify, table, level, watched, pool, inbox, failed, changes>>

\* The cursor will come across every cache there is now.
RefreshStarts ==
    /\ Free /\ Head(queue).kind = "refresh" /\ pending = 1
    /\ queue' = Tail(queue) /\ pending' = 0
    /\ pool' = [op |-> Head(queue), at |-> "enumerate", known |-> {},
                todo |-> {p \in Principals : cache[p] # "none"}]
    /\ failed' = FALSE
    /\ UNCHANGED <<cache, notify, table, level, watched, inbox, changes>>

\* import_credentials_cache; the cursor may come across caches that are newer
\* than it is.  add_identity sends "added" and waits.
ImportCache(p) ==
    /\ At("enumerate") /\ p \notin pool.known
    /\ cache[p] # "none"
    /\ pool' = [pool EXCEPT !.todo = @ \ {p}, !.known = @ \cup {p}]
    /\ IF p \in table THEN UNCHANGED <<table, level, inbox>>
       ELSE /\ table' = table \cup {p}
            /\ level' = [level EXCEPT ![p] = cache[p]]
            /\ Send("added", p, None)
    /\ UNCHANGED <<cache, notify, watched, queue, pending, failed, changes>>

CursorEnds ==
    /\ At("enumerate") /\ \A p \in pool.todo : cache[p] = "none"
    /\ pool' = [pool EXCEPT !.at = "verify", !.todo = table]
    /\ UNCHANGED <<cache, notify, table, level, watched, queue, pending, inbox, failed, changes>>

\* The cursor breaks off, or there is none: then the identities are not
\* verified either ("goto done").  Those not met so far will be dropped.
CursorFails ==
    /\ At("enumerate") /\ changes < MaxChanges
    /\ changes' = changes + 1 /\ failed' = TRUE
    /\ \/ pool' = [pool EXCEPT !.at = "verify", !.todo = table]
       \/ pool.known = {} /\ pool' = [pool EXCEPT !.at = "drop", !.todo = {}]
    /\ UNCHANGED <<cache, notify, table, level, watched, queue, pending, inbox>>

\* The effect that the level of p becomes l has in the thread: "unexpired"
\* makes it push a refresh.
Verified(p, l) ==
    /\ level' = [level EXCEPT ![p] = l]
    /\ IF p \in watched /\ level[p] = "dead" /\ l = "live"
       THEN ScheduleRefresh ELSE UNCHANGED <<queue, pending>>

\* goa_kerberos_identity_refresh, the signal "expired", and "refreshed" for
\* who is signed in.
VerifyIdentity(p) ==
    /\ At("verify") /\ p \in pool.todo
    /\ pool' = [pool EXCEPT !.todo = @ \ {p}]
    /\ Verified(p, cache[p])
    /\ CASE cache[p] = "live" -> Send("refreshed", p, None)
         [] cache[p] = "dead" /\ level[p] = "live" /\ p \in watched -> Send("expired", p, None)
         [] OTHER -> UNCHANGED inbox
    /\ UNCHANGED <<cache, notify, table, watched, failed, changes>>

VerifyEnds ==
    /\ At("verify") /\ pool.todo = {}
    /\ pool' = [pool EXCEPT !.at = "drop"]
    /\ UNCHANGED <<cache, notify, table, level, watched, queue, pending, inbox, failed, changes>>

\* drop_stale_identities, remove_identity.
DropStale(p) ==
    /\ At("drop") /\ p \in table \ pool.known
    /\ table' = table \ {p} /\ watched' = watched \ {p}
    /\ level' = [level EXCEPT ![p] = "none"]
    /\ Send("removed", p, None)
    /\ UNCHANGED <<cache, notify, queue, pending, pool, failed, changes>>

RefreshEnds ==
    /\ At("drop") /\ table \subseteq pool.known
    /\ pool' = IdlePool
    /\ UNCHANGED <<cache, notify, table, level, watched, queue, pending, inbox, failed, changes>>

\* list_identities: nothing changes the table before the result is handled.
ListIdentities ==
    /\ At("start") /\ pool.op.kind = "list"
    /\ pool' = IdlePool
    /\ Send("listed", None, None)
    /\ UNCHANGED <<cache, notify, table, level, watched, queue, pending, failed, changes>>

GetIdentity ==
    /\ At("start") /\ pool.op.kind = "get"
    /\ pool' = IdlePool
    /\ Send(IF pool.op.id \in table THEN "found" ELSE "missing", pool.op.id, pool.op.call)
    /\ UNCHANGED <<cache, notify, table, level, watched, queue, pending, failed, changes>>

\* on_kerberos_identity_inquiry: the KDC wants an answer that only the user has.
SignInInquires ==
    /\ At("start") /\ pool.op.kind = "sign in"
    /\ pool' = [pool EXCEPT !.at = "inquire"]
    /\ Send("inquiry", pool.op.id, pool.op.call)
    /\ UNCHANGED <<cache, notify, table, level, watched, queue, pending, failed, changes>>

\* get_new_credentials_cache: while no identity is known a new one takes the
\* default cache, which may be that of a principal nobody has noticed yet.
Overwritten == {{}} \cup {{q} : q \in {r \in Principals : table = {} /\ cache[r] # "none"}}
Without(gone) == [q \in Principals |-> IF q \in gone THEN "none" ELSE cache[q]]

\* goa_kerberos_identity_sign_in stores the ticket; the identity enters the
\* table without being announced or watched.
SignInSucceeds ==
    LET p == pool.op.id IN
    /\ pool' = IdlePool
    /\ \E gone \in IF p \in table THEN {{}} ELSE Overwritten :
          cache' = [Without(gone) EXCEPT ![p] = "live"]
    /\ notify' = TRUE
    /\ table' = table \cup {p}
    /\ Verified(p, "live")
    /\ Send("signed in", p, pool.op.call)
    /\ UNCHANGED <<watched, failed, changes>>

\* The KDC refuses, or the user cancels the prompt.  What counts for the table
\* is whether the identity is signed in then, as it may have been before; the
\* task of a cancelled operation fails all the same.
SignInRefused(cancelled) ==
    LET p == pool.op.id
        live == cache[p] = "live"
        expires == p \in watched /\ level[p] = "live" /\ cache[p] = "dead"
        signals == IF expires THEN <<[kind |-> "expired", id |-> p, call |-> None]>> ELSE <<>>
        result == [kind |-> IF live /\ ~cancelled THEN "signed in" ELSE "refused", id |-> p,
                   call |-> pool.op.call]
    IN
    /\ pool' = IdlePool
    /\ p \in table \/ (table = {} /\ live)
    /\ table' = IF live THEN table \cup {p} ELSE table
    /\ Verified(p, cache[p])
    /\ inbox' = inbox \o signals \o <<result>>
    /\ UNCHANGED <<cache, notify, watched, failed, changes>>

\* A new identity that cannot be signed in is erased, with the cache it took.
NewSignInRefused ==
    /\ pool.op.id \notin table
    /\ pool' = IdlePool
    /\ \E gone \in Overwritten :
          /\ \A q \in gone : cache[q] = "dead"
          /\ cache' = Without(gone) /\ notify' = (notify \/ gone # {})
    /\ Send("refused", pool.op.id, pool.op.call)
    /\ UNCHANGED <<table, level, watched, queue, pending, failed, changes>>

\* sign_out_identity: an error is not reported, and what the identity was
\* is only seen by the next refresh.
SignOut ==
    LET p == pool.op.id IN
    /\ At("start") /\ pool.op.kind = "sign out"
    /\ pool' = IdlePool
    /\ cache' \in {cache, [cache EXCEPT ![p] = "none"]}
    /\ notify' = (notify \/ cache' # cache)
    /\ Send("signed out", p, pool.op.call)
    /\ UNCHANGED <<table, level, watched, queue, pending, failed, changes>>

\* renew_identity, whose result is only logged.
Renew ==
    LET p == pool.op.id IN
    /\ At("start") /\ pool.op.kind = "renew"
    /\ pool' = IdlePool
    /\ notify' \in {notify, cache[p] = "live" \/ notify}
    /\ UNCHANGED <<cache, table, level, watched, queue, pending, inbox, failed, changes>>

-----------------------------------------------------------------------------
(* The world outside, and the sources of refreshes in the main loop.       *)

\* kinit, kdestroy.
CacheChanges(p) ==
    /\ changes < MaxChanges /\ changes' = changes + 1
    /\ \E l \in {"live", "none"} : l # cache[p] /\ cache' = [cache EXCEPT ![p] = l]
    /\ notify' = TRUE
    /\ UNCHANGED <<table, level, watched, queue, pending, pool, inbox, failed>>

\* The ticket expires, and the alarm of a watched identity fires.  A ticket
\* outlives the refresh that finds it.
TicketExpires(p) ==
    /\ changes < MaxChanges /\ changes' = changes + 1
    /\ cache[p] = "live" /\ (p \in table => p \in watched /\ level[p] = "live")
    /\ cache' = [cache EXCEPT ![p] = "dead"]
    /\ notify' = (notify \/ p \in watched)
    /\ UNCHANGED <<table, level, watched, queue, pending, pool, inbox, failed>>

\* credentials_cache_file_monitor_changed, on_identity_needs_refresh.
NotifyHandled ==
    /\ notify /\ notify' = FALSE
    /\ ScheduleRefresh
    /\ UNCHANGED <<cache, table, level, watched, pool, inbox, failed, changes>>
=============================================================================
