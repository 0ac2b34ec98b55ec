--------------------------- MODULE IdentityService ---------------------------
(***************************************************************************)
(* GoaIdentityService, the main loop of goa-identity-service: it exports   *)
(* the identities of KerberosIdentityManager on the bus, gives each that   *)
(* is signed in an account, has the daemon check the accounts when their   *)
(* identities change, and handles SignIn and SignOut, for which it may     *)
(* have to prompt the user.                                                *)
(*                                                                         *)
(* The service starts when its manager does (on_got_client).  What its     *)
(* GoaClient knows of the accounts is what the daemon has.                 *)
(***************************************************************************)
EXTENDS KerberosIdentityManager

VARIABLES
    running,    \* on_identities_listed has connected the signals
    exports,    \* the identities on the bus
    enabled,    \* per principal: how many accounts with ticketing it has
    disabled,   \* and how many without
    adding,     \* the principals AddAccount was called for, not answered yet
    temporary,  \* pending_temporary_account_results
    prompt,     \* the system prompt of the inquiry the thread waits for
    request,    \* per call: how far it is
    unchecked,  \* history: the identities that were signed in or out since
                \* the daemon was last asked to check their account
    excused,    \* history: those that got a second account in a known way
    orphaned,   \* history: those whose account was refused or removed
    hidden      \* history: those in the table that nobody was told of, because
                \* the prompt was cancelled of the sign-in that found them

serviceVars == <<running, exports, enabled, disabled, adding, temporary, prompt, request,
                 unchecked, excused, orphaned, hidden>>
vars == <<managerVars, serviceVars>>

Accounts(p) == enabled[p] + disabled[p]

ServiceInit ==
    /\ running = FALSE /\ exports = {}
    /\ enabled \in [Principals -> 0 .. 1] /\ disabled \in [Principals -> 0 .. 1]
    /\ \A p \in Principals : Accounts(p) <= 1
    /\ adding = {} /\ temporary = {}
    /\ prompt = "none"
    /\ request = [c \in Calls |-> "none"]
    /\ unchecked = {} /\ excused = {}
    /\ orphaned = {} /\ hidden = {}

Init == ManagerInit /\ ServiceInit

-----------------------------------------------------------------------------
(* What the handlers below have in common.                                 *)

\* ensure_account_credentials: an account without ticketing is left alone.
EnsureAccount(p) == unchecked' = unchecked \ {p}

\* Mutant: nothing remembers that an account is being added.
AddTemporary_Again(S) ==
    /\ temporary' = temporary \cup S
    /\ adding' = adding \cup S
    /\ excused' = excused \cup {p \in S : disabled[p] > 0}

\* add_temporary_account for the principals of S.
AddTemporary(S) ==
    /\ temporary' = temporary \cup S
    /\ adding' = adding \cup (S \ temporary)
    /\ excused' = excused \cup {p \in S : disabled[p] > 0}

NoTemporary == UNCHANGED <<adding, temporary, excused>>

Push(op) == queue' = Append(queue, op)

Handled(e) == inbox # <<>> /\ e = Head(inbox) /\ inbox' = Tail(inbox)
Answer(e, answer) ==
    request' = IF e.call = None THEN request ELSE [request EXCEPT ![e.call] = answer]

-----------------------------------------------------------------------------
(* The signals of the manager.                                             *)

OnAdded(e) ==
    /\ e.kind = "added" /\ Handled(e)
    /\ watched' = watched \cup {e.id}
    /\ exports' = IF running THEN exports \cup {e.id} ELSE exports
    /\ IF running /\ Accounts(e.id) = 0 /\ level[e.id] = "live"
       THEN AddTemporary({e.id}) ELSE NoTemporary
    /\ UNCHANGED <<cache, notify, table, level, queue, pending, pool, failed, changes,
                   running, enabled, disabled, prompt, request, unchecked, orphaned, hidden>>

OnRemoved(e) ==
    /\ e.kind = "removed" /\ Handled(e)
    /\ exports' = IF running THEN exports \ {e.id} ELSE exports
    /\ IF running /\ Accounts(e.id) > 0 THEN EnsureAccount(e.id) ELSE UNCHANGED unchecked
    /\ UNCHANGED <<cache, notify, table, level, watched, queue, pending, pool, failed, changes,
                   running, enabled, disabled, adding, temporary, prompt, request, excused,
                   orphaned, hidden>>

\* Mutant: an identity that comes back to life gets no account.
OnRefreshed_NoAccount(e) ==
    /\ e.kind = "refreshed" /\ Handled(e)
    /\ watched' = watched \cup {e.id}
    /\ NoTemporary
    /\ IF running THEN EnsureAccount(e.id) ELSE UNCHANGED unchecked
    /\ UNCHANGED <<cache, notify, table, level, queue, pending, pool, failed, changes,
                   running, exports, enabled, disabled, prompt, request, orphaned, hidden>>

OnRefreshed(e) ==
    /\ e.kind = "refreshed" /\ Handled(e)
    /\ watched' = watched \cup {e.id}
    /\ IF running /\ Accounts(e.id) = 0 THEN AddTemporary({e.id}) ELSE NoTemporary
    /\ IF running /\ Accounts(e.id) > 0 THEN EnsureAccount(e.id) ELSE UNCHANGED unchecked
    /\ UNCHANGED <<cache, notify, table, level, queue, pending, pool, failed, changes,
                   running, exports, enabled, disabled, prompt, request, orphaned, hidden>>

\* Mutant: who has expired is not checked.
OnExpired_Silent(e) ==
    /\ e.kind = "expired" /\ Handled(e)
    /\ UNCHANGED unchecked
    /\ UNCHANGED <<cache, notify, table, level, watched, queue, pending, pool, failed, changes,
                   running, exports, enabled, disabled, adding, temporary, prompt, request,
                   excused, orphaned, hidden>>

OnExpired(e) ==
    /\ e.kind = "expired" /\ Handled(e)
    /\ IF running /\ enabled[e.id] > 0 THEN EnsureAccount(e.id) ELSE UNCHANGED unchecked
    /\ UNCHANGED <<cache, notify, table, level, watched, queue, pending, pool, failed, changes,
                   running, exports, enabled, disabled, adding, temporary, prompt, request,
                   excused, orphaned, hidden>>

\* on_identities_listed, which takes an identity whose account has no ticketing
\* for one without account.
OnListed(e) ==
    /\ e.kind = "listed" /\ Handled(e)
    /\ running' = TRUE
    /\ exports' = exports \cup table
    /\ AddTemporary({p \in table : enabled[p] = 0})
    /\ UNCHANGED <<cache, notify, table, level, watched, queue, pending, pool, failed, changes,
                   enabled, disabled, prompt, request, unchecked, orphaned, hidden>>

-----------------------------------------------------------------------------
(* Calls, and the results of their operations.                             *)

\* goa_identity_service_handle_sign_in.
SignInCalled(c, p) ==
    /\ request[c] = "none" /\ request' = [request EXCEPT ![c] = "pending"]
    /\ Push(Op("sign in", p, c))
    /\ UNCHANGED <<cache, notify, table, level, watched, pending, pool, inbox, failed, changes,
                   running, exports, enabled, disabled, adding, temporary, prompt, unchecked,
                   excused, orphaned, hidden>>

\* goa_identity_service_handle_sign_out looks for the identity first.
SignOutCalled(c, p) ==
    /\ request[c] = "none" /\ request' = [request EXCEPT ![c] = "pending"]
    /\ Push(Op("get", p, c))
    /\ UNCHANGED <<cache, notify, table, level, watched, pending, pool, inbox, failed, changes,
                   running, exports, enabled, disabled, adding, temporary, prompt, unchecked,
                   excused, orphaned, hidden>>

\* Mutant: nobody tells the caller that there is no such identity.
OnGot_Silent(e) ==
    /\ e.kind \in {"found", "missing"} /\ Handled(e)
    /\ IF e.kind = "found" THEN Push(Op("sign out", e.id, e.call)) ELSE UNCHANGED queue
    /\ UNCHANGED <<cache, notify, table, level, watched, pending, pool, failed, changes,
                   running, exports, enabled, disabled, adding, temporary, prompt, request,
                   unchecked, excused, orphaned, hidden>>

\* on_got_identity_for_sign_out.
OnGot(e) ==
    /\ e.kind \in {"found", "missing"} /\ Handled(e)
    /\ IF e.kind = "found" THEN Push(Op("sign out", e.id, e.call)) /\ UNCHANGED request
                           ELSE Answer(e, "failed") /\ UNCHANGED queue
    /\ UNCHANGED <<cache, notify, table, level, watched, pending, pool, failed, changes,
                   running, exports, enabled, disabled, adding, temporary, prompt, unchecked,
                   excused, orphaned, hidden>>

OnSignedOut(e) ==
    /\ e.kind = "signed out" /\ Handled(e)
    /\ IF Accounts(e.id) > 0 THEN EnsureAccount(e.id) ELSE UNCHANGED unchecked
    /\ Answer(e, "done")
    /\ UNCHANGED <<cache, notify, table, level, watched, queue, pending, pool, failed, changes,
                   running, exports, enabled, disabled, adding, temporary, prompt, excused,
                   orphaned, hidden>>

\* on_identity_signed_in, on_sign_in_done: the identity is exported here, for
\* no signal announces it.
OnSignedIn(e) ==
    /\ e.kind \in {"signed in", "refused"} /\ Handled(e)
    /\ exports' = IF e.kind = "signed in" THEN exports \cup {e.id} ELSE exports
    /\ Answer(e, IF e.kind = "signed in" THEN "done" ELSE "failed")
    /\ UNCHANGED <<cache, notify, table, level, watched, queue, pending, pool, failed, changes,
                   running, enabled, disabled, adding, temporary, prompt, unchecked, excused,
                   orphaned, hidden>>

-----------------------------------------------------------------------------
(* The prompt: on_identity_inquiry and what follows.                       *)

OnInquiry(e) ==
    /\ e.kind = "inquiry" /\ Handled(e)
    /\ prompt' = "opening"
    /\ UNCHANGED <<cache, notify, table, level, watched, queue, pending, pool, failed, changes,
                   running, exports, enabled, disabled, adding, temporary, request, unchecked,
                   excused, orphaned, hidden>>

\* The prompter opens the prompt or does not: then nobody completes the
\* inquiry, nor cancels it.  The same holds for a prompt that fails.
PromptStep(from, to) ==
    /\ prompt = from /\ prompt' \in to
    /\ UNCHANGED <<managerVars, running, exports, enabled, disabled, adding, temporary, request,
                   unchecked, excused, orphaned, hidden>>

PromptOpened == PromptStep("opening", {"asking", "lost"})
PromptAnswered == PromptStep("asking", {"answered", "cancelled", "lost"})

Marked ==
    unchecked' = IF running
                 THEN unchecked \cup {p \in Principals : (level[p] = "live") # (level'[p] = "live")}
                 ELSE unchecked

\* The thread goes on with the answer; or the password of the call, or the
\* KDC, made an inquiry needless.
SignInEnds ==
    /\ At("start") \/ (At("inquire") /\ prompt \in {"answered", "cancelled"})
    /\ pool.op.kind = "sign in"
    /\ prompt' = "none"
    /\ \/ prompt # "cancelled" /\ SignInSucceeds
       \/ SignInRefused(prompt = "cancelled")
       \/ NewSignInRefused
    /\ hidden' = CASE prompt = "cancelled" -> hidden \cup (table' \ table)
                   [] prompt # "cancelled" /\ level'[pool.op.id] = "live" ->
                        hidden \ {pool.op.id}
                   [] OTHER -> hidden
    /\ Marked
    /\ UNCHANGED <<running, exports, enabled, disabled, adding, temporary, request, excused,
                   orphaned>>

-----------------------------------------------------------------------------
(* Accounts.                                                               *)

\* The daemon handles AddAccount.
AccountAdded(p) ==
    /\ p \in adding /\ adding' = adding \ {p}
    /\ \/ /\ enabled' = [enabled EXCEPT ![p] = @ + 1] /\ orphaned' = orphaned \ {p}
          /\ Send("account added", p, None) /\ UNCHANGED changes
       \/ /\ UNCHANGED enabled /\ orphaned' = orphaned \cup {p}
          /\ Send("account refused", p, None)
          /\ changes < MaxChanges /\ changes' = changes + 1
    /\ UNCHANGED <<cache, notify, table, level, watched, queue, pending, pool, failed,
                   running, exports, disabled, temporary, prompt, request, unchecked, excused,
                   hidden>>

\* on_temporary_account_added_as_kerberos.
OnAccountAdded(e) ==
    /\ e.kind \in {"account added", "account refused"} /\ Handled(e)
    /\ temporary' = temporary \ {e.id}
    /\ IF e.kind = "account added" THEN EnsureAccount(e.id) ELSE UNCHANGED unchecked
    /\ UNCHANGED <<cache, notify, table, level, watched, queue, pending, pool, failed, changes,
                   running, exports, enabled, disabled, adding, prompt, request, excused,
                   orphaned, hidden>>

\* Settings adds an account if it sees none for the principal, and removes one.
UserAdds(p) ==
    /\ changes < MaxChanges /\ changes' = changes + 1
    /\ Accounts(p) = 0 /\ enabled' = [enabled EXCEPT ![p] = 1]
    /\ excused' = IF p \in temporary THEN excused \cup {p} ELSE excused
    /\ orphaned' = orphaned \ {p} /\ unchecked' = unchecked \ {p}
    /\ UNCHANGED <<cache, notify, table, level, watched, queue, pending, pool, inbox, failed,
                   running, exports, disabled, adding, temporary, prompt, request, hidden>>

UserRemoves(p) ==
    /\ changes < MaxChanges /\ changes' = changes + 1
    /\ \/ enabled[p] > 0 /\ enabled' = [enabled EXCEPT ![p] = @ - 1] /\ UNCHANGED disabled
       \/ disabled[p] > 0 /\ disabled' = [disabled EXCEPT ![p] = @ - 1] /\ UNCHANGED enabled
    /\ orphaned' = orphaned \cup {p}
    /\ UNCHANGED <<cache, notify, table, level, watched, queue, pending, pool, inbox, failed,
                   running, exports, adding, temporary, prompt, request, unchecked, excused,
                   hidden>>

\* Ticketing is switched off: on_account_interface_removed signs out.
UserDisables(p) ==
    /\ changes < MaxChanges /\ changes' = changes + 1
    /\ enabled[p] > 0
    /\ enabled' = [enabled EXCEPT ![p] = @ - 1] /\ disabled' = [disabled EXCEPT ![p] = @ + 1]
    /\ Push(Op("get", p, None))
    /\ UNCHANGED <<cache, notify, table, level, watched, pending, pool, inbox, failed,
                   running, exports, adding, temporary, prompt, request, unchecked, excused,
                   orphaned, hidden>>

\* on_account_interface_added calls GetTicket, and has the account checked then.
UserEnables(p) ==
    /\ changes < MaxChanges /\ changes' = changes + 1
    /\ disabled[p] > 0
    /\ enabled' = [enabled EXCEPT ![p] = @ + 1] /\ disabled' = [disabled EXCEPT ![p] = @ - 1]
    /\ EnsureAccount(p)
    /\ UNCHANGED <<cache, notify, table, level, watched, queue, pending, pool, inbox, failed,
                   running, exports, adding, temporary, prompt, request, excused, orphaned, hidden>>

\* on_identity_needs_renewal, when the renewal alarm fires.
RenewalDue(p) ==
    /\ changes < MaxChanges /\ changes' = changes + 1
    /\ running /\ p \in watched /\ level[p] = "live"
    /\ Push(Op("renew", p, None))
    /\ UNCHANGED <<cache, notify, table, level, watched, pending, pool, inbox, failed,
                   serviceVars>>

-----------------------------------------------------------------------------

Thread ==
    /\ \/ Take \/ RefreshSkipped \/ RefreshStarts
       \/ \E p \in Principals : ImportCache(p) \/ VerifyIdentity(p) \/ DropStale(p)
       \/ CursorEnds \/ VerifyEnds \/ RefreshEnds
       \/ ListIdentities \/ GetIdentity \/ SignInInquires \/ SignOut \/ Renew
    /\ Marked
    /\ hidden' = hidden \cap table'
    /\ UNCHANGED <<running, exports, enabled, disabled, adding, temporary, prompt, request,
                   excused, orphaned>>

Dispatch ==
    \E e \in {inbox[i] : i \in 1 .. Len(inbox)} :
        \/ OnAdded(e) \/ OnRemoved(e) \/ OnRefreshed(e) \/ OnExpired(e) \/ OnListed(e)
        \/ OnGot(e) \/ OnSignedOut(e) \/ OnSignedIn(e) \/ OnInquiry(e) \/ OnAccountAdded(e)

Outside ==
    /\ \/ CursorFails
       \/ \E p \in Principals : CacheChanges(p) \/ TicketExpires(p)
    /\ UNCHANGED serviceVars

Monitor == NotifyHandled /\ UNCHANGED serviceVars

User == \E p \in Principals :
    \/ UserAdds(p) \/ UserRemoves(p) \/ UserDisables(p) \/ UserEnables(p)
    \/ RenewalDue(p)
    \/ \E c \in Calls : SignInCalled(c, p) \/ SignOutCalled(c, p)

Next == \/ Thread \/ SignInEnds \/ Dispatch \/ Monitor \/ Outside \/ User
        \/ PromptOpened \/ PromptAnswered
        \/ \E p \in Principals : AccountAdded(p)

Spec == Init /\ [][Next]_vars

\* The thread and the main loop run, and users answer the prompts they see.
Fairness == /\ WF_vars(Thread \/ SignInEnds) /\ WF_vars(Dispatch) /\ WF_vars(Monitor)
            /\ WF_vars(PromptOpened) /\ WF_vars(PromptAnswered)

-----------------------------------------------------------------------------
(* Properties. *)

\* Nothing is left to do, and the last enumeration of caches did not break off:
\* after one that did, the next change of a cache puts things right.
AtRest == /\ ~notify /\ queue = <<>> /\ pool = IdlePool /\ inbox = <<>> /\ adding = {}
          /\ running /\ ~failed

\* Whatever caches did while they were being enumerated, and in whatever order
\* refreshes were requested, skipped and run, at rest the manager has exactly
\* the identities that have a cache, knows who is signed in, and the bus shows
\* the same identities, but for one: an identity that a sign-in found signed in
\* already, before any refresh did, and whose prompt the user cancelled, is
\* known to the manager and stays off the bus until it is signed in again.
ServiceFollowsCaches ==
    AtRest =>
        /\ table = {p \in Principals : cache[p] # "none"}
        /\ level = cache
        /\ exports \subseteq table /\ table \ exports \subseteq hidden

\* At rest whoever is signed in has an account, or had one that the daemon
\* refused or the user removed: signing out again is up to who removes it.
SignedInHasAccount ==
    AtRest => \A p \in table \ orphaned : level[p] = "live" => Accounts(p) > 0

\* The signals of one refresh, and of several, never make the service add two
\* accounts for one principal.  It happens when the user adds one meanwhile,
\* and when the service starts and finds an account without ticketing.
OneAccountPerPrincipal ==
    \A p \in Principals \ excused :
        Accounts(p) + Cardinality(adding \cap {p}) <= 1

\* At rest the daemon has been asked to check the account of every identity
\* that was signed in or out since the service listed the identities.
AccountsChecked ==
    AtRest => \A p \in unchecked : enabled[p] = 0

\* Every SignIn and SignOut is answered, if the user answers and no prompt is
\* lost; a lost prompt blocks the thread for good.
EveryCallAnswered ==
    \A c \in Calls : request[c] = "pending" ~> (request[c] # "pending" \/ prompt = "lost")
=============================================================================
