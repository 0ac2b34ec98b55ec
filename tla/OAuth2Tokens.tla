---------------------------- MODULE OAuth2Tokens ----------------------------
(***************************************************************************)
(* The tokens of one OAuth2 account: goa_oauth2_provider_get_access_token_ *)
(* sync, which GetAccessToken calls and the daemon's credential check run  *)
(* in threads of the daemon, the sign-in that Settings runs in a process   *)
(* of its own, the keyring entry both write, and the service that issues   *)
(* and rotates refresh tokens.                                             *)
(*                                                                         *)
(* The account may leave the bus and come back as another GoaObject; the   *)
(* mutex that serialises refreshes belongs to the object, the keyring      *)
(* entry to the account id.                                                *)
(***************************************************************************)
EXTENDS Integers, FiniteSets

CONSTANTS
    Objects,   \* the GoaObjects the account has, one after the other
    Clients,   \* GetAccessToken calls: a thread each, without a cancellable
    Check,     \* the daemon's credential check: one thread, with a cancellable
    None,
    MaxToken   \* bound: the service issues so many refresh tokens

ASSUME TokenAssumption == MaxToken \in Nat \ {0}
ASSUME CallerAssumption == /\ None \notin Clients \cup {Check} \cup Objects
                           /\ Check \notin Clients

Callers == Clients \cup {Check}
NoToken == 0                      \* no refresh token
Token == 0 .. MaxToken            \* numbered in the order they are issued

VARIABLES
    exported,  \* the GoaObject on the bus, or None
    removal,   \* how far Remove is; the account does not come back from it
    keyring,   \* None, or the refresh token and whether the access token
               \* has more than ten minutes of life left
    valid,     \* the refresh tokens the service accepts
    issued,    \* the refresh token issued last
    lock,      \* per object: the thread that holds its mutex, or None
    call,      \* per caller: where goa_oauth2_provider_get_access_token_sync is
    signin,    \* where Settings' goa_oauth2_provider_refresh_account is
    spoiled,   \* history: the keyring lost the token by one of the known ways
    leftover   \* history: after Remove somebody may still store tokens

vars == <<exported, removal, keyring, valid, issued, lock, call, signin, spoiled, leftover>>

Entry == [refresh : Token, fresh : BOOLEAN]
ASSUME EntryAssumption == None \notin Entry

Call == [pc : {"idle", "waiting", "locked", "asking", "granted", "refused"},
         object : Objects \cup {None},
         held : Token,           \* old_refresh_token
         got : Token,            \* refresh_token of the response
         cancelled : BOOLEAN,
         overtaken : BOOLEAN]    \* history: others wrote the keyring meanwhile

Idle == [pc |-> "idle", object |-> None, held |-> NoToken, got |-> NoToken,
         cancelled |-> FALSE, overtaken |-> FALSE]

InRequest(c) == call[c].pc \in {"asking", "granted", "refused"}
Working(c) == call[c].pc = "locked" \/ InRequest(c)

\* The service has replaced the token of the keyring and only c knows the new one.
OnlyCopy(c) ==
    /\ call[c].pc = "granted" /\ call[c].got # NoToken
    /\ keyring # None /\ keyring.refresh = call[c].held /\ call[c].held \notin valid

\* on_account_handle_remove runs on the main loop and waits for the keyring.
MainLoopBusy == removal = "clearing"

Init ==
    /\ exported \in Objects
    /\ removal = "none"
    /\ keyring \in {[refresh |-> 1, fresh |-> f] : f \in BOOLEAN}
    /\ valid = {1} /\ issued = 1
    /\ lock = [o \in Objects |-> None]
    /\ call = [c \in Callers |-> Idle]
    /\ signin = [pc |-> "idle", token |-> NoToken]
    /\ spoiled = FALSE /\ leftover = FALSE

-----------------------------------------------------------------------------
(* goa_oauth2_provider_get_access_token_sync, in the thread of caller c. *)

\* on_handle_get_access_token, or the daemon's queue starting a check.
Begin(c) ==
    /\ call[c].pc = "idle" /\ exported # None
    /\ c = Check => ~MainLoopBusy
    /\ call' = [call EXCEPT ![c] = [Idle EXCEPT !.pc = "waiting", !.object = exported]]
    /\ UNCHANGED <<exported, removal, keyring, valid, issued, lock, signin, spoiled, leftover>>

\* Mutant: a mutex that was created twice lets two threads in.
Lock_Shared(c) ==
    /\ call[c].pc = "waiting"
    /\ lock' = [lock EXCEPT ![call[c].object] = c]
    /\ call' = [call EXCEPT ![c].pc = "locked"]
    /\ UNCHANGED <<exported, removal, keyring, valid, issued, signin, spoiled, leftover>>

\* g_mutex_lock, which no cancellable ends.
Lock(c) ==
    /\ call[c].pc = "waiting" /\ lock[call[c].object] = None
    /\ lock' = [lock EXCEPT ![call[c].object] = c]
    /\ call' = [call EXCEPT ![c].pc = "locked"]
    /\ UNCHANGED <<exported, removal, keyring, valid, issued, signin, spoiled, leftover>>

\* The label "out": the mutex is released and the caller answered.
Return(c) ==
    /\ call' = [call EXCEPT ![c] = Idle]
    /\ lock' = [lock EXCEPT ![call[c].object] = None]

\* goa_utils_lookup_credentials_sync fails, because the keyring does or
\* because the check was cancelled: either is reported as NOT_AUTHORIZED.
LookupFails(c) ==
    /\ call[c].pc = "locked"
    /\ Return(c)
    /\ UNCHANGED <<exported, removal, keyring, valid, issued, signin, spoiled, leftover>>

\* What the keyring holds ends the call: nothing (NOT_AUTHORIZED), a token that
\* cannot be refreshed, or one that is still fresh.
LookupAnswers(c) ==
    /\ call[c].pc = "locked" /\ ~call[c].cancelled
    /\ keyring # None => keyring.refresh = NoToken \/ keyring.fresh
    /\ Return(c)
    /\ UNCHANGED <<exported, removal, keyring, valid, issued, signin, spoiled, leftover>>

\* get_tokens_sync posts the refresh token.
LookupAsks(c) ==
    /\ call[c].pc = "locked" /\ ~call[c].cancelled
    /\ keyring # None /\ keyring.refresh # NoToken /\ ~keyring.fresh
    /\ call' = [call EXCEPT ![c].pc = "asking", ![c].held = keyring.refresh]
    /\ UNCHANGED <<exported, removal, keyring, valid, issued, lock, signin, spoiled, leftover>>

\* Mutant: the error path returns without passing through "out".
RequestFails_KeepsLock(c) ==
    /\ InRequest(c)
    /\ call' = [call EXCEPT ![c] = Idle]
    /\ spoiled' = (spoiled \/ OnlyCopy(c))
    /\ UNCHANGED <<exported, removal, keyring, valid, issued, lock, signin, leftover>>

\* get_tokens_sync fails for another reason than a refused grant: no network,
\* a status or a body it does not know, or the check was cancelled.  The
\* service may have handled the request.  The caller gets FAILED.
RequestFails(c) ==
    /\ InRequest(c)
    /\ Return(c)
    /\ spoiled' = (spoiled \/ OnlyCopy(c))
    /\ UNCHANGED <<exported, removal, keyring, valid, issued, signin, leftover>>

\* invalid_grant and invalid_client become NOT_AUTHORIZED.
RequestRefused(c) ==
    /\ call[c].pc = "refused" /\ ~call[c].cancelled
    /\ Return(c)
    /\ UNCHANGED <<exported, removal, keyring, valid, issued, signin, spoiled, leftover>>

\* Mutant: a response without refresh token erases the one in the keyring.
NewEntry_DropsOld(c, f) == [refresh |-> call[c].got, fresh |-> f]

\* "It's not a sure thing we get a new refresh_token", so the old one is kept;
\* f says whether the response had an expires_in of more than ten minutes.
NewEntry(c, f) ==
    [refresh |-> IF call[c].got = NoToken THEN call[c].held ELSE call[c].got, fresh |-> f]

\* The new tokens are stored under the id, whatever became of the account.
StoreCredentials(c) ==
    /\ call[c].pc = "granted" /\ ~call[c].cancelled
    /\ \E f \in BOOLEAN : keyring' = NewEntry(c, f)
    /\ call' = [d \in Callers |->
                  IF d = c THEN Idle
                  ELSE IF InRequest(d) /\ call[d].object # call[c].object
                       THEN [call[d] EXCEPT !.overtaken = TRUE] ELSE call[d]]
    /\ lock' = [lock EXCEPT ![call[c].object] = None]
    /\ spoiled' = (spoiled \/ call[c].overtaken)
    /\ UNCHANGED <<exported, removal, valid, issued, signin, leftover>>

\* The keyring refuses them, or the check was cancelled: NOT_AUTHORIZED.
StoreFails(c) ==
    /\ call[c].pc = "granted"
    /\ Return(c)
    /\ spoiled' = (spoiled \/ OnlyCopy(c))
    /\ UNCHANGED <<exported, removal, keyring, valid, issued, signin, leftover>>

\* ensure_credentials_timeout_cb.
CancelCheck ==
    /\ ~MainLoopBusy
    /\ call[Check].pc # "idle" /\ ~call[Check].cancelled
    /\ call' = [call EXCEPT ![Check].cancelled = TRUE]
    /\ UNCHANGED <<exported, removal, keyring, valid, issued, lock, signin, spoiled, leftover>>

-----------------------------------------------------------------------------
(* The service.  It hands out no new refresh token, or a new one that may  *)
(* replace the old.                                                        *)

Grant(c) ==
    /\ call[c].pc = "asking" /\ call[c].held \in valid
    /\ \/ /\ call' = [call EXCEPT ![c].pc = "granted"]
          /\ UNCHANGED <<valid, issued>>
       \/ /\ issued < MaxToken
          /\ issued' = issued + 1
          /\ valid' \in {valid \cup {issued'}, (valid \ {call[c].held}) \cup {issued'}}
          /\ call' = [call EXCEPT ![c].pc = "granted", ![c].got = issued']
    /\ UNCHANGED <<exported, removal, keyring, lock, signin, spoiled, leftover>>

Refuse(c) ==
    /\ call[c].pc = "asking" /\ call[c].held \notin valid
    /\ call' = [call EXCEPT ![c].pc = "refused"]
    /\ UNCHANGED <<exported, removal, keyring, valid, issued, lock, signin, spoiled, leftover>>

\* The user revokes the access of the desktop, or the service does.
Revoke ==
    /\ valid # {} /\ valid' = {} /\ spoiled' = TRUE
    /\ UNCHANGED <<exported, removal, keyring, issued, lock, call, signin, leftover>>

AccessTokenAges ==
    /\ keyring # None /\ keyring.fresh
    /\ keyring' = [keyring EXCEPT !.fresh = FALSE]
    /\ UNCHANGED <<exported, removal, valid, issued, lock, call, signin, spoiled, leftover>>

-----------------------------------------------------------------------------
(* Settings: goa_oauth2_provider_refresh_account.                          *)

\* The dialog opens for an account on the bus, which it never looks for again.
\* In it the user goes on to the sign-in page of the service.
OpenDialog ==
    /\ signin.pc = "idle" /\ exported # None
    /\ signin' = [pc |-> "open", token |-> NoToken]
    /\ leftover' = (leftover \/ removal = "cleared")
    /\ UNCHANGED <<exported, removal, keyring, valid, issued, lock, call, spoiled>>

\* identity_from_auth: the authorization code is exchanged for tokens.  The
\* service may send no refresh token, and may end the grants it gave before.
Exchange ==
    /\ signin.pc = "open"
    /\ \E others \in {valid, {}} :
          \/ /\ valid' = others /\ UNCHANGED issued
             /\ signin' = [pc |-> "storing", token |-> NoToken]
          \/ /\ issued < MaxToken /\ issued' = issued + 1
             /\ valid' = others \cup {issued'}
             /\ signin' = [pc |-> "storing", token |-> issued']
    /\ UNCHANGED <<exported, removal, keyring, lock, call, spoiled, leftover>>

\* The user or the service declines, the dialog is closed, another identity
\* signed in, or the keyring refuses the credentials.
SignInFails ==
    /\ signin.pc # "idle"
    /\ signin' = [pc |-> "idle", token |-> NoToken]
    /\ spoiled' = (spoiled \/ signin.pc = "storing")
    /\ UNCHANGED <<exported, removal, keyring, valid, issued, lock, call, leftover>>

\* refresh_account_authorize_uri_cb stores the credentials under the id and
\* calls EnsureCredentials, which may start the check (Begin) at any time.
SignInStores ==
    /\ signin.pc = "storing"
    /\ keyring' = [refresh |-> signin.token, fresh |-> TRUE]
    /\ spoiled' = (signin.token \notin valid)
    /\ call' = [c \in Callers |->
                  IF InRequest(c) THEN [call[c] EXCEPT !.overtaken = TRUE] ELSE call[c]]
    /\ signin' = [pc |-> "idle", token |-> NoToken]
    /\ UNCHANGED <<exported, removal, valid, issued, lock, leftover>>

-----------------------------------------------------------------------------
(* The account and the daemon.                                             *)

\* A reload takes the object off the bus, and puts another one on it.  After
\* Remove it is that of remove_account_cb, or, where the keyring refused, that
\* of the file monitor.
Unexport ==
    /\ ~MainLoopBusy
    /\ exported # None /\ exported' = None
    /\ UNCHANGED <<removal, keyring, valid, issued, lock, call, signin, spoiled, leftover>>

Export(o) ==
    /\ exported = None /\ removal = "none"
    /\ \A c \in Callers : call[c].object # o
    /\ exported' = o
    /\ UNCHANGED <<removal, keyring, valid, issued, lock, call, signin, spoiled, leftover>>

\* on_account_handle_remove: the file is saved without the account.
Remove ==
    /\ exported # None /\ removal = "none"
    /\ removal' = "clearing"
    /\ UNCHANGED <<exported, keyring, valid, issued, lock, call, signin, spoiled, leftover>>

\* Mutant: the secrets of the removed account stay, and nobody is told.
RemoveClears_Not ==
    /\ removal = "clearing" /\ removal' = "cleared"
    /\ leftover' = (signin.pc # "idle" \/ \E c \in Callers : InRequest(c))
    /\ UNCHANGED <<exported, keyring, valid, issued, lock, call, signin, spoiled>>

\* Then the secrets are cleared, without the mutex; the object stays on the bus
\* until remove_account_cb.
RemoveClears ==
    /\ removal = "clearing" /\ removal' = "cleared"
    /\ keyring' = None
    /\ leftover' = (signin.pc # "idle" \/ \E c \in Callers : InRequest(c))
    /\ UNCHANGED <<exported, valid, issued, lock, call, signin, spoiled>>

\* The keyring refuses: Remove fails, and the account goes without its secrets.
RemoveRefused ==
    /\ removal = "clearing" /\ removal' = "refused"
    /\ UNCHANGED <<exported, keyring, valid, issued, lock, call, signin, spoiled, leftover>>

\* The daemon is killed: its threads, their answers and its mutexes are gone,
\* and so is an account the file no longer has.
Kill ==
    /\ removal = "clearing" \/ \E c \in Callers : call[c].pc # "idle"
    /\ exported' = IF removal = "none" THEN exported ELSE None
    /\ removal' = IF removal = "clearing" THEN "refused" ELSE removal
    /\ call' = [c \in Callers |-> Idle]
    /\ lock' = [o \in Objects |-> None]
    /\ spoiled' = (spoiled \/ \E c \in Callers : OnlyCopy(c))
    /\ UNCHANGED <<keyring, valid, issued, signin, leftover>>

-----------------------------------------------------------------------------

Answers(c) == Grant(c) \/ Refuse(c) \/ RequestFails(c)

Thread(c) == \/ Lock(c)
             \/ LookupFails(c) \/ LookupAnswers(c) \/ LookupAsks(c)
             \/ RequestRefused(c) \/ StoreCredentials(c) \/ StoreFails(c)

Next ==
    \/ \E c \in Callers : Begin(c) \/ Thread(c) \/ Answers(c)
    \/ CancelCheck
    \/ Revoke \/ AccessTokenAges
    \/ OpenDialog \/ Exchange \/ SignInFails \/ SignInStores
    \/ Unexport \/ \E o \in Objects : Export(o)
    \/ Remove \/ RemoveClears \/ RemoveRefused \/ Kill

Spec == Init /\ [][Next]_vars

\* Threads run, a mutex that is released again and again is acquired by each
\* of its waiters at last, and what a cancelled request waits for ends.
ThreadFairness ==
    /\ \A c \in Callers : SF_vars(Lock(c)) /\ WF_vars(Thread(c))
    /\ WF_vars(call[Check].cancelled /\ RequestFails(Check))

\* And the service, or the network in its place, answers every request.
AnsweringSpec == Spec /\ ThreadFairness /\ \A c \in Callers : WF_vars(Answers(c))

-----------------------------------------------------------------------------
(* Properties. *)

TypeOK ==
    /\ exported \in Objects \cup {None}
    /\ removal \in {"none", "clearing", "cleared", "refused"}
    /\ spoiled \in BOOLEAN /\ leftover \in BOOLEAN
    /\ keyring \in Entry \cup {None}
    /\ valid \subseteq Token
    /\ issued \in Token
    /\ lock \in [Objects -> Callers \cup {None}]
    /\ call \in [Callers -> Call]
    /\ signin \in [pc : {"idle", "open", "storing"}, token : Token]

\* The mutex of an object is held by exactly the thread that works for the
\* object, so that one object never has two requests at the service ("multiple
\* calls are serialized to avoid multiple outstanding requests").
OneRequestPerObject ==
    \A c \in Callers :
        /\ Working(c) <=> c \in {lock[o] : o \in Objects}
        /\ Working(c) => lock[call[c].object] = c

\* A refresh is refused only when the account really needs attention: the
\* keyring has no token the service would have accepted.  Two refreshes of a
\* rotated token would break it, for the slower one is refused.  Excepted are
\* calls during which Settings or a former object of the account stored tokens.
RefusalIsReal ==
    \A c \in Callers : call[c].pc = "refused" /\ ~call[c].overtaken /\ keyring # None
        => keyring.refresh \notin valid

\* Unless Remove has cleared it the keyring keeps a token that the service accepts, through rotations and
\* failures, unless the user revoked the access, the only copy of a new token
\* was lost on its way to the keyring (a lost response, a keyring that refuses,
\* a cancelled check, a kill), a sign-in brought no token or failed at its end,
\* or a refresh stored its tokens over those that a sign-in or a refresh of a
\* former object had stored since it read the keyring.
TokenKept ==
    (/\ ~spoiled /\ removal # "cleared"
     /\ signin.pc # "storing" /\ \A c \in Callers : ~OnlyCopy(c))
    => keyring # None /\ keyring.refresh \in valid

\* A Remove that cleared the keyring leaves no credentials behind, whoever was
\* waiting for the mutex then or called before the object left the bus.  Only a
\* refresh that was at the service, or a dialog of Settings opened before the
\* object left, puts them back, under an id no account has.
NothingAfterRemove == removal = "cleared" /\ ~leftover => keyring = None

\* Every call returns: whoever waits for the mutex gets it, as the service
\* answers the one who holds it.
EveryCallReturns == \A c \in Callers : call[c].pc # "idle" ~> call[c].pc = "idle"
=============================================================================
