--------------------------- MODULE ExchangeSetup ---------------------------
(***************************************************************************)
(* The dialogs of the Exchange provider, with the two autodiscover         *)
(* requests that GoaEwsClient runs at once for each sign-in.               *)
(*                                                                         *)
(* A login stands for an email address and the user name and the server    *)
(* that belong to it.  A sign-in that starts while another is under way    *)
(* lets go of the task twice; as this is undefined, it is left out.        *)
(***************************************************************************)
EXTENDS ProviderDialog

CONSTANTS
    Urls,       \* of a server: with and without "autodiscover."
    Passwords

VARIABLES
    account,    \* refresh_account: [login, accept] of the object, or None
    entered,    \* [login, password]
    ignoring,   \* accept_ssl_errors
    requests,   \* per url, see Pending
    failure,    \* the error of the autodiscovery so far, or None
    held        \* somebody still holds the task of the dialog

exchangeVars == <<account, entered, ignoring, requests, failure, held>>

ExchangeOff ==
    /\ account = None
    /\ entered = [login |-> None, password |-> None]
    /\ ignoring = FALSE
    /\ requests = [u \in Urls |-> "idle"]
    /\ failure = None
    /\ held = TRUE

\* The dialog of refresh_account is as empty as that of add_account.
ExchangeInit ==
    /\ provider = "exchange" /\ DialogInit(IDLE)
    /\ \/ kind = "add" /\ ExchangeOff
       \/ /\ kind = "refresh"
          /\ account \in [login : Logins, accept : BOOLEAN]
          /\ entered = [login |-> None, password |-> None]
          /\ ignoring = FALSE /\ failure = None /\ held = TRUE
          /\ requests = [u \in Urls |-> "idle"]

\* A request is "sent" until the headers of its answer are there, and "reading"
\* until the body is; "cancelled" as soon as it can only end as that; and "over"
\* when its answer was counted.  One that is "lost" has answered and is never
\* counted.
Pending == {u \in Urls : requests[u] \notin {"idle", "over"}}

Complete(e) == IF e.login # None /\ e.password # None THEN READY ELSE IDLE

\* on_username_or_server_changed, on_email_or_password_changed.
EditEntry ==
    /\ Edit
    /\ \E l \in Logins \cup {None}, p \in Passwords \cup {None} :
          /\ entered # [login |-> l, password |-> p]
          /\ entered' = [login |-> l, password |-> p]
    /\ dialog' = SetState(dialog, Complete(entered'))
    /\ ignoring' = FALSE
    /\ UNCHANGED <<account, requests, failure, held>>

\* goa_ews_client_autodiscover.
Autodiscover(login, accept) ==
    /\ op' = [at |-> "autodiscover", login |-> login, password |-> entered.password,
              accept |-> accept]
    /\ requests' = [u \in Urls |-> "sent"] /\ failure' = None

\* add_account_action_cb.
AddSignIn ==
    /\ kind = "add" /\ Activate
    /\ IF Duplicate(entered.login)
       THEN /\ dialog' = ReturnInDialog(SetState(dialog, BUSY), "error")
            /\ UNCHANGED <<op, requests, failure>>
       ELSE dialog' = SetState(dialog, BUSY) /\ Autodiscover(entered.login, ignoring)
    /\ UNCHANGED <<account, entered, ignoring, held>>

\* refresh_account_action_cb puts the address of the account into its entry,
\* whose handlers make the dialog ready when that is a change.  It takes the
\* reference to the task that belongs to the dialog; once it has gone with the
\* callback this handler is gone too.
RefreshSignIn ==
    /\ kind = "refresh" /\ op = None /\ Activate
    /\ IF held
       THEN /\ entered' = [entered EXCEPT !.login = account.login]
            /\ dialog' = SetState(dialog, IF entered.login = account.login THEN BUSY ELSE READY)
            /\ Autodiscover(account.login, account.accept)
       ELSE dialog' = SetState(dialog, BUSY) /\ UNCHANGED <<entered, op, requests, failure>>
    /\ UNCHANGED <<account, ignoring, held>>

Entered == [login |-> entered.login, password |-> entered.password, accept |-> ignoring]
Sent == [login |-> op.login, password |-> op.password, accept |-> op.accept]

\* What becomes of the requests when those in these states are cancelled.
Cancel(states) == [v \in Urls |-> IF requests[v] \in states THEN "cancelled" ELSE requests[v]]

\* The headers of the answer are there.
Headers(u) ==
    /\ requests[u] = "sent"
    /\ requests' = [requests EXCEPT ![u] = "reading"]
    /\ UNCHANGED <<failure, accepted>>

\* ews_client_accept_certificate: aborting the session ends the requests that
\* wait for headers, the refused one among them, but not the reading of a body,
\* which has only req_cancellable to be cancelled by.
CertificateRefused(u) ==
    /\ requests[u] = "sent" /\ ~op.accept /\ failure = None
    /\ failure' = "ssl" /\ requests' = Cancel({"sent"})
    /\ UNCHANGED accepted

\* ews_client_autodiscover_response_cb for a server that knows the user: the
\* other request is cancelled, wherever it is.
Succeeds(u) ==
    /\ requests[u] = "reading"
    /\ requests' = [Cancel({"sent", "reading"}) EXCEPT ![u] = "over"]
    /\ accepted' = {Sent}
    /\ UNCHANGED failure

\* The error of the last request to answer counts, if there is none before it.
Over(u, e) ==
    /\ requests' = [requests EXCEPT ![u] = "over"]
    /\ failure' = IF Pending = {u} /\ failure = None THEN e ELSE failure
    /\ UNCHANGED accepted

\* ... for a document without an ASUrl.
RequestUseless(u) == requests[u] = "reading" /\ Over(u, "failed")

\* ... for an error of the connection or of the server.  The callback returns
\* before it counts the answer when there is an error already.
RequestFails(u) ==
    /\ requests[u] \in {"sent", "reading"}
    /\ IF failure = None
       THEN Over(u, "failed")
       ELSE requests' = [requests EXCEPT ![u] = "lost"] /\ UNCHANGED <<failure, accepted>>

\* ... for a request that was cancelled.
RequestCancelled(u) == requests[u] = "cancelled" /\ Over(u, "cancelled")

RequestAnswers ==
    /\ Answers("autodiscover")
    /\ \E u \in Urls : \/ Headers(u) \/ CertificateRefused(u)
                      \/ Succeeds(u) \/ RequestUseless(u)
                      \/ RequestFails(u) \/ RequestCancelled(u)
    /\ UNCHANGED <<dialog, op, saved, account, entered, ignoring, held>>

\* ews_client_autodiscover_complete_idle_cb, then add_account_autodiscover_cb or
\* refresh_account_autodiscover_cb, which lets go of the reference it was given
\* unless it hands it on.
Autodiscovered ==
    /\ Answers("autodiscover")
    /\ Pending = {}
    /\ IF failure = None
       THEN /\ UNCHANGED <<accepted, ignoring>>
            /\ IF kind = "add" THEN AddAccount(Entered) ELSE StorePassword(Entered)
       ELSE Fails /\ ignoring' = (failure = "ssl")
    /\ held' = (kind = "add" \/ (failure = None /\ op' # None))
    /\ UNCHANGED <<account, entered, requests, failure>>

ExchangeEnsureAnswers ==
    /\ EnsureAnswers
    /\ held' = FALSE
    /\ UNCHANGED <<account, entered, ignoring, requests, failure>>

\* With the task gone, closing the dialog is undefined.
ExchangeClose == held /\ Close /\ UNCHANGED exchangeVars

ExchangeNext ==
    /\ provider = "exchange"
    /\ \/ EditEntry \/ AddSignIn \/ RefreshSignIn
       \/ RequestAnswers \/ Autodiscovered
       \/ AddAnswers /\ UNCHANGED exchangeVars
       \/ ExchangeEnsureAnswers
       \/ ExchangeClose

\* Requests end, and the daemon answers.
ExchangeAnswers ==
    /\ provider = "exchange"
    /\ \/ RequestAnswers \/ Autodiscovered \/ ExchangeEnsureAnswers
       \/ AddAnswers /\ UNCHANGED exchangeVars

-----------------------------------------------------------------------------

\* The account added is the one for which a request of this sign-in succeeded,
\* with the password and the setting for certificates the request was made with.
ExchangeSavedWasAccepted ==
    provider = "exchange" /\ kind = "add" /\ saved # None => saved \in accepted
=============================================================================
