--------------------------- MODULE NextcloudSetup ---------------------------
(***************************************************************************)
(* The dialogs of the Nextcloud provider: a short while after the address  *)
(* was last changed its server is asked for a login; the dialog then opens *)
(* the page of that login in a browser and polls the server until the user *)
(* is through with it (Login Flow v2).                                     *)
(*                                                                         *)
(* A login stands for the address of a server.                             *)
(***************************************************************************)
EXTENDS ProviderDialog

CONSTANTS
    Users       \* who may be logged in at a server

VARIABLES
    address,    \* the entry: an address, or None for text that is none
    timer,      \* discovery_id is set
    query,      \* the query that discover belongs to: [login, accept], or None
    loginInfo,  \* the address whose server gave the login, or None
    acceptSsl,  \* accept_ssl_errors
    identity    \* refresh_account: the user of the account

nextcloudVars == <<address, timer, query, loginInfo, acceptSsl, identity>>

NextcloudOff ==
    /\ address = None /\ timer = FALSE /\ query = None /\ loginInfo = None
    /\ acceptSsl = FALSE /\ identity = None

\* Filling in the address of an account is a change of it, which forgets
\* whether its certificate is accepted.
NextcloudInit ==
    /\ provider = "nextcloud" /\ DialogInit(IDLE)
    /\ \/ kind = "add" /\ NextcloudOff
       \/ /\ kind = "refresh" /\ address \in Logins /\ timer = TRUE /\ identity \in Users
          /\ query = None /\ loginInfo = None /\ acceptSsl = FALSE

\* Mutant: the answer to a query for the address before still counts.
EditAddress_KeepsQuery ==
    /\ kind = "add" /\ Edit
    /\ \E l \in Logins \cup {None} : l # address /\ address' = l
    /\ dialog' = SetState(dialog, IDLE)
    /\ acceptSsl' = FALSE /\ timer' = TRUE
    /\ UNCHANGED <<query, loginInfo, identity>>

\* on_entry_changed: a query under way is cancelled, but not what the last one
\* has brought.
EditAddress ==
    /\ kind = "add" /\ Edit
    /\ \E l \in Logins \cup {None} : l # address /\ address' = l
    /\ dialog' = SetState(dialog, IDLE)
    /\ query' = None /\ acceptSsl' = FALSE /\ timer' = TRUE
    /\ UNCHANGED <<loginInfo, identity>>

\* loginflow2_query, and goa_loginflow2_query.
StartQuery ==
    query' = IF address = None THEN query ELSE [login |-> address, accept |-> acceptSsl]

TimerFires ==
    /\ dialog.open /\ timer /\ timer' = FALSE
    /\ StartQuery
    /\ UNCHANGED <<dialogVars, address, loginInfo, acceptSsl, identity>>

\* loginflow2_query_cb.  A certificate that was refused comes as an error of the
\* connection, not as the one that would have it accepted the next time.
QueryAnswers ==
    /\ dialog.open /\ query # None /\ query' = None
    /\ \/ dialog' = SetState(dialog, READY) /\ loginInfo' = query.login
       \/ dialog' = SetState(dialog, IDLE) /\ UNCHANGED loginInfo
    /\ UNCHANGED <<provider, kind, op, accepted, saved, edits, tries>>
    /\ UNCHANGED <<address, timer, acceptSsl, identity>>

\* add_account_action_cb, refresh_account_action_cb, goa_loginflow2_authenticate;
\* from the button, which opens the browser, or with the address copied, when
\* there is nothing to open.
SignIn ==
    /\ Activate
    /\ \E at \in {"launch", "poll"} :
          op' = [at |-> at, login |-> loginInfo, accept |-> acceptSsl]
    /\ dialog' = SetState(dialog, BUSY)
    /\ UNCHANGED nextcloudVars

\* Where the two dialogs differ: an error ends the one, the other is told of it.
LoginFails ==
    /\ dialog' = IF kind = "add" THEN ReturnInDialog(dialog, "error") ELSE ReportError(dialog)
    /\ op' = None /\ UNCHANGED <<accepted, saved>>

\* loginflow2_launch_uri_cb.
LaunchAnswers ==
    /\ Answers("launch")
    /\ \/ op' = [op EXCEPT !.at = "poll"] /\ UNCHANGED <<dialog, accepted, saved>>
       \/ LoginFails
    /\ UNCHANGED nextcloudVars

\* add_account_loginflow2_cb, refresh_account_loginflow2_cb, for the server and
\* the user that the answer names.  The account is made for that server, which
\* need not be the one that was asked; the password of an account is stored
\* whatever server is named.
LoggedIn(server, user) ==
    /\ accepted' = {[asked |-> op.login, server |-> server, user |-> user]}
    /\ IF kind = "add"
       THEN AddAccount([asked |-> op.login, server |-> server, user |-> user])
       ELSE IF user # identity
       THEN dialog' = ReturnBehindDialog(dialog, "error") /\ op' = None /\ UNCHANGED saved
       ELSE StorePassword([asked |-> op.login, server |-> address, user |-> identity])

\* loginflow2_poll_cb, and loginflow2_poll_timeout_cb, which asks again as long
\* as the server has no answer.
PollAnswers ==
    /\ Answers("poll")
    /\ (\E server \in Logins, user \in Users : LoggedIn(server, user)) \/ LoginFails
    /\ UNCHANGED nextcloudVars

\* loginflow2_cancelled_cb, when the dialog is done, and add_account_data_free.
NextcloudClose ==
    /\ Close
    /\ query' = None /\ timer' = FALSE
    /\ UNCHANGED <<address, loginInfo, acceptSsl, identity>>

\* Servers answer and the daemon does.
NextcloudAnswers ==
    /\ provider = "nextcloud"
    /\ \/ TimerFires \/ QueryAnswers \/ LaunchAnswers \/ PollAnswers
       \/ AddAnswers /\ UNCHANGED nextcloudVars
       \/ EnsureAnswers /\ UNCHANGED nextcloudVars

NextcloudNext ==
    \/ provider = "nextcloud" /\ (EditAddress \/ SignIn \/ NextcloudClose)
    \/ NextcloudAnswers

-----------------------------------------------------------------------------

\* The login that the browser is sent to is that of the address in the dialog,
\* whatever was typed there before and however late the answers to it come, and
\* what is stored is what came of that login: the server and the user that the
\* answer named, or the password of the user of the account.  That the server
\* named is the one at the address is not claimed, as the code does not compare
\* them.
NextcloudSavedWasAccepted ==
    provider = "nextcloud" =>
        /\ dialog.open /\ dialog.state \in {READY, BUSY} => loginInfo = address
        /\ saved # None =>
              /\ saved.asked = address
              /\ kind = "add" => saved \in accepted
              /\ kind = "refresh" =>
                    saved.user = identity /\ \E l \in accepted : l.user = identity
=============================================================================
