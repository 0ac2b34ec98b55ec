---------------------------- MODULE BrowserSetup ----------------------------
(***************************************************************************)
(* The dialogs of the providers that use OAuth 2.0: a page of the service  *)
(* is opened in a browser, and what the user decides there comes back as a *)
(* call of an object that the dialog has registered under a name it owns   *)
(* on the session bus (GoaOAuth2Provider.authorize_uri).                   *)
(*                                                                         *)
(* The requests made with the code that came back run on the main loop:    *)
(* nothing happens during them.                                            *)
(***************************************************************************)
EXTENDS ProviderDialog

CONSTANTS
    Users

VARIABLES
    expected,   \* refresh_account: the identity of the account
    copied,     \* DO_NOT_LAUNCH_URI: the address was copied once
    name,       \* OAUTH2_DBUS_HANDLER_NAME: "none", "requested" or "owned"
    object,     \* the object is registered
    launching,  \* a launch of the browser has not answered
    result      \* what the authorisation returned: None, "error" or who signed in

browserVars == <<expected, copied, name, object, launching, result>>

BrowserOff ==
    /\ expected = None /\ copied = FALSE /\ name = "none"
    /\ object = FALSE /\ launching = FALSE /\ result = None

\* create_account_details_ui has no entries, only the button.
BrowserInit ==
    /\ provider = "oauth2" /\ DialogInit(READY)
    /\ \/ kind = "add" /\ BrowserOff
       \/ /\ kind = "refresh" /\ expected \in Users
          /\ copied = FALSE /\ name = "none" /\ object = FALSE /\ launching = FALSE /\ result = None

\* add_account_action_cb, refresh_account_action_cb; goa_oauth2_provider_authorize_uri.
SignIn ==
    /\ Activate
    /\ dialog' = SetState(dialog, BUSY)
    /\ copied' \in {TRUE, copied}
    /\ op' = [at |-> "authorize"] /\ result' = None
    /\ name' = "requested"
    /\ UNCHANGED <<expected, object, launching>>

\* Mutant: the name on the bus is kept.
Complete_KeepsName(r) ==
    /\ result' = IF result = None THEN r ELSE result
    /\ object' = FALSE /\ UNCHANGED name

\* authorize_uri_task_complete, and the return that follows it.  A task returns
\* once.
Complete(r) ==
    /\ result' = IF result = None THEN r ELSE result
    /\ name' = "none" /\ object' = FALSE

\* on_oauth2_bus_acquired.
BusAcquired ==
    /\ Answers("authorize") /\ name = "requested" /\ ~object
    /\ \/ object' = TRUE /\ UNCHANGED <<name, result>>
       \/ Complete("error")
    /\ UNCHANGED <<dialog, op, accepted, saved, expected, copied, launching>>

\* on_oauth2_name_acquired.
NameAcquired ==
    /\ Answers("authorize") /\ name = "requested" /\ object
    /\ name' = "owned" /\ launching' = ~copied
    /\ UNCHANGED <<dialog, op, accepted, saved, expected, copied, object, result>>

\* on_oauth2_name_lost: somebody has the name, or there is no bus any more.
NameLost ==
    /\ Answers("authorize") /\ name # "none"
    /\ Complete("error")
    /\ UNCHANGED <<dialog, op, accepted, saved, expected, copied, launching>>

\* oauth2_handler_dbus_method_call.
Response ==
    /\ Answers("authorize") /\ object
    /\ \E r \in Users \cup {"error"} : Complete(r)
    /\ UNCHANGED <<dialog, op, accepted, saved, expected, copied, launching>>

\* authorize_uri_launch_uri_cb.
LaunchAnswers ==
    /\ Answers("authorize") /\ launching
    /\ launching' = FALSE
    /\ Complete("error") \/ UNCHANGED <<name, object, result>>
    /\ UNCHANGED <<dialog, op, accepted, saved, expected, copied>>

\* add_account_authorize_uri_cb, refresh_account_authorize_uri_cb: the response
\* may be a refusal, it may be no use at the service, and who it is for is what
\* the service says.
SignedIn(user) ==
    /\ accepted' = {user}
    /\ IF kind = "add"
       THEN IF Duplicate(user)
            THEN dialog' = ReturnInDialog(dialog, "error") /\ op' = None /\ UNCHANGED saved
            ELSE AddAccount(user)
       ELSE IF user # expected
       THEN dialog' = ReturnBehindDialog(dialog, "error") /\ op' = None /\ UNCHANGED saved
       ELSE StorePassword(expected)

NotSignedIn ==
    /\ dialog' = ReturnInDialog(dialog, "error") /\ op' = None
    /\ UNCHANGED <<accepted, saved>>

AuthorizeAnswers ==
    /\ Answers("authorize") /\ result # None
    /\ \/ result \in Users /\ SignedIn(result)
       \/ NotSignedIn
    /\ UNCHANGED browserVars

\* A dialog that is closed is done, which cancels the authorisation.
BrowserClose ==
    /\ Close
    /\ IF op # None /\ op.at = "authorize" THEN Complete("error") ELSE UNCHANGED <<name, object, result>>
    /\ UNCHANGED <<expected, copied, launching>>

BrowserAnswers ==
    /\ provider = "oauth2"
    /\ \/ BusAcquired \/ NameAcquired \/ NameLost \/ Response \/ LaunchAnswers \/ AuthorizeAnswers
       \/ AddAnswers /\ UNCHANGED browserVars
       \/ EnsureAnswers /\ UNCHANGED browserVars

BrowserNext ==
    \/ provider = "oauth2" /\ (SignIn \/ BrowserClose)
    \/ BrowserAnswers

-----------------------------------------------------------------------------

\* The account added, or the one whose credentials were replaced, is that of the
\* user who signed in at the service.
BrowserSavedWasAccepted ==
    provider = "oauth2" /\ saved # None =>
        /\ saved \in accepted
        /\ kind = "refresh" => saved = expected

\* The name on the bus is given up with the authorisation it was taken for, or
\* nobody could sign in any more.
NameReleased ==
    provider = "oauth2" /\ name # "none" =>
        dialog.open /\ dialog.state = BUSY /\ op # None /\ op.at = "authorize"
=============================================================================
