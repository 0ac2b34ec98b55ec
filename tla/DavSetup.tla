------------------------------ MODULE DavSetup ------------------------------
(***************************************************************************)
(* The dialogs of the WebDAV provider: the services a server has are       *)
(* discovered, the addresses the user gave for files, calendar and         *)
(* contacts are then tried one after the other, and what comes of it is    *)
(* added as the account.                                                   *)
(*                                                                         *)
(* A login stands for the server, the user name and the password; how a    *)
(* server is asked is left to DavDiscovery.                                *)
(***************************************************************************)
EXTENDS ProviderDialog, FiniteSetsExt

CONSTANTS
    Found,      \* the address of a service that a server names
    Typed,      \* an address the user may type in,
    Malformed   \* and one that is none

VARIABLES
    login,      \* as entered
    uris,       \* per service: the address entered, or None
    ignoreSsl,  \* accept_ssl_errors
    progress,   \* [stage, found, check]: check_stage, the services, check_config
    template    \* refresh_account: the account has no user name yet

davVars == <<login, uris, ignoreSsl, progress, template>>

FILES == 1
CALENDAR == 2
CONTACTS == 3
Services == {FILES, CALENDAR, CONTACTS}
TICKETING == 4

Nothing == [s \in Services |-> None]

DavOff ==
    /\ login = None /\ uris = Nothing /\ ignoreSsl = FALSE
    /\ progress = [stage |-> 0, found |-> Nothing, check |-> None]
    /\ template = FALSE

DavInit ==
    /\ provider = "dav" /\ DialogInit(IDLE)
    /\ login = None /\ uris = Nothing
    /\ progress = [stage |-> 0, found |-> Nothing, check |-> None]
    /\ \/ kind = "add" /\ ignoreSsl = FALSE /\ template = FALSE
       \/ kind = "refresh" /\ ignoreSsl \in BOOLEAN /\ template \in BOOLEAN

\* on_uri_username_or_password_changed.
EditLogin ==
    /\ Edit
    /\ \E l \in Logins \cup {None} :
          /\ l # login /\ login' = l
          /\ dialog' = SetState(dialog, IF l = None THEN IDLE ELSE READY)
    /\ ignoreSsl' = FALSE
    /\ UNCHANGED <<uris, progress, template>>

\* The addresses of services have no handler.
EditUri ==
    /\ kind = "add" /\ Edit
    /\ \E s \in Services, u \in {Typed, Malformed, None} :
          u # uris[s] /\ uris' = [uris EXCEPT ![s] = u]
    /\ UNCHANGED <<dialog, login, ignoreSsl, progress, template>>

-----------------------------------------------------------------------------

\* goa_dav_client_discover, goa_dav_client_check.
Discover(uri) == [at |-> "discover", service |-> FILES, uri |-> uri, login |-> login, accept |-> ignoreSsl]
Check(service, uri) ==
    [at |-> "check", service |-> service, uri |-> uri, login |-> login, accept |-> ignoreSsl]

\* add_account_action_cb.  Where an earlier attempt of the dialog got to, and
\* what it left to be checked, is not reset.
AddSignIn ==
    /\ kind = "add" /\ Activate
    /\ IF Duplicate(login)
       THEN dialog' = ReturnInDialog(SetState(dialog, BUSY), "error") /\ UNCHANGED op
       ELSE dialog' = SetState(dialog, BUSY) /\ op' = Discover(None)
    /\ UNCHANGED davVars

\* The next stage with an address to try.
NextStage(stage) == Min({s \in Services : s > stage /\ uris[s] # None} \cup {TICKETING})
Passes(p, stage) == p.stage <= stage /\ stage < NextStage(p.stage)

\* add_account_handle_response: the services discovered, if any, are taken over
\* at the first stage, those for files also at the second; what was checked last
\* becomes the calendar, or else the contacts, once that stage is over.
HandleResponse(p, services) ==
    LET found == IF services = None THEN p.found
                 ELSE IF p.stage = 0 THEN services
                 ELSE IF Passes(p, FILES) THEN [p.found EXCEPT ![FILES] = services[FILES]]
                 ELSE p.found
        taken == {s \in {CALENDAR, CONTACTS} : p.check # None /\ Passes(p, s)}
    IN [stage |-> NextStage(p.stage),
        found |-> IF taken = {} THEN found ELSE [found EXCEPT ![Min(taken)] = p.check],
        check |-> IF taken = {} THEN p.check ELSE None]

\* add_account_credentials.
Account(found) ==
    [login |-> login, accept |-> ignoreSsl, uris |-> found]

\* What add_account_discover_cb and add_account_check_cb do next.
GoOn(p) ==
    IF p.stage = TICKETING
    THEN progress' = p /\ AddAccount(Account(p.found))
    ELSE IF uris[p.stage] = Malformed
    THEN progress' = p /\ dialog' = ReportError(dialog) /\ op' = None /\ UNCHANGED saved
    ELSE /\ progress' = [p EXCEPT !.check = uris[p.stage]]
         /\ op' = IF p.stage = FILES /\ op.at = "discover" THEN Discover(uris[p.stage])
                  ELSE Check(p.stage, uris[p.stage])
         /\ UNCHANGED <<dialog, saved>>

\* The service at an address, as the server of the login asked for it.
At(s, uri) == [service |-> s, uri |-> uri, login |-> op.login, accept |-> op.accept]

\* add_account_discover_cb.
DiscoverAnswers ==
    /\ Answers("discover")
    /\ \/ /\ \E has \in SUBSET Services \ {{}} :
                LET services == [s \in Services |-> IF s \notin has THEN None
                                                    ELSE IF op.uri = None THEN Found ELSE op.uri]
                IN /\ accepted' = accepted \cup {At(s, services[s]) : s \in has}
                   /\ GoOn(HandleResponse(progress, services))
          /\ UNCHANGED ignoreSsl
       \/ /\ Fails
          /\ ignoreSsl' \in {FALSE, ~op.accept}
          /\ UNCHANGED progress
    /\ UNCHANGED <<login, uris, template>>

\* add_account_check_cb.
CheckAnswers ==
    /\ Answers("check")
    /\ \/ /\ accepted' = accepted \cup {At(op.service, op.uri)}
          /\ GoOn(HandleResponse(progress, None))
          /\ UNCHANGED ignoreSsl
       \/ /\ Fails
          /\ ignoreSsl' \in {FALSE, ~op.accept}
          /\ UNCHANGED progress
    /\ UNCHANGED <<login, uris, template>>

-----------------------------------------------------------------------------

\* refresh_account_action_cb: the configuration that is checked was made when
\* the dialog was, when a template had no user name.
RefreshSignIn ==
    /\ kind = "refresh" /\ Activate
    /\ dialog' = SetState(dialog, BUSY)
    /\ op' = [at |-> "recheck", login |-> IF template THEN None ELSE login, accept |-> ignoreSsl]
    /\ UNCHANGED davVars

\* refresh_account_check_cb.
RecheckAnswers ==
    /\ Answers("recheck")
    /\ \/ /\ accepted' = accepted \cup {[login |-> op.login, accept |-> op.accept]}
          /\ IF template
             THEN AddAccount([login |-> login, accept |-> op.accept])
             ELSE StorePassword([login |-> login, accept |-> op.accept])
       \/ Fails
    /\ UNCHANGED davVars

\* refresh_account_full_cb, for a template.
TemplateAnswers ==
    /\ Answers("add") /\ kind = "refresh"
    /\ \/ saved' = op.account /\ op' = [at |-> "ensure"] /\ UNCHANGED dialog
       \/ dialog' = ReturnInDialog(dialog, "error") /\ op' = None /\ UNCHANGED saved
    /\ UNCHANGED <<accepted, davVars>>

\* refresh_account_credentials_cb: the error is looked at for the certificate
\* before it ends the dialog.
DavEnsureAnswers ==
    /\ EnsureAnswers
    /\ UNCHANGED davVars

DavAnswers ==
    /\ provider = "dav"
    /\ \/ DiscoverAnswers \/ CheckAnswers
       \/ kind = "add" /\ AddAnswers /\ UNCHANGED davVars
       \/ RecheckAnswers \/ TemplateAnswers \/ DavEnsureAnswers

DavNext ==
    \/ provider = "dav" /\ (EditLogin \/ EditUri \/ AddSignIn \/ RefreshSignIn)
    \/ provider = "dav" /\ Close /\ UNCHANGED davVars
    \/ DavAnswers

-----------------------------------------------------------------------------

\* What an account gets for a service was found or checked as that service, for
\* the login and with the setting for certificates that are stored with it.  Two
\* things make this no more than what the first sign-in of a dialog gives: a
\* later one goes on at the stage the last one failed at, with the address that
\* failed; and an address for files becomes that of the calendar as well unless
\* one was given for the calendar.
DavSavedWasAccepted ==
    (provider = "dav" /\ saved # None) =>
        IF kind = "refresh"
        THEN template \/ saved \in accepted
        ELSE (tries = 1 /\ (uris[FILES] # None => uris[CALENDAR] # None)) =>
             \A s \in Services :
                saved.uris[s] # None =>
                    [service |-> s, uri |-> saved.uris[s],
                     login |-> saved.login, accept |-> saved.accept] \in accepted
=============================================================================
