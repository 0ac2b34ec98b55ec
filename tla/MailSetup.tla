----------------------------- MODULE MailSetup -----------------------------
(***************************************************************************)
(* The dialogs of the IMAP/SMTP provider: the entries, the discovery of    *)
(* servers for an email address that fills them in, and the sign-in that   *)
(* has the servers check them, IMAP first, before the account is added.    *)
(*                                                                         *)
(* A login stands for a server, a user name and the encryption; how a      *)
(* server is asked is left to MailLogin.                                   *)
(***************************************************************************)
EXTENDS ProviderDialog

CONSTANTS
    Emails      \* well-formed addresses

VARIABLES
    form,       \* the entries
    ssl,        \* per protocol: [had, accept]
    discovery,  \* goa_mail_client_discover under way: [uris, mx], or None
    useAuth     \* smtp_use_auth

mailVars == <<form, ssl, discovery, useAuth>>

NoSsl == [had |-> FALSE, accept |-> FALSE]
Blank == [email |-> None, imap |-> None, imapPassword |-> FALSE,
          smtp |-> None, smtpUser |-> FALSE, smtpPassword |-> FALSE]

\* The dialog of refresh_account shows what the account has; only the
\* passwords can be typed in.
Shown(login, auth) ==
    [Blank EXCEPT !.email = CHOOSE e \in Emails : TRUE, !.imap = login,
                  !.smtp = IF auth THEN login ELSE None, !.smtpUser = auth]

MailOff ==
    form = Blank /\ ssl = [imap |-> NoSsl, smtp |-> NoSsl] /\ discovery = None /\ useAuth = FALSE

MailInit ==
    /\ provider = "mail" /\ DialogInit(IDLE)
    /\ \/ kind = "add" /\ MailOff
       \/ /\ kind = "refresh"
          /\ \E l \in Logins, auth \in BOOLEAN : form = Shown(l, auth)
          /\ \E a, b \in BOOLEAN : ssl = [imap |-> [NoSsl EXCEPT !.accept = a],
                                          smtp |-> [NoSsl EXCEPT !.accept = b]]
          /\ discovery = None /\ useAuth = FALSE

-----------------------------------------------------------------------------
(* The entries. *)

\* The state on_login_changed gives the dialog: a server that needs no
\* authentication has neither user nor password.
LoginState(f) ==
    IF /\ f.imap # None /\ f.imapPassword
       /\ f.smtp # None => f.smtpUser = f.smtpPassword
    THEN READY ELSE IDLE

\* on_login_changed, for entries that have become f.
OnLoginChanged(f) ==
    /\ form' = f
    /\ discovery' = None
    /\ dialog' = SetState(dialog, LoginState(f))

EditImap ==
    /\ kind = "add" /\ Edit
    /\ \E l \in Logins \cup {None} : l # form.imap /\ OnLoginChanged([form EXCEPT !.imap = l])
    /\ UNCHANGED <<ssl, useAuth>>

EditSmtp ==
    /\ kind = "add" /\ Edit
    /\ \E l \in Logins \cup {None}, user, password \in BOOLEAN :
          /\ <<l, user, password>> # <<form.smtp, form.smtpUser, form.smtpPassword>>
          /\ OnLoginChanged([form EXCEPT !.smtp = l, !.smtpUser = user, !.smtpPassword = password])
    /\ UNCHANGED <<ssl, useAuth>>

\* update_account_details_ui with the services found, or NULL.
Details(imap, smtp) ==
    [form EXCEPT !.imap = imap, !.smtp = smtp, !.smtpUser = smtp # None]

\* goa_mail_client_discover: five places for the domain, then those of its
\* mail exchanger.
Discover == [uris |-> 5, mx |-> TRUE]

\* on_email_changed.  None stands for an address that is not well-formed.
EditEmail ==
    /\ kind = "add" /\ Edit
    /\ \E e \in Emails \cup {None} :
          /\ e # form.email
          /\ form' = [Details(None, None) EXCEPT !.email = e]
          /\ discovery' = IF e = None THEN None ELSE Discover
    /\ dialog' = SetState(dialog, IDLE)
    /\ UNCHANGED <<ssl, useAuth>>

\* on_password_changed: the password is copied to both protocols, which cancels
\* the discovery.
EditPassword ==
    /\ Edit
    /\ IF form.email = None
       THEN dialog' = SetState(dialog, IDLE) /\ UNCHANGED <<form, discovery>>
       ELSE /\ ~(form.imapPassword /\ form.smtpPassword)
            /\ OnLoginChanged([form EXCEPT !.imapPassword = TRUE, !.smtpPassword = TRUE])
    /\ UNCHANGED <<ssl, useAuth>>

-----------------------------------------------------------------------------
(* Discovery. *)

\* goa_mail_client_discover_cb: setting the entries calls on_login_changed.  The
\* callback of a discovery cancelled since has no effect.
Discovered(imap, smtp) == OnLoginChanged(Details(imap, smtp))

\* goa_mail_client_autoconfig_cb: a document names servers, or there is none.
ConfigAnswers ==
    /\ discovery.uris > 0
    /\ \/ \E imap, smtp \in Logins \cup {None} : Discovered(imap, smtp)
       \/ discovery' = [discovery EXCEPT !.uris = @ - 1] /\ UNCHANGED <<dialog, form>>

\* goa_mail_client_mx_domain_cb: no mail exchanger, or two or four more places.
ExchangerAnswers ==
    /\ discovery.uris = 0 /\ discovery.mx
    /\ \E n \in {0, 2, 4} : discovery' = [uris |-> n, mx |-> FALSE]
    /\ UNCHANGED <<dialog, form>>

NothingFound == discovery.uris = 0 /\ ~discovery.mx /\ Discovered(None, None)

DiscoveryStep ==
    /\ discovery # None /\ dialog.open
    /\ ConfigAnswers \/ ExchangerAnswers \/ NothingFound
    /\ UNCHANGED <<provider, kind, op, accepted, saved, edits, tries, ssl, useAuth>>

-----------------------------------------------------------------------------
(* Signing in. *)

\* What is checked: the encryption is the one chosen, but in the dialog of
\* refresh_account, which has no entry for it and reads an uninitialized one.
Imap(chosen) ==
    [at |-> "imap", login |-> form.imap, chosen |-> chosen, accept |-> ssl.imap.accept]

\* Without user and password empty ones are checked.  Whether authentication is
\* used turns out when the server is asked.
Smtp ==
    [at |-> "smtp", login |-> form.smtp, accept |-> ssl.smtp.accept, user |-> form.smtpUser,
     auth |-> FALSE]

\* A certificate that was refused once is accepted from now on.
Ignoring(s) == IF s.had THEN [had |-> FALSE, accept |-> TRUE] ELSE s

\* add_account_action_cb, refresh_account_action_cb.
SignIn ==
    /\ Activate
    /\ ssl' = [p \in DOMAIN ssl |-> Ignoring(ssl[p])]
    /\ IF Duplicate(form.email)
       THEN dialog' = ReturnInDialog(SetState(dialog, BUSY), "error") /\ UNCHANGED op
       ELSE /\ dialog' = SetState(dialog, BUSY)
            /\ \E chosen \in {TRUE, kind = "add"} :
                  op' = [Imap(chosen) EXCEPT !.accept = Ignoring(ssl.imap).accept]
    /\ UNCHANGED <<form, discovery, useAuth>>

\* add_account_store_credentials.
Account(auth) ==
    [imap |-> Imap(TRUE), smtp |-> IF form.smtp = None THEN None ELSE [Smtp EXCEPT !.auth = auth]]

\* refresh_account_store_credentials, for the object it never was given: nothing
\* is stored, no error is set, and the error that is not there is not returned.
StoreForNoObject == op' = None /\ UNCHANGED <<dialog, saved>>

Store(auth) ==
    /\ useAuth' = auth
    /\ IF kind = "add" THEN AddAccount(Account(auth)) ELSE StoreForNoObject

\* add_account_check_imap_cb, refresh_account_check_imap_cb.  The latter skips
\* SMTP, since nothing has set smtp_use_auth.
ImapAnswers ==
    /\ Answers("imap")
    /\ \/ /\ accepted' = accepted \cup {op}
          /\ IF (IF kind = "add" THEN form.smtp # None ELSE useAuth)
             THEN op' = Smtp /\ UNCHANGED <<dialog, saved, useAuth>>
             ELSE Store(useAuth)
          /\ UNCHANGED ssl
       \/ /\ Fails
          /\ \E had \in {FALSE, ~op.accept} : ssl' = [ssl EXCEPT !.imap.had = had]
          /\ UNCHANGED useAuth
    /\ UNCHANGED <<form, discovery>>

\* add_account_check_smtp_cb.  A server that offers no authentication is not
\* sent the password; one that does accepted it, or that there is none.
SmtpAnswers ==
    /\ Answers("smtp")
    /\ \/ /\ \E auth \in BOOLEAN :
                accepted' = accepted \cup {[op EXCEPT !.auth = auth]} /\ Store(auth)
          /\ UNCHANGED ssl
       \/ /\ Fails
          /\ \E had \in {FALSE, ~op.accept} : ssl' = [ssl EXCEPT !.smtp.had = had]
          /\ UNCHANGED useAuth
    /\ UNCHANGED <<form, discovery>>

\* add_account_data_free cancels the discovery.
MailClose == Close /\ discovery' = None /\ UNCHANGED <<form, ssl, useAuth>>

MailNext ==
    /\ provider = "mail"
    /\ \/ EditEmail \/ EditImap \/ EditSmtp \/ EditPassword
       \/ DiscoveryStep
       \/ SignIn \/ ImapAnswers \/ SmtpAnswers
       \/ AddAnswers /\ UNCHANGED mailVars
       \/ MailClose

\* Servers, or the timeouts of the client, answer.
MailAnswers ==
    /\ provider = "mail"
    /\ ImapAnswers \/ SmtpAnswers \/ (AddAnswers /\ UNCHANGED mailVars)

-----------------------------------------------------------------------------

\* The account that was added, or the password that was stored, is what the
\* servers accepted during this sign-in, with the certificates then accepted.
MailSavedWasAccepted ==
    provider = "mail" /\ saved # None =>
        /\ saved.imap \in accepted
        /\ saved.smtp # None => saved.smtp \in accepted
=============================================================================
