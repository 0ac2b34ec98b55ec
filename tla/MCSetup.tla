------------------------------- MODULE MCSetup -------------------------------
(***************************************************************************)
(* The dialogs that set accounts up, and the checks of servers they rest   *)
(* on, for TLC: one of them runs, chosen at the start.                     *)
(***************************************************************************)
EXTENDS ProviderDialog

CONSTANTS
    Emails, Urls, Passwords, Found, Typed, Malformed, Users

VARIABLES
    form, ssl, discovery, useAuth,
    account, entered, ignoring, requests, failure, held,
    login, uris, ignoreSsl, progress, template,
    address, timer, query, loginInfo, acceptSsl, identity,
    expected, copied, name, object, launching, result,
    purpose, client, server, protocol, at, secure, greeting, loginEnds, sent,
    task, accept, step, lookups, candidates, candidate, wellKnown, uriFallback,
    authError, services, discoveryEnds, offered, heard

\* None is neither what the check of a server or an autodiscovery ends with nor
\* the call that a sign-in in a browser is.
ASSUME NoneAssumption ==
    /\ None \notin {"ok", "ssl", "not supported", "not authorized", "failed", "cancelled"}
    /\ None # [at |-> "authorize"]

\* Exchange asks at least one server.
ASSUME UrlsAssumption == Urls # {}

Mail == INSTANCE MailSetup
Exchange == INSTANCE ExchangeSetup
Dav == INSTANCE DavSetup
Nextcloud == INSTANCE NextcloudSetup
Browser == INSTANCE BrowserSetup
Login == INSTANCE MailLogin WITH outcome <- loginEnds

\* Two of the names that the name service is asked for.
Lookups == [caldavs |-> "calendar", carddav |-> "contacts"]
Discovery == INSTANCE DavDiscovery WITH outcome <- discoveryEnds,
                LookupNames <- DOMAIN Lookups, ServiceOf <- Lookups

mail == <<form, ssl, discovery, useAuth>>
exchange == <<account, entered, ignoring, requests, failure, held>>
dav == <<login, uris, ignoreSsl, progress, template>>
nextcloud == <<address, timer, query, loginInfo, acceptSsl, identity>>
browser == <<expected, copied, name, object, launching, result>>
logins == <<purpose, client, server, protocol, at, secure, greeting, loginEnds, sent>>
discoveries == <<task, accept, step, lookups, candidates, candidate, wellKnown,
                 uriFallback, authError, services, discoveryEnds, offered, heard>>
vars == <<dialogVars, mail, exchange, dav, nextcloud, browser, logins, discoveries>>

MailOff == Mail!MailOff
ExchangeOff == Exchange!ExchangeOff
DavOff == Dav!DavOff
NextcloudOff == Nextcloud!NextcloudOff
BrowserOff == Browser!BrowserOff
LoginOff == Login!LoginOff
DiscoveryOff == Discovery!DiscoveryOff
NoServer == LoginOff /\ DiscoveryOff

Init ==
    \/ Mail!MailInit /\ ExchangeOff /\ DavOff /\ NextcloudOff /\ BrowserOff /\ NoServer
    \/ Exchange!ExchangeInit /\ MailOff /\ DavOff /\ NextcloudOff /\ BrowserOff /\ NoServer
    \/ Dav!DavInit /\ MailOff /\ ExchangeOff /\ NextcloudOff /\ BrowserOff /\ NoServer
    \/ Nextcloud!NextcloudInit /\ MailOff /\ ExchangeOff /\ DavOff /\ BrowserOff /\ NoServer
    \/ Browser!BrowserInit /\ MailOff /\ ExchangeOff /\ DavOff /\ NextcloudOff /\ NoServer
    \/ /\ provider = "server" /\ kind = None /\ DialogInit(IDLE)
       /\ MailOff /\ ExchangeOff /\ DavOff /\ NextcloudOff /\ BrowserOff
       /\ (Login!LoginInit /\ DiscoveryOff) \/ (LoginOff /\ Discovery!DiscoveryInit)

OnlyMail == UNCHANGED <<exchange, dav, nextcloud, browser, logins, discoveries>>
OnlyExchange == UNCHANGED <<mail, dav, nextcloud, browser, logins, discoveries>>
OnlyDav == UNCHANGED <<mail, exchange, nextcloud, browser, logins, discoveries>>
OnlyNextcloud == UNCHANGED <<mail, exchange, dav, browser, logins, discoveries>>
OnlyBrowser == UNCHANGED <<mail, exchange, dav, nextcloud, logins, discoveries>>
NoDialog == UNCHANGED <<dialogVars, mail, exchange, dav, nextcloud, browser>>

Next ==
    \/ Mail!MailNext /\ OnlyMail
    \/ Exchange!ExchangeNext /\ OnlyExchange
    \/ Dav!DavNext /\ OnlyDav
    \/ Nextcloud!NextcloudNext /\ OnlyNextcloud
    \/ Browser!BrowserNext /\ OnlyBrowser
    \/ Login!LoginNext /\ NoDialog /\ UNCHANGED discoveries
    \/ Discovery!DiscoveryNext /\ NoDialog /\ UNCHANGED logins

\* Everything but what the user does.
Answering ==
    \/ Mail!MailAnswers /\ OnlyMail
    \/ Exchange!ExchangeAnswers /\ OnlyExchange
    \/ Dav!DavAnswers /\ OnlyDav
    \/ Nextcloud!NextcloudAnswers /\ OnlyNextcloud
    \/ Browser!BrowserAnswers /\ OnlyBrowser
    \/ Login!LoginNext /\ NoDialog /\ UNCHANGED discoveries
    \/ Discovery!DiscoveryNext /\ NoDialog /\ UNCHANGED logins

\* Servers, the daemon and the timeouts of the clients answer.
Spec == Init /\ [][Next]_vars /\ WF_vars(Answering)

-----------------------------------------------------------------------------

\* Whatever was typed, answered late or tried again, an account that is stored
\* is the one that its servers accepted.
SavedWasAccepted ==
    /\ Mail!MailSavedWasAccepted
    /\ Exchange!ExchangeSavedWasAccepted
    /\ Dav!DavSavedWasAccepted
    /\ Nextcloud!NextcloudSavedWasAccepted
    /\ Browser!BrowserSavedWasAccepted

\* What the check of a mail server and the discovery of a WebDAV server report
\* is what the servers said, and the password went only where the account says.
OutcomeIsTrue ==
    /\ Login!SentAsConfigured /\ Login!LoginOutcome
    /\ Discovery!DiscoveryOutcome

\* What a dialog has started ends with it: a discovery that would write into its
\* entries, the timer and the query for an address, and the name on the bus that
\* the next sign-in, of any account, needs.
NothingLeftBehind ==
    /\ provider = "mail" /\ (~dialog.open \/ dialog.state \in {READY, BUSY}) => discovery = None
    /\ provider = "nextcloud" /\ ~dialog.open => ~timer /\ query = None
    /\ Browser!NameReleased

\* An answer of Exchange that the callback of the autodiscovery never counts.
AnswerLost == provider = "exchange" /\ \E u \in Urls : requests[u] = "lost"

Busy ==
    /\ dialog.open /\ dialog.state = BUSY
    /\ kind = "add" /\ provider \in {"mail", "exchange", "dav"}

\* A dialog that adds an account does not stay busy, and neither the check of a
\* mail server nor that or the discovery of a WebDAV server goes on forever;
\* where the user has to sign in in a browser the dialog waits for that.  The
\* exception is the autodiscovery of Exchange that has lost an answer.
EverySignInEnds ==
    /\ Busy ~> ~Busy \/ AnswerLost
    /\ <>(at = "over") /\ <>(step = "over")

\* What ews_client_autodiscover_response_cb asserts before it takes the error of
\* an answer: that there is none yet.  Where the assertion fails the callback
\* returns and the answer is lost.
FirstErrorOnly == ~AnswerLost
=============================================================================
