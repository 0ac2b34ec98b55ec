----------------------------- MODULE MailLogin -----------------------------
(***************************************************************************)
(* How GoaMailClient has an IMAP and then an SMTP server check a password: *)
(* the connection and its encryption, and the dialogues of GoaImapAuthLogin *)
(* and GoaSmtpAuth; for an account (ensure_credentials_sync), with the     *)
(* passwords from the keyring, or for a dialog, with those typed in.       *)
(*                                                                         *)
(* A step is one command and its answer.  What a server is like does not   *)
(* change; a connection may be lost, or time out, at any step.             *)
(***************************************************************************)
EXTENDS FiniteSets

CONSTANTS
    None

VARIABLES
    purpose,    \* "account" or "dialog"
    client,     \* per protocol: [tls, accept, user], user: there is a user name
    server,     \* per protocol: [good, starttls, noise, mechanism, knows]
    protocol,
    at,         \* "lookup", "connect", "starttls", "handshake", "login" or "over"
    secure,     \* the connection is encrypted
    greeting,   \* ~greeting_absent
    outcome,    \* None, "ok" or the code of the error
    sent        \* history: where the password was sent, and how

loginVars == <<purpose, client, server, protocol, at, secure, greeting, outcome, sent>>

Protocols == {"imap", "smtp"}

Clients == [tls : {"none", "starttls", "ssl"}, accept : BOOLEAN, user : BOOLEAN]

\* Whether the certificate is good, STARTTLS is offered, another line comes
\* first when IMAP is asked what there is, which mechanism SMTP offers, and
\* whether the server takes the user and the password it is sent.
Servers == [good : BOOLEAN, starttls : BOOLEAN, noise : BOOLEAN,
            mechanism : {"plain", "login", "other", "none"}, knows : BOOLEAN]
Possible(p, s) == IF p = "imap" THEN s.mechanism = "plain" ELSE ~s.noise

LoginOff ==
    /\ purpose = None /\ client = None /\ server = None /\ protocol = "imap"
    /\ at = "over" /\ secure = FALSE /\ greeting = TRUE /\ outcome = None /\ sent = {}

\* One of the two is of interest: the other server is one that just works.
Plain == [tls |-> "none", accept |-> FALSE, user |-> TRUE]
Works == [good |-> TRUE, starttls |-> TRUE, noise |-> FALSE, mechanism |-> "plain", knows |-> TRUE]

\* goa_imap_auth_login_new needs a user, goa_smtp_auth_new does not.
LoginInit ==
    /\ purpose \in {"account", "dialog"}
    /\ \E p \in Protocols, c \in Clients, s \in Servers :
          /\ Possible(p, s) /\ (p = "imap" => c.user)
          /\ client = [q \in Protocols |-> IF q = p THEN c ELSE Plain]
          /\ server = [q \in Protocols |-> IF q = p THEN s ELSE Works]
    /\ protocol = "imap" /\ at = IF purpose = "account" THEN "lookup" ELSE "connect"
    /\ secure = FALSE /\ greeting = TRUE /\ outcome = None /\ sent = {}

C == client[protocol]
S == server[protocol]

Constant == UNCHANGED <<purpose, client, server>>

Ends(code) == at' = "over" /\ outcome' = code

\* ensure_credentials_sync: what goes wrong with the keyring is reported as if
\* the password had been refused.
Lookup ==
    /\ at = "lookup"
    /\ \/ at' = "connect" /\ UNCHANGED outcome
       \/ Ends("not authorized")
    /\ UNCHANGED <<protocol, secure, greeting, sent>> /\ Constant

\* SMTP is asked after IMAP, but for an account that does not use
\* authentication there (SmtpUseAuth).
AsksSmtp == purpose = "dialog" \/ client["smtp"].user

Checked ==
    IF protocol = "imap" /\ AsksSmtp
    THEN /\ protocol' = "smtp" /\ at' = IF purpose = "account" THEN "lookup" ELSE "connect"
         /\ secure' = FALSE /\ greeting' = TRUE
         /\ UNCHANGED outcome
    ELSE Ends("ok") /\ UNCHANGED <<protocol, secure, greeting>>

\* A line that cannot be read or is none of those expected.
Broken == Ends("failed") /\ UNCHANGED <<protocol, secure, greeting>>

\* Mutant: every certificate is accepted.
HandshakeSucceeds_Always == TRUE

\* mail_client_check_accept_certificate_cb, mail_client_check_event_cb: without
\* validation there is nothing to accept.
HandshakeSucceeds == S.good \/ C.accept

\* goa_mail_client_check, mail_client_check_connect_cb.
Connect ==
    /\ at = "connect"
    /\ \/ /\ C.tls = "ssl"
          /\ IF HandshakeSucceeds
             THEN secure' = TRUE /\ at' = "login" /\ UNCHANGED outcome
             ELSE secure' = FALSE /\ Ends("ssl")
          /\ UNCHANGED <<protocol, greeting>>
       \/ /\ C.tls # "ssl"
          /\ at' = IF C.tls = "starttls" THEN "starttls" ELSE "login"
          /\ UNCHANGED <<protocol, secure, greeting, outcome>>
       \/ Broken
    /\ UNCHANGED sent /\ Constant

\* goa_imap_auth_login_starttls_sync looks at the first line of the answer only.
OffersStarttls == S.starttls /\ ~S.noise

\* goa_imap_auth_login_starttls_sync, goa_smtp_auth_starttls_sync.
Starttls ==
    /\ at = "starttls"
    /\ \/ /\ ~OffersStarttls /\ Ends("not supported")
          /\ UNCHANGED <<protocol, secure, greeting>>
       \/ /\ OffersStarttls /\ at' = "handshake" /\ greeting' = FALSE
          /\ UNCHANGED <<protocol, secure, outcome>>
       \/ Broken
    /\ UNCHANGED sent /\ Constant

\* mail_client_check_auth_starttls_cb, mail_client_check_tls_conn_handshake_cb.
Handshake ==
    /\ at = "handshake"
    /\ \/ /\ HandshakeSucceeds
          /\ secure' = TRUE /\ at' = "login"
          /\ UNCHANGED <<protocol, greeting, outcome>>
       \/ /\ ~HandshakeSucceeds /\ Ends("ssl")
          /\ UNCHANGED <<protocol, secure, greeting>>
       \/ Broken
    /\ UNCHANGED sent /\ Constant

\* A server greets once, when the connection is made: waiting for another
\* greeting, or taking one for an answer, breaks the dialogue.
GreetingAsExpected == greeting = (C.tls # "starttls")

Send == sent' = sent \cup {[protocol |-> protocol, secure |-> secure]}

\* goa_imap_auth_login_run_sync: a refusal is an error like any other.
ImapLogin ==
    /\ at = "login" /\ protocol = "imap"
    /\ \/ /\ GreetingAsExpected /\ Send
          /\ IF S.knows THEN Checked ELSE Broken
       \/ Broken /\ (Send \/ UNCHANGED sent)
    /\ Constant

\* goa_smtp_auth_run_sync.  Entries that were left empty are sent as they are:
\* the provider always has a user name, if only an empty one, so that the error
\* for one that is missing never comes.
SmtpLogin ==
    /\ at = "login" /\ protocol = "smtp"
    /\ \/ /\ GreetingAsExpected /\ S.mechanism = "none"
          /\ Checked /\ UNCHANGED sent
       \/ /\ GreetingAsExpected /\ S.mechanism = "other"
          /\ Ends("not supported") /\ UNCHANGED <<protocol, secure, greeting, sent>>
       \/ /\ GreetingAsExpected /\ S.mechanism \in {"plain", "login"}
          /\ Send
          /\ (S.knows /\ Checked) \/ Broken
       \/ Broken /\ UNCHANGED sent
    /\ Constant

LoginStep == Lookup \/ Connect \/ Starttls \/ Handshake \/ ImapLogin \/ SmtpLogin

LoginNext == LoginStep

-----------------------------------------------------------------------------

\* The password goes to a server as the account says: encrypted if it is to be,
\* and never to a server whose certificate is neither good nor accepted.
SentAsConfigured ==
    \A m \in sent :
        LET c == client[m.protocol] IN
        /\ c.tls # "none" <=> m.secure
        /\ m.secure => server[m.protocol].good \/ c.accept

\* What is reported is what happened: passwords are right where they were asked
\* for, a complaint about a certificate or the encryption has its reason at a
\* server, and "not authorized" stands for a password that was not to be had from
\* the keyring, since one that is refused, or missing, is reported as a failure.
LoginOutcome ==
    /\ outcome = "ok" =>
          \A p \in {"imap"} \cup (IF AsksSmtp THEN {"smtp"} ELSE {}) :
             \/ server[p].mechanism = "none"
             \/ server[p].knows /\ \E m \in sent : m.protocol = p
    /\ outcome = "ssl" => ~S.good /\ ~C.accept /\ C.tls # "none"
    /\ outcome = "not supported" =>
          S.mechanism = "other" \/ (C.tls = "starttls" /\ ~OffersStarttls)
    /\ outcome = "not authorized" =>
          purpose = "account" /\ ~\E m \in sent : m.protocol = protocol
=============================================================================
