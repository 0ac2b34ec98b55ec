----------------------------- MODULE SetupProofs -----------------------------
(***************************************************************************)
(* Theorems about the dialogs of MCSetup.tla and the checks of servers,    *)
(* for any entries, servers, users and numbers of changes and attempts.    *)
(*                                                                         *)
(* Each part has an inductive invariant of its own, which speaks of that   *)
(* provider only: a step of another one keeps it since the dialog belongs  *)
(* to one provider for good.                                               *)
(***************************************************************************)
EXTENDS MCSetup, SequenceTheorems, TLAPS

DialogStates == {IDLE, READY, BUSY, ERROR, DONE}

Answered == {"dismissed", "account", "error", "ok"}
Dialogs == [state : DialogStates, open : BOOLEAN, answers : Seq(Answered)]

\* What every dialog is.
DialogOK == dialog \in Dialogs

\* A call is under way for a dialog that can still take its answer.
Waiting == dialog.open /\ op # None
WaitsFor(where) == Waiting /\ op.at = where

\* There is a call only while the dialog is busy, and nothing is stored before
\* the last call.
OneCall ==
    /\ Waiting => dialog.state = BUSY
    /\ dialog.open /\ dialog.state # BUSY => saved = None
    /\ Waiting /\ op.at # "ensure" => saved = None

-----------------------------------------------------------------------------
(* The invariants. *)

MailCalls ==
    /\ WaitsFor("imap") /\ kind = "add" => op = Mail!Imap(TRUE)
    /\ WaitsFor("smtp") /\ kind = "add" => op = Mail!Smtp /\ Mail!Imap(TRUE) \in accepted
    /\ WaitsFor("add") =>
          /\ op.account.imap \in accepted
          /\ op.account.smtp # None => op.account.smtp \in accepted

MailInv ==
    provider = "mail" =>
        /\ OneCall
        /\ ~dialog.open \/ dialog.state \in {READY, BUSY, ERROR} => discovery = None
        /\ DOMAIN ssl = {"imap", "smtp"}
        /\ MailCalls /\ Mail!MailSavedWasAccepted

ExchangeCalls ==
    /\ WaitsFor("autodiscover") =>
          /\ Exchange!Entered = Exchange!Sent /\ DOMAIN requests = Urls
          /\ Exchange!Pending # {} \/ failure # None \/ Exchange!Sent \in accepted
    /\ WaitsFor("add") => op.account \in accepted

ExchangeInv ==
    provider = "exchange" /\ kind = "add" =>
        OneCall /\ ExchangeCalls /\ Exchange!ExchangeSavedWasAccepted

NextcloudCalls ==
    /\ WaitsFor("launch") \/ WaitsFor("poll") =>
          op = [at |-> op.at, login |-> address, accept |-> op.accept]
    /\ WaitsFor("add") =>
          op.account \in accepted /\ op.account.asked = address /\ kind = "add"

NextcloudInv ==
    provider = "nextcloud" =>
        /\ OneCall
        /\ ~dialog.open \/ dialog.state \in {READY, BUSY, ERROR} => ~timer /\ query = None
        /\ query # None => ~timer /\ query.login = address
        /\ dialog.open /\ dialog.state \in {READY, BUSY, ERROR} => loginInfo = address
        /\ NextcloudCalls /\ Nextcloud!NextcloudSavedWasAccepted

BrowserCalls == WaitsFor("add") => op.account \in accepted /\ kind = "add"

BrowserInv ==
    provider = "oauth2" =>
        /\ OneCall
        /\ name # "none" => result = None
        /\ BrowserCalls /\ Browser!BrowserSavedWasAccepted /\ Browser!NameReleased

\* What the first sign-in of a dialog has found so far has been accepted, and
\* what is being checked is of the stage that the sign-in has reached.
Given == uris[Dav!FILES] # None => uris[Dav!CALENDAR] # None
WasAccepted(found) ==
    \A s \in Dav!Services :
        found[s] # None =>
            [service |-> s, uri |-> found[s], login |-> login, accept |-> ignoreSsl] \in accepted

Stages == {0} \cup Dav!Services \cup {Dav!TICKETING}

ProgressOK ==
    /\ progress.stage \in Stages
    /\ progress = [stage |-> progress.stage, found |-> progress.found, check |-> progress.check]
    /\ progress.found = [s \in Dav!Services |-> progress.found[s]]

AtStage ==
    \/ /\ WaitsFor("discover") /\ progress.stage = 0 /\ progress.check = None
       /\ op = Dav!Discover(None)
    \/ /\ WaitsFor("discover") /\ progress.stage = Dav!FILES /\ progress.check = uris[Dav!FILES]
       /\ uris[Dav!FILES] # None /\ op = Dav!Discover(progress.check)
    \/ /\ WaitsFor("check") /\ progress.stage \in {Dav!CALENDAR, Dav!CONTACTS}
       /\ progress.check = uris[progress.stage]
       /\ op = Dav!Check(progress.stage, progress.check)

FirstSignIn ==
    WaitsFor("discover") \/ WaitsFor("check") => AtStage /\ WasAccepted(progress.found)

DavAdds ==
    /\ tries \in Nat
    /\ ProgressOK
    /\ tries = 0 => /\ progress = [stage |-> 0, found |-> Dav!Nothing, check |-> None]
                    /\ ~Waiting
    /\ tries = 1 /\ Given => FirstSignIn
    /\ WaitsFor("add") =>
          /\ op.account.login = login /\ op.account.accept = ignoreSsl
          /\ tries = 1 /\ Given => WasAccepted(op.account.uris)

\* Where the account has its user name already, nothing is added.
DavRefreshes ==
    /\ ~WaitsFor("discover") /\ ~WaitsFor("check")
    /\ ~template => ~WaitsFor("add") /\ (WaitsFor("recheck") => op.login = login)

DavInv ==
    provider = "dav" =>
        /\ kind \in {"add", "refresh"}
        /\ OneCall
        /\ kind = "add" => DavAdds /\ ~WaitsFor("recheck")
        /\ kind = "refresh" => DavRefreshes
        /\ Dav!DavSavedWasAccepted

-----------------------------------------------------------------------------
(* The checks of servers. *)

\* A password has not yet gone to the server that is being asked, and was right
\* at the one asked before.
LoginRuns ==
    /\ at \in {"lookup", "connect", "starttls", "handshake", "login", "over"}
    /\ sent \subseteq [protocol : Login!Protocols, secure : BOOLEAN]
    /\ protocol \in Login!Protocols
    /\ client \in [Login!Protocols -> Login!Clients]
    /\ server \in [Login!Protocols -> Login!Servers]
    /\ secure \in BOOLEAN /\ greeting \in BOOLEAN
    /\ at # "over" =>
          /\ loginEnds = None
          /\ \A m \in sent : m.protocol # protocol
          /\ protocol = "imap" => sent = {}
          /\ protocol = "smtp" =>
                /\ server["imap"].knows /\ \E m \in sent : m.protocol = "imap"
                /\ Login!AsksSmtp
    /\ at = "lookup" => purpose = "account"
    /\ at \in {"lookup", "connect", "starttls", "handshake"} => ~secure
    /\ at \in {"starttls", "handshake"} => Login!C.tls = "starttls"
    /\ at = "login" => /\ secure <=> Login!C.tls # "none"
                       /\ secure => Login!HandshakeSucceeds
    /\ Login!SentAsConfigured /\ Login!LoginOutcome

LoginInv == LoginOff \/ LoginRuns

Candidates == [service : Discovery!Services, place : {"srv", "host", "uri", "nextcloud", "sogo"}]

\* What was found is what was offered, and what was refused is remembered.
DiscoveryInv ==
    /\ step \in {"keyring", "lookup", "request", "over"}
    /\ accept \in BOOLEAN /\ uriFallback \in BOOLEAN /\ authError \in BOOLEAN
    /\ candidates \in Seq(Candidates)
    /\ step # "over" => discoveryEnds = None /\ task \in {"account", "check", "discover"}
    /\ step = "keyring" => task = "account"
    /\ step = "lookup" => task = "discover"
    /\ task = "discover" /\ step # "over" =>
          services = offered /\ (authError <=> "refused" \in heard)
    /\ step \in {"keyring", "request"} => candidate \in Candidates
    /\ Discovery!DiscoveryOutcome

-----------------------------------------------------------------------------
(* The check of a mail server. *)

\* Sending the password to the server being asked, where the connection is as
\* the account says.
LEMMA LoginSends ==
    ASSUME LoginRuns, at = "login", Login!Send, UNCHANGED <<client, server>>
    PROVE  /\ sent' \subseteq [protocol : Login!Protocols, secure : BOOLEAN]
           /\ Login!SentAsConfigured'
           /\ \E m \in sent' : m.protocol = protocol
           /\ \A m \in sent : m \in sent'
           /\ \A m \in sent' : m \in sent \/ m.protocol = protocol
<1>1. sent' = sent \cup {[protocol |-> protocol, secure |-> secure]}
  BY DEF Login!Send
<1>2. [protocol |-> protocol, secure |-> secure] \in [protocol : Login!Protocols, secure : BOOLEAN]
  BY DEF LoginRuns
<1>3. sent' \subseteq [protocol : Login!Protocols, secure : BOOLEAN]
  BY <1>1, <1>2 DEF LoginRuns
<1>4. ASSUME NEW m \in sent'
      PROVE  /\ client'[m.protocol].tls # "none" <=> m.secure
             /\ m.secure => server'[m.protocol].good \/ client'[m.protocol].accept
  <2>1. CASE m \in sent
    BY <2>1 DEF LoginRuns, Login!SentAsConfigured
  <2>2. CASE m = [protocol |-> protocol, secure |-> secure]
    BY <2>2 DEF LoginRuns, Login!C, Login!S, Login!HandshakeSucceeds
  <2> QED
    BY <1>1, <2>1, <2>2
<1>5. Login!SentAsConfigured'
  BY <1>4 DEF Login!SentAsConfigured
<1>6. \E m \in sent' : m.protocol = protocol
  <2>1. [protocol |-> protocol, secure |-> secure] \in sent'
    BY <1>1
  <2> QED
    BY <2>1
<1> QED
  BY <1>1, <1>3, <1>5, <1>6

\* A server that accepted the password: the other one is asked, or it is over.
LEMMA LoginChecked ==
    ASSUME LoginRuns, at = "login", Login!Checked, UNCHANGED <<purpose, client, server>>,
           sent' \subseteq [protocol : Login!Protocols, secure : BOOLEAN],
           Login!SentAsConfigured',
           \A m \in sent : m \in sent',
           \A m \in sent' : m \in sent \/ m.protocol = protocol,
           protocol = "imap" =>
              server["imap"].knows /\ \E m \in sent' : m.protocol = "imap",
           protocol = "smtp" =>
              \/ server["smtp"].mechanism = "none"
              \/ server["smtp"].knows /\ \E m \in sent' : m.protocol = "smtp"
    PROVE  LoginRuns'
<1>1. CASE protocol = "imap" /\ Login!AsksSmtp
  <2>1. /\ protocol' = "smtp" /\ at' = IF purpose = "account" THEN "lookup" ELSE "connect"
        /\ secure' = FALSE /\ greeting' = TRUE /\ loginEnds' = loginEnds
    BY <1>1 DEF Login!Checked
  <2>2. Login!AsksSmtp'
    BY <1>1 DEF Login!AsksSmtp
  <2>3. Login!LoginOutcome'
    BY <2>1, NoneAssumption DEF LoginRuns, Login!LoginOutcome
  <2>4. \A m \in sent' : m.protocol # "smtp"
    BY <1>1 DEF LoginRuns
  <2> QED
    BY <1>1, <2>1, <2>2, <2>3, <2>4 DEF LoginRuns, Login!Protocols
<1>2. CASE ~(protocol = "imap" /\ Login!AsksSmtp)
  <2>1. at' = "over" /\ loginEnds' = "ok" /\ UNCHANGED <<protocol, secure, greeting>>
    BY <1>2 DEF Login!Checked, Login!Ends
  <2>2. Login!AsksSmtp' <=> Login!AsksSmtp
    BY DEF Login!AsksSmtp
  <2>3. Login!LoginOutcome'
    <3>1. ASSUME NEW q \in {"imap"} \cup (IF Login!AsksSmtp THEN {"smtp"} ELSE {})
          PROVE  \/ server[q].mechanism = "none"
                 \/ server[q].knows /\ \E m \in sent' : m.protocol = q
      <4>1. CASE protocol = "imap"
        BY <1>2, <4>1
      <4>2. CASE protocol = "smtp" /\ q = "smtp"
        BY <4>2
      <4>3. CASE protocol = "smtp" /\ q = "imap"
        BY <4>3 DEF LoginRuns
      <4> QED
        BY <4>1, <4>2, <4>3 DEF LoginRuns, Login!Protocols
    <3> QED
      BY <2>1, <2>2, <3>1 DEF Login!LoginOutcome
  <2> QED
    BY <2>1, <2>3 DEF LoginRuns
<1> QED
  BY <1>1, <1>2

\* The end of a check that sends nothing.
LEMMA LoginEnds ==
    ASSUME LoginRuns, at # "over", NEW code, Login!Ends(code),
           UNCHANGED <<purpose, client, server, protocol, secure, greeting, sent>>,
           code # "ok",
           code = "ssl" => ~Login!S.good /\ ~Login!C.accept /\ Login!C.tls # "none",
           code = "not supported" =>
              Login!S.mechanism = "other" \/ (Login!C.tls = "starttls" /\ ~Login!OffersStarttls),
           code = "not authorized" => purpose = "account"
    PROVE  LoginRuns'
<1>1. at' = "over" /\ loginEnds' = code
  BY DEF Login!Ends
<1>2. Login!C' = Login!C /\ Login!S' = Login!S /\ Login!OffersStarttls' = Login!OffersStarttls
  BY DEF Login!C, Login!S, Login!OffersStarttls
<1>3. Login!LoginOutcome'
  BY <1>1, <1>2 DEF LoginRuns, Login!LoginOutcome
<1>4. Login!SentAsConfigured'
  BY DEF LoginRuns, Login!SentAsConfigured
<1> QED
  BY <1>1, <1>3, <1>4 DEF LoginRuns

\* A step that leaves the password where it is, and the check under way.
LEMMA LoginGoesOn ==
    ASSUME LoginRuns, at # "over",
           UNCHANGED <<purpose, client, server, protocol, loginEnds, sent>>,
           at' \in {"connect", "starttls", "handshake", "login"},
           greeting' \in BOOLEAN, secure' \in BOOLEAN,
           at' # "login" => ~secure',
           at' \in {"starttls", "handshake"} => Login!C.tls = "starttls",
           at' = "login" => /\ secure' <=> Login!C.tls # "none"
                            /\ secure' => Login!HandshakeSucceeds
    PROVE  LoginRuns'
<1>1. /\ Login!C' = Login!C /\ Login!S' = Login!S
      /\ Login!HandshakeSucceeds' <=> Login!HandshakeSucceeds
      /\ Login!AsksSmtp' <=> Login!AsksSmtp
  BY DEF Login!C, Login!S, Login!HandshakeSucceeds, Login!AsksSmtp
<1>2. Login!LoginOutcome'
  BY NoneAssumption DEF LoginRuns, Login!LoginOutcome
<1>3. Login!SentAsConfigured'
  BY DEF LoginRuns, Login!SentAsConfigured
<1> QED
  BY <1>1, <1>2, <1>3 DEF LoginRuns

LEMMA LoginIsInductive == LoginRuns /\ Login!LoginNext => LoginRuns'
<1> SUFFICES ASSUME LoginRuns, Login!LoginNext
             PROVE  LoginRuns'
  OBVIOUS
<1> USE DEF Login!Constant
<1>c. Login!C \in Login!Clients /\ Login!S \in Login!Servers
  BY DEF LoginRuns, Login!C, Login!S
<1>f. /\ Login!C.tls \in {"none", "starttls", "ssl"}
      /\ Login!C.user \in BOOLEAN /\ Login!C.accept \in BOOLEAN
      /\ Login!S.good \in BOOLEAN /\ Login!S.knows \in BOOLEAN
      /\ Login!S.mechanism \in {"plain", "login", "other", "none"}
  BY <1>c DEF Login!Clients, Login!Servers
<1>b. ASSUME Login!Broken, at # "over", UNCHANGED <<purpose, client, server, sent>>
      PROVE  LoginRuns'
  <2>1. Login!Ends("failed") /\ UNCHANGED <<protocol, secure, greeting>>
    BY <1>b DEF Login!Broken
  <2> QED
    BY <1>b, <2>1, LoginEnds
<1>1. CASE Login!Lookup
  <2>1. CASE at' = "connect" /\ UNCHANGED loginEnds
    BY <1>1, <2>1, LoginGoesOn DEF Login!Lookup, LoginRuns
  <2>2. CASE Login!Ends("not authorized")
    <3>1. purpose = "account" /\ at # "over"
      BY <1>1 DEF Login!Lookup, LoginRuns
    <3> QED
      BY <1>1, <2>2, <3>1, LoginEnds DEF Login!Lookup
  <2> QED
    BY <1>1, <2>1, <2>2 DEF Login!Lookup
<1>2. CASE Login!Connect
  <2>0. at = "connect" /\ UNCHANGED <<purpose, client, server, sent>>
    BY <1>2 DEF Login!Connect
  <2>1. CASE Login!C.tls = "ssl" /\ Login!HandshakeSucceeds /\ secure' = TRUE
             /\ at' = "login" /\ UNCHANGED <<loginEnds, protocol, greeting>>
    BY <2>0, <2>1, LoginGoesOn DEF LoginRuns
  <2>2. CASE Login!C.tls = "ssl" /\ ~Login!HandshakeSucceeds /\ secure' = FALSE
             /\ Login!Ends("ssl") /\ UNCHANGED <<protocol, greeting>>
    <3>1. secure' = secure
      BY <2>0, <2>2 DEF LoginRuns
    <3>2. ~Login!S.good /\ ~Login!C.accept
      BY <2>2 DEF Login!HandshakeSucceeds
    <3> QED
      BY <2>0, <2>2, <3>1, <3>2, LoginEnds
  <2>3. CASE /\ Login!C.tls # "ssl"
             /\ at' = IF Login!C.tls = "starttls" THEN "starttls" ELSE "login"
             /\ UNCHANGED <<protocol, secure, greeting, loginEnds>>
    BY <2>0, <2>3, <1>f, LoginGoesOn DEF LoginRuns
  <2>4. CASE Login!Broken
    BY <2>0, <2>4, <1>b
  <2> QED
    BY <1>2, <2>1, <2>2, <2>3, <2>4 DEF Login!Connect
<1>3. CASE Login!Starttls
  <2>0. at = "starttls" /\ UNCHANGED <<purpose, client, server, sent>>
    BY <1>3 DEF Login!Starttls
  <2>1. CASE ~Login!OffersStarttls /\ Login!Ends("not supported") /\ UNCHANGED <<protocol, secure, greeting>>
    <3>1. Login!C.tls = "starttls"
      BY <2>0 DEF LoginRuns
    <3> QED
      BY <2>0, <2>1, <3>1, LoginEnds
  <2>2. CASE at' = "handshake" /\ greeting' = FALSE /\ UNCHANGED <<protocol, secure, loginEnds>>
    BY <2>0, <2>2, LoginGoesOn DEF LoginRuns
  <2>3. CASE Login!Broken
    BY <2>0, <2>3, <1>b
  <2> QED
    BY <1>3, <2>1, <2>2, <2>3 DEF Login!Starttls
<1>4. CASE Login!Handshake
  <2>0. at = "handshake" /\ UNCHANGED <<purpose, client, server, sent>>
    BY <1>4 DEF Login!Handshake
  <2>t. Login!C.tls = "starttls"
    BY <2>0 DEF LoginRuns
  <2>1. CASE /\ Login!HandshakeSucceeds /\ secure' = TRUE /\ at' = "login"
             /\ UNCHANGED <<protocol, greeting, loginEnds>>
    BY <2>0, <2>t, <2>1, LoginGoesOn DEF LoginRuns
  <2>2. CASE ~Login!HandshakeSucceeds /\ Login!Ends("ssl") /\ UNCHANGED <<protocol, secure, greeting>>
    <3>1. ~Login!S.good /\ ~Login!C.accept
      BY <2>2 DEF Login!HandshakeSucceeds
    <3> QED
      BY <2>0, <2>t, <2>2, <3>1, LoginEnds
  <2>3. CASE Login!Broken
    BY <2>0, <2>3, <1>b
  <2> QED
    BY <1>4, <2>1, <2>2, <2>3 DEF Login!Handshake
<1>s. ASSUME at = "login", Login!Send, UNCHANGED <<purpose, client, server>>, Login!Broken
      PROVE  LoginRuns'
  <2>1. /\ sent' \subseteq [protocol : Login!Protocols, secure : BOOLEAN]
        /\ Login!SentAsConfigured'
    BY <1>s, LoginSends
  <2>2. at' = "over" /\ loginEnds' = "failed" /\ UNCHANGED <<protocol, secure, greeting>>
    BY <1>s DEF Login!Broken, Login!Ends
  <2>3. Login!LoginOutcome'
    BY <2>2 DEF Login!LoginOutcome
  <2> QED
    BY <1>s, <2>1, <2>2, <2>3 DEF LoginRuns
<1>5. CASE Login!ImapLogin
  <2>0. at = "login" /\ protocol = "imap" /\ UNCHANGED <<purpose, client, server>>
    BY <1>5 DEF Login!ImapLogin
  <2>1. CASE Login!Send /\ Login!S.knows /\ Login!Checked
    <3>1. server["imap"].knows
      BY <2>0, <2>1 DEF Login!S
    <3>2. /\ sent' \subseteq [protocol : Login!Protocols, secure : BOOLEAN]
          /\ Login!SentAsConfigured'
          /\ \E m \in sent' : m.protocol = protocol
          /\ \A m \in sent : m \in sent'
          /\ \A m \in sent' : m \in sent \/ m.protocol = protocol
      BY <2>0, <2>1, LoginSends
    <3> QED
      BY <2>0, <2>1, <3>1, <3>2, LoginChecked
  <2>2. CASE Login!Broken /\ Login!Send
    BY <2>0, <2>2, <1>s
  <2>3. CASE Login!Broken /\ UNCHANGED sent
    BY <2>0, <2>3, <1>b
  <2> QED
    BY <1>5, <2>1, <2>2, <2>3 DEF Login!ImapLogin
<1>6. CASE Login!SmtpLogin
  <2>0. at = "login" /\ protocol = "smtp" /\ UNCHANGED <<purpose, client, server>>
    BY <1>6 DEF Login!SmtpLogin
  <2>1. CASE Login!S.mechanism = "none" /\ Login!Checked /\ UNCHANGED sent
    <3>1. server["smtp"].mechanism = "none"
      BY <2>0, <2>1 DEF Login!S
    <3>2. /\ sent' \subseteq [protocol : Login!Protocols, secure : BOOLEAN]
          /\ Login!SentAsConfigured'
      BY <2>0, <2>1 DEF LoginRuns, Login!SentAsConfigured
    <3> QED
      BY <2>0, <2>1, <3>1, <3>2, LoginChecked
  <2>2. CASE /\ Login!S.mechanism = "other" /\ Login!Ends("not supported")
             /\ UNCHANGED <<protocol, secure, greeting, sent>>
    BY <2>0, <2>2, LoginEnds
  <2>3. CASE Login!Send /\ Login!S.knows /\ Login!Checked
    <3>1. server["smtp"].knows
      BY <2>0, <2>3 DEF Login!S
    <3>2. /\ sent' \subseteq [protocol : Login!Protocols, secure : BOOLEAN]
          /\ Login!SentAsConfigured'
          /\ \E m \in sent' : m.protocol = protocol
          /\ \A m \in sent : m \in sent'
          /\ \A m \in sent' : m \in sent \/ m.protocol = protocol
      BY <2>0, <2>3, LoginSends
    <3> QED
      BY <2>0, <2>3, <3>1, <3>2, LoginChecked
  <2>4. CASE Login!Broken /\ Login!Send
    BY <2>0, <2>4, <1>s
  <2>5. CASE Login!Broken /\ UNCHANGED sent
    BY <2>0, <2>5, <1>b
  <2> QED
    BY <1>6, <2>1, <2>2, <2>3, <2>4, <2>5 DEF Login!SmtpLogin
<1> QED
  BY <1>1, <1>2, <1>3, <1>4, <1>5, <1>6 DEF Login!LoginNext, Login!LoginStep

LEMMA LoginStarts == Login!LoginInit => LoginRuns
<1> SUFFICES ASSUME Login!LoginInit
             PROVE  LoginRuns
  OBVIOUS
<1>1. PICK q \in Login!Protocols, c \in Login!Clients, s \in Login!Servers :
        /\ q = "imap" => c.user
        /\ client = [r \in Login!Protocols |-> IF r = q THEN c ELSE Login!Plain]
        /\ server = [r \in Login!Protocols |-> IF r = q THEN s ELSE Login!Works]
  BY DEF Login!LoginInit
<1>2. Login!Plain \in Login!Clients /\ Login!Works \in Login!Servers
  BY DEF Login!Plain, Login!Works, Login!Clients, Login!Servers
<1>3. /\ client \in [Login!Protocols -> Login!Clients]
      /\ server \in [Login!Protocols -> Login!Servers]
  BY <1>1, <1>2
<1>4. /\ protocol = "imap" /\ secure = FALSE /\ greeting = TRUE /\ loginEnds = None /\ sent = {}
      /\ purpose \in {"account", "dialog"}
      /\ at = IF purpose = "account" THEN "lookup" ELSE "connect"
  BY DEF Login!LoginInit
<1>5. Login!SentAsConfigured
  BY <1>4 DEF Login!SentAsConfigured
<1>6. Login!LoginOutcome
  BY <1>4, NoneAssumption DEF Login!LoginOutcome
<1> QED
  BY <1>3, <1>4, <1>5, <1>6 DEF LoginRuns, Login!Protocols

LEMMA LoginStaysOff == LoginOff /\ Login!LoginNext => FALSE
  BY DEF LoginOff, Login!LoginOff, Login!LoginNext, Login!LoginStep, Login!Lookup, Login!Connect,
         Login!Starttls, Login!Handshake, Login!ImapLogin, Login!SmtpLogin

LEMMA LoginInvStep == LoginInv /\ (Login!LoginNext \/ UNCHANGED logins) => LoginInv'
<1>1. LoginInv /\ Login!LoginNext => LoginInv'
  BY LoginIsInductive, LoginStaysOff DEF LoginInv
<1>2. ASSUME LoginInv, UNCHANGED logins
      PROVE  LoginInv'
  <2>1. UNCHANGED <<purpose, client, server, protocol, at, secure, greeting, loginEnds, sent>>
    BY <1>2 DEF logins
  <2>2. LoginOff => LoginOff'
    BY <2>1 DEF LoginOff, Login!LoginOff
  <2>3. ASSUME LoginRuns PROVE LoginRuns'
    <3>1. /\ Login!C' = Login!C
          /\ Login!HandshakeSucceeds' <=> Login!HandshakeSucceeds
          /\ Login!AsksSmtp' <=> Login!AsksSmtp
      BY <2>1 DEF Login!C, Login!S, Login!HandshakeSucceeds, Login!AsksSmtp
    <3>2. Login!SentAsConfigured'
      BY <2>1, <2>3 DEF LoginRuns, Login!SentAsConfigured
    <3>3. Login!LoginOutcome'
      BY <2>1, <2>3 DEF LoginRuns, Login!LoginOutcome, Login!C, Login!S, Login!OffersStarttls, Login!AsksSmtp
    <3> QED
      BY <2>1, <2>3, <3>1, <3>2, <3>3 DEF LoginRuns
  <2> QED
    BY <1>2, <2>2, <2>3 DEF LoginInv
<1> QED
  BY <1>1, <1>2

-----------------------------------------------------------------------------
(* The discovery of a WebDAV server. *)

\* The next candidate, or the end of the discovery, for services that are what
\* was offered.
LEMMA IterateKeeps ==
    ASSUME DiscoveryInv, step # "over", task = "discover",
           NEW queue \in Seq(Candidates), NEW found, NEW refused \in BOOLEAN,
           Discovery!Iterate(queue, found, refused),
           found = offered', refused <=> "refused" \in heard',
           UNCHANGED <<task, accept>>
    PROVE  DiscoveryInv'
<1> DEFINE own == <<Discovery!At(Discovery!CALENDAR, "uri"), Discovery!At(Discovery!CONTACTS, "uri"),
                    Discovery!At(Discovery!FILES, "uri"), Discovery!At(Discovery!FILES, "nextcloud")>>
           todo == IF queue = <<>> /\ found = {} /\ ~uriFallback THEN own ELSE queue
<1>1. /\ services' = found /\ authError' = refused
      /\ uriFallback' = (uriFallback \/ (queue = <<>> /\ found = {}))
      /\ IF todo # <<>>
         THEN /\ candidate' = Head(todo) /\ candidates' = Tail(todo)
              /\ step' = "request" /\ UNCHANGED discoveryEnds
         ELSE /\ candidate' = None /\ candidates' = <<>>
              /\ step' = "over"
              /\ discoveryEnds' = IF found # {} THEN "ok"
                                  ELSE IF refused THEN "not authorized" ELSE "not supported"
  BY DEF Discovery!Iterate, Discovery!Return
<1>2. own \in Seq(Candidates) /\ own # <<>>
  <2>1. /\ Discovery!At(Discovery!CALENDAR, "uri") \in Candidates
        /\ Discovery!At(Discovery!CONTACTS, "uri") \in Candidates
        /\ Discovery!At(Discovery!FILES, "uri") \in Candidates
        /\ Discovery!At(Discovery!FILES, "nextcloud") \in Candidates
    BY DEF Candidates, Discovery!At, Discovery!Services, Discovery!CALENDAR,
           Discovery!CONTACTS, Discovery!FILES
  <2> QED
    BY <2>1
<1>3. todo \in Seq(Candidates)
  BY <1>2
<1> HIDE DEF own
<1>4. CASE todo # <<>>
  <2>1. Head(todo) \in Candidates /\ Tail(todo) \in Seq(Candidates)
    BY <1>3, <1>4, HeadTailProperties
  <2>2. Discovery!DiscoveryOutcome'
    BY <1>1, <1>4, NoneAssumption DEF DiscoveryInv, Discovery!DiscoveryOutcome
  <2> QED
    BY <1>1, <1>4, <2>1, <2>2 DEF DiscoveryInv
<1>5. CASE todo = <<>>
  <2>1. /\ candidates' = <<>> /\ step' = "over"
        /\ discoveryEnds' = IF found # {} THEN "ok"
                            ELSE IF refused THEN "not authorized" ELSE "not supported"
    BY <1>1, <1>5
  <2>2. found = {} => uriFallback'
    BY <1>1, <1>2, <1>5
  <2>3. Discovery!DiscoveryOutcome'
    BY <1>1, <2>1, <2>2 DEF Discovery!DiscoveryOutcome
  <2>4. candidates' \in Seq(Candidates)
    BY <2>1, EmptySeq
  <2> QED
    BY <1>1, <2>1, <2>3, <2>4 DEF DiscoveryInv
<1> QED
  BY <1>4, <1>5

LEMMA LookupsKeep == DiscoveryInv /\ Discovery!LookupAnswers => DiscoveryInv'
<1> SUFFICES ASSUME DiscoveryInv, Discovery!LookupAnswers
             PROVE  DiscoveryInv'
  OBVIOUS
<1>0. /\ step = "lookup" /\ task = "discover" /\ UNCHANGED <<task, accept, offered, heard>>
      /\ services = offered /\ (authError <=> "refused" \in heard) /\ authError \in BOOLEAN
      /\ candidates \in Seq(Candidates)
  BY DEF Discovery!LookupAnswers, DiscoveryInv
<1>u. ASSUME UNCHANGED <<step, uriFallback, authError, services, discoveryEnds>>,
             candidates' \in Seq(Candidates)
      PROVE  DiscoveryInv'
  <2>1. Discovery!DiscoveryOutcome'
    BY <1>0, <1>u DEF DiscoveryInv, Discovery!DiscoveryOutcome
  <2> QED
    BY <1>0, <1>u, <2>1 DEF DiscoveryInv
<1>e. ASSUME NEW n, NEW queue \in Seq(Candidates), Discovery!LookupEnds(n, queue)
      PROVE  DiscoveryInv'
  <2>1. CASE Discovery!Iterate(queue, services, authError)
    BY <1>0, <2>1, IterateKeeps
  <2>2. CASE candidates' = queue
             /\ UNCHANGED <<step, uriFallback, authError, services, discoveryEnds>>
    BY <1>u, <2>2
  <2> QED
    BY <1>e, <2>1, <2>2 DEF Discovery!LookupEnds
<1>1. PICK n \in DOMAIN Lookups :
        \/ Discovery!ServiceLookup(n)
        \/ Discovery!LookupEnds(n, candidates)
        \/ Discovery!LookupEnds(n, Append(candidates, Discovery!At(Lookups[n], "srv")))
  BY DEF Discovery!LookupAnswers
<1>2. CASE Discovery!ServiceLookup(n)
  <2>1. UNCHANGED <<step, candidates, uriFallback, authError, services, discoveryEnds>>
    BY <1>2 DEF Discovery!ServiceLookup
  <2> QED
    BY <1>0, <1>u, <2>1
<1>3. CASE Discovery!LookupEnds(n, candidates)
  BY <1>0, <1>3, <1>e
<1>4. CASE Discovery!LookupEnds(n, Append(candidates, Discovery!At(Lookups[n], "srv")))
  <2>1. Discovery!At(Lookups[n], "srv") \in Candidates
    BY DEF Lookups, Candidates, Discovery!At, Discovery!Services, Discovery!CALENDAR,
           Discovery!CONTACTS
  <2>2. Append(candidates, Discovery!At(Lookups[n], "srv")) \in Seq(Candidates)
    BY <1>0, <2>1, AppendProperties
  <2> QED
    BY <1>4, <1>e, <2>2
<1> QED
  BY <1>1, <1>2, <1>3, <1>4

\* The certificate is refused only if it is not to be accepted.
LEMMA RefusedUnlessAccepted ==
    ASSUME NEW r \in Discovery!Replies, r.what = "ssl"
    PROVE  ~accept
<1>1. SUFFICES ASSUME accept
               PROVE  FALSE
  OBVIOUS
<1>2. CASE r \in {Discovery!Says(w) : w \in {"error", "missing", "refused", "odd", "no dav"}}
  <2>1. PICK w \in {"error", "missing", "refused", "odd", "no dav"} : r = Discovery!Says(w)
    BY <1>2
  <2>2. r.what = w
    BY <2>1 DEF Discovery!Says
  <2> QED
    BY <2>1, <2>2
<1>3. CASE r \in {Discovery!Supports("dav", f) : f \in SUBSET Discovery!Services \ {{}}}
  BY <1>3 DEF Discovery!Supports
<1>4. CASE r \in {Discovery!Supports("nextcloud", Discovery!Services),
                 Discovery!Supports("sogo", {Discovery!CALENDAR, Discovery!CONTACTS})}
  BY <1>4 DEF Discovery!Supports
<1> QED
  BY <1>1, <1>2, <1>3, <1>4 DEF Discovery!Replies

\* A check ends with what its only answer stands for.
LEMMA ChecksKeep ==
    DiscoveryInv /\ (Discovery!Keyring \/ Discovery!CheckAnswers) => DiscoveryInv'
<1>1. ASSUME DiscoveryInv, Discovery!Keyring
      PROVE  DiscoveryInv'
  <2>1. /\ step = "keyring" /\ task = "account" /\ discoveryEnds = None
        /\ UNCHANGED <<task, accept, candidates, candidate, uriFallback, authError,
                       services, offered, heard>>
        /\ \/ step' = "request" /\ UNCHANGED discoveryEnds
           \/ step' = "over" /\ discoveryEnds' = "not authorized"
    BY <1>1 DEF Discovery!Keyring, Discovery!Return, DiscoveryInv
  <2>2. Discovery!DiscoveryOutcome'
    BY <2>1, NoneAssumption DEF Discovery!DiscoveryOutcome
  <2>3. step' = "request" => candidate' \in Candidates
    BY <1>1, <2>1 DEF DiscoveryInv
  <2> QED
    BY <1>1, <2>1, <2>2, <2>3 DEF DiscoveryInv
<1>2. ASSUME DiscoveryInv, Discovery!CheckAnswers
      PROVE  DiscoveryInv'
  <2>1. PICK r \in Discovery!Replies :
          Discovery!Hear(r) /\ Discovery!Return(Discovery!CheckCode(r))
    BY <1>2 DEF Discovery!CheckAnswers
  <2>2. /\ step' = "over" /\ discoveryEnds' = Discovery!CheckCode(r)
        /\ r.what \in heard'
        /\ task \in {"account", "check"}
        /\ UNCHANGED <<task, accept, candidates, uriFallback, authError>>
    BY <1>2, <2>1 DEF Discovery!CheckAnswers, Discovery!Return, Discovery!Hear
  <2>3. r.what = "ssl" => ~accept
    BY RefusedUnlessAccepted
  <2>4. Discovery!CheckCode(r) = "ok" => r.what \in {"dav", "nextcloud", "sogo", "missing"}
    BY DEF Discovery!CheckCode
  <2>5. Discovery!CheckCode(r) = "ssl" => r.what = "ssl"
    BY DEF Discovery!CheckCode
  <2>6. Discovery!CheckCode(r) = "not authorized" => r.what = "refused"
    BY DEF Discovery!CheckCode
  <2>7. Discovery!DiscoveryOutcome'
    BY <2>2, <2>3, <2>4, <2>5, <2>6 DEF Discovery!DiscoveryOutcome
  <2> QED
    BY <1>2, <2>2, <2>7 DEF DiscoveryInv
<1> QED
  BY <1>1, <1>2

LEMMA DiscoverKeeps == DiscoveryInv /\ Discovery!DiscoverAnswers => DiscoveryInv'
<1> SUFFICES ASSUME DiscoveryInv, Discovery!DiscoverAnswers
             PROVE  DiscoveryInv'
  OBVIOUS
<1>0. /\ step = "request" /\ task = "discover" /\ UNCHANGED <<task, accept, lookups>>
      /\ services = offered /\ (authError <=> "refused" \in heard) /\ authError \in BOOLEAN
      /\ candidates \in Seq(Candidates) /\ candidate \in Candidates
      /\ discoveryEnds = None
  BY DEF Discovery!DiscoverAnswers, DiscoveryInv
<1>1. PICK r \in Discovery!Replies :
          /\ Discovery!Hear(r)
          /\ \/ /\ r.what = "ssl" /\ Discovery!Return("ssl")
                /\ UNCHANGED <<candidates, candidate, wellKnown, uriFallback, authError, services>>
             \/ /\ r.what \in {"error", "odd", "no dav"}
                /\ Discovery!Iterate(candidates, services, authError)
             \/ r.what = "refused" /\ Discovery!Iterate(candidates, services, TRUE)
             \/ /\ r.what \in {"nextcloud", "sogo"}
                /\ Discovery!Iterate(<<>>,
                      services \cup {Discovery!At(s, r.what) : s \in r.features}, authError)
             \/ /\ r.what = "dav" /\ candidate.service \in r.features
                /\ Discovery!Iterate(candidates, services \cup {candidate}, authError)
             \/ /\ r.what = "missing" \/ (r.what = "dav" /\ candidate.service \notin r.features)
                /\ IF Discovery!OtherAddress THEN Discovery!AskWellKnown
                   ELSE Discovery!Iterate(candidates, services, authError)
  BY DEF Discovery!DiscoverAnswers
<1>2. heard' = (heard \cap {"refused"}) \cup {r.what} /\ offered' = offered \cup Discovery!Offers(r)
  BY <1>1 DEF Discovery!Hear
<1>3. r.what = "ssl" => ~accept
  BY RefusedUnlessAccepted
<1>4. /\ r.what \notin {"dav", "nextcloud", "sogo"} => offered' = offered
      /\ r.what # "refused" => (authError <=> "refused" \in heard')
      /\ r.what = "refused" => "refused" \in heard'
  BY <1>0, <1>2 DEF Discovery!Offers
<1>d. ASSUME r.what = "dav"
      PROVE  /\ candidate.service \in r.features => offered' = services \cup {candidate}
             /\ candidate.service \notin r.features => offered' = services
  <2>1. Discovery!Offers(r) = {candidate} \cap {Discovery!At(s, candidate.place) : s \in r.features}
    BY <1>d DEF Discovery!Offers
  <2>2. candidate = Discovery!At(candidate.service, candidate.place)
    BY <1>0 DEF Candidates, Discovery!At
  <2>3. \A s : Discovery!At(s, candidate.place).service = s
    BY DEF Discovery!At
  <2> QED
    BY <1>0, <1>2, <2>1, <2>2, <2>3
<1>5. CASE r.what = "ssl" /\ Discovery!Return("ssl")
           /\ UNCHANGED <<candidates, candidate, wellKnown, uriFallback, authError, services>>
  <2>1. step' = "over" /\ discoveryEnds' = "ssl" /\ "ssl" \in heard'
    BY <1>2, <1>5 DEF Discovery!Return
  <2>2. Discovery!DiscoveryOutcome'
    BY <1>0, <1>3, <1>5, <2>1 DEF Discovery!DiscoveryOutcome
  <2> QED
    BY <1>0, <1>5, <2>1, <2>2 DEF DiscoveryInv
<1>6. CASE /\ r.what \in {"error", "odd", "no dav"}
           /\ Discovery!Iterate(candidates, services, authError)
  BY <1>0, <1>4, <1>6, IterateKeeps
<1>7. CASE r.what = "refused" /\ Discovery!Iterate(candidates, services, TRUE)
  BY <1>0, <1>4, <1>7, IterateKeeps
<1>8. CASE /\ r.what \in {"nextcloud", "sogo"}
           /\ Discovery!Iterate(<<>>, services \cup {Discovery!At(s, r.what) : s \in r.features}, authError)
  <2>1. offered' = services \cup {Discovery!At(s, r.what) : s \in r.features}
    BY <1>0, <1>2, <1>8 DEF Discovery!Offers
  <2>2. <<>> \in Seq(Candidates)
    BY EmptySeq
  <2> QED
    BY <1>0, <1>4, <1>8, <2>1, <2>2, IterateKeeps
<1>9. CASE /\ r.what = "dav" /\ candidate.service \in r.features
           /\ Discovery!Iterate(candidates, services \cup {candidate}, authError)
  BY <1>0, <1>4, <1>d, <1>9, IterateKeeps
<1>10. CASE /\ r.what = "missing" \/ (r.what = "dav" /\ candidate.service \notin r.features)
            /\ IF Discovery!OtherAddress THEN Discovery!AskWellKnown
               ELSE Discovery!Iterate(candidates, services, authError)
  <2>1. offered' = services /\ (authError <=> "refused" \in heard')
    BY <1>0, <1>4, <1>d, <1>10
  <2>2. CASE Discovery!Iterate(candidates, services, authError)
    BY <1>0, <2>1, <2>2, IterateKeeps
  <2>3. CASE Discovery!AskWellKnown
    <3>1. UNCHANGED <<step, candidates, candidate, uriFallback, authError, services, discoveryEnds>>
      BY <2>3 DEF Discovery!AskWellKnown
    <3>2. Discovery!DiscoveryOutcome'
      BY <1>0, <3>1, NoneAssumption DEF Discovery!DiscoveryOutcome
    <3> QED
      BY <1>0, <2>1, <3>1, <3>2 DEF DiscoveryInv
  <2> QED
    BY <1>10, <2>2, <2>3
<1> QED
  BY <1>1, <1>5, <1>6, <1>7, <1>8, <1>9, <1>10

LEMMA DiscoveryStarts == Discovery!DiscoveryInit \/ DiscoveryOff => DiscoveryInv
<1>1. ASSUME Discovery!Fresh
      PROVE  Discovery!DiscoveryOutcome /\ uriFallback = FALSE /\ authError = FALSE
  BY <1>1, NoneAssumption DEF Discovery!Fresh, Discovery!DiscoveryOutcome
<1>2. DiscoveryOff => DiscoveryInv
  BY <1>1, EmptySeq DEF DiscoveryOff, Discovery!DiscoveryOff, DiscoveryInv
<1>3. ASSUME Discovery!DiscoveryInit
      PROVE  DiscoveryInv
  <2>0. /\ accept \in BOOLEAN /\ Discovery!Fresh /\ services = {} /\ offered = {} /\ heard = {}
        /\ discoveryEnds = None
    BY <1>3 DEF Discovery!DiscoveryInit, Discovery!Fresh
  <2>1. CASE /\ task \in {"account", "check"}
             /\ step = IF task = "account" THEN "keyring" ELSE "request"
             /\ candidates = <<>>
             /\ candidate \in {Discovery!At(s, "uri") : s \in Discovery!Services}
    <3>1. candidate \in Candidates
      BY <2>1 DEF Candidates, Discovery!At
    <3> QED
      BY <1>1, <2>0, <2>1, <3>1, EmptySeq DEF DiscoveryInv
  <2>2. CASE task = "discover" /\ step = "lookup" /\ candidates = <<>>
    BY <1>1, <2>0, <2>2, EmptySeq DEF DiscoveryInv
  <2>3. CASE /\ task = "discover" /\ step = "request"
             /\ \E k \in Discovery!Known : candidates = Tail(k) /\ candidate = Head(k)
    <3>1. PICK k \in Discovery!Known : candidates = Tail(k) /\ candidate = Head(k)
      BY <2>3
    <3>2. k \in Seq(Candidates) /\ k # <<>>
      <4>1. /\ Discovery!At(Discovery!CALENDAR, "host") \in Candidates
            /\ Discovery!At(Discovery!CONTACTS, "host") \in Candidates
            /\ Discovery!At(Discovery!FILES, "host") \in Candidates
        BY DEF Candidates, Discovery!At, Discovery!Services, Discovery!FILES,
               Discovery!CALENDAR, Discovery!CONTACTS
      <4>2. CASE k = <<Discovery!At(Discovery!CALENDAR, "host"), Discovery!At(Discovery!CONTACTS, "host"),
                       Discovery!At(Discovery!FILES, "host")>>
        BY <4>1, <4>2
      <4>3. CASE k = <<Discovery!At(Discovery!CALENDAR, "host"), Discovery!At(Discovery!FILES, "host")>>
        BY <4>1, <4>3
      <4> QED
        BY <4>2, <4>3 DEF Discovery!Known
    <3>3. candidates \in Seq(Candidates) /\ candidate \in Candidates
      BY <3>1, <3>2, HeadTailProperties
    <3> QED
      BY <1>1, <2>0, <2>3, <3>3 DEF DiscoveryInv
  <2> QED
    BY <1>3, <2>1, <2>2, <2>3 DEF Discovery!DiscoveryInit
<1> QED
  BY <1>2, <1>3

LEMMA DiscoveryInvStep ==
    DiscoveryInv /\ (Discovery!DiscoveryNext \/ UNCHANGED discoveries) => DiscoveryInv'
<1>1. DiscoveryInv /\ Discovery!DiscoveryNext => DiscoveryInv'
  BY ChecksKeep, LookupsKeep, DiscoverKeeps DEF Discovery!DiscoveryNext
<1>2. ASSUME DiscoveryInv, UNCHANGED discoveries
      PROVE  DiscoveryInv'
  <2>1. UNCHANGED <<task, accept, step, candidates, candidate, uriFallback, authError,
                    services, discoveryEnds, offered, heard>>
    BY <1>2 DEF discoveries
  <2>2. Discovery!DiscoveryOutcome'
    BY <1>2, <2>1 DEF DiscoveryInv, Discovery!DiscoveryOutcome
  <2> QED
    BY <1>2, <2>1, <2>2 DEF DiscoveryInv
<1> QED
  BY <1>1, <1>2

-----------------------------------------------------------------------------
(* What the modules of the providers share. *)

\* goa_provider_dialog_set_state keeps a dialog that is done, gives another one
\* the state, and closes it if that state is the last.
LEMMA SetStateIs ==
    ASSUME NEW d \in Dialogs, NEW state \in DialogStates
    PROVE  /\ SetState(d, state) \in Dialogs
           /\ d.state = DONE => SetState(d, state) = d
           /\ d.state # DONE => /\ SetState(d, state).state = state
                                /\ SetState(d, state).open = (d.open /\ state # DONE)
  BY DEF SetState, Dialogs, DialogStates, DONE

\* An answer closes the dialog.
LEMMA ReturnIs ==
    ASSUME NEW d \in Dialogs, NEW answer \in Answered
    PROVE  /\ ReturnInDialog(d, answer) \in Dialogs
           /\ d.state # DONE => ~ReturnInDialog(d, answer).open
<1>1. DONE \in DialogStates
  BY DEF DialogStates
<1>2. CASE d.state = DONE
  BY <1>2 DEF ReturnInDialog
<1>3. CASE d.state # DONE
  <2>1. SetState(d, DONE) \in Dialogs /\ SetState(d, DONE).open = FALSE
    BY <1>1, <1>3, SetStateIs
  <2>2. Append(SetState(d, DONE).answers, answer) \in Seq(Answered)
    BY <2>1, AppendProperties DEF Dialogs
  <2>3. ReturnInDialog(d, answer) =
          [SetState(d, DONE) EXCEPT !.answers = Append(SetState(d, DONE).answers, answer)]
    BY <1>3 DEF ReturnInDialog
  <2> QED
    BY <2>1, <2>2, <2>3 DEF Dialogs
<1> QED
  BY <1>2, <1>3

\* One that the dialog does not learn of leaves it as it is.
LEMMA ReturnBehindIs ==
    ASSUME NEW d \in Dialogs, NEW answer \in Answered
    PROVE  /\ ReturnBehindDialog(d, answer) \in Dialogs
           /\ ReturnBehindDialog(d, answer).state = d.state
           /\ ReturnBehindDialog(d, answer).open = d.open
<1>1. Append(d.answers, answer) \in Seq(Answered)
  BY AppendProperties DEF Dialogs
<1> QED
  BY <1>1 DEF ReturnBehindDialog, Dialogs

\* Making the dialog busy.
LEMMA ActivateIs ==
    ASSUME DialogOK, OneCall, Activate
    PROVE  /\ dialog.open /\ dialog.state \in {READY, ERROR} /\ op = None
           /\ saved' = None /\ accepted' = {} /\ provider' = provider /\ kind' = kind
           /\ SetState(dialog, BUSY) \in Dialogs
           /\ SetState(dialog, BUSY).state = BUSY /\ SetState(dialog, BUSY).open
           /\ ReturnInDialog(SetState(dialog, BUSY), "error") \in Dialogs
           /\ ~ReturnInDialog(SetState(dialog, BUSY), "error").open
<1>1. /\ dialog.open /\ dialog.state \in {READY, ERROR}
      /\ accepted' = {} /\ saved' = saved /\ provider' = provider /\ kind' = kind
  BY DEF Activate
<1>2. op = None /\ saved = None
  BY <1>1 DEF OneCall, Waiting, READY, ERROR, BUSY
<1>3. /\ SetState(dialog, BUSY) \in Dialogs
      /\ SetState(dialog, BUSY).state = BUSY /\ SetState(dialog, BUSY).open
  BY <1>1, SetStateIs DEF DialogOK, DialogStates, READY, ERROR, BUSY, DONE
<1>4. "error" \in Answered
  BY DEF Answered
<1>5. BUSY # DONE
  BY DEF BUSY, DONE
<1>6. /\ ReturnInDialog(SetState(dialog, BUSY), "error") \in Dialogs
      /\ ~ReturnInDialog(SetState(dialog, BUSY), "error").open
  BY <1>3, <1>4, <1>5, ReturnIs
<1> QED
  BY <1>1, <1>2, <1>3, <1>6

\* An answer to the call under way finds the dialog busy, and an error keeps it
\* open but an end closes it.
LEMMA AnswersAre ==
    ASSUME DialogOK, OneCall, NEW where, Answers(where)
    PROVE  /\ WaitsFor(where) /\ dialog.open /\ dialog.state = BUSY
           /\ where # "ensure" => saved = None
           /\ provider' = provider /\ kind' = kind /\ tries' = tries
           /\ ReportError(dialog) \in Dialogs /\ ReportError(dialog).state = ERROR
           /\ ReportError(dialog).open
           /\ \A a \in Answered : /\ ReturnInDialog(dialog, a) \in Dialogs
                                  /\ ~ReturnInDialog(dialog, a).open
                                  /\ ReturnBehindDialog(dialog, a) \in Dialogs
                                  /\ ReturnBehindDialog(dialog, a).state = BUSY
                                  /\ ReturnBehindDialog(dialog, a).open
<1>1. op # None /\ op.at = where /\ dialog.open /\ provider' = provider /\ kind' = kind /\ tries' = tries
  BY DEF Answers
<1>2. dialog.state = BUSY /\ (where # "ensure" => saved = None)
  BY <1>1 DEF OneCall, Waiting
<1>3. ReportError(dialog) \in Dialogs /\ ReportError(dialog).state = ERROR /\ ReportError(dialog).open
  BY <1>1, <1>2, SetStateIs DEF DialogOK, ReportError, DialogStates, ERROR, BUSY, DONE
<1>4. ASSUME NEW a \in Answered
      PROVE  /\ ReturnInDialog(dialog, a) \in Dialogs
             /\ ~ReturnInDialog(dialog, a).open
             /\ ReturnBehindDialog(dialog, a) \in Dialogs
             /\ ReturnBehindDialog(dialog, a).state = BUSY
             /\ ReturnBehindDialog(dialog, a).open
  BY <1>1, <1>2, ReturnIs, ReturnBehindIs DEF DialogOK, BUSY, DONE
<1> QED
  BY <1>1, <1>2, <1>3, <1>4 DEF WaitsFor, Waiting

\* Closing a dialog.
LEMMA CloseIs ==
    ASSUME DialogOK, Close
    PROVE  /\ dialog' \in Dialogs /\ ~dialog'.open
           /\ UNCHANGED <<provider, kind, op, accepted, saved, edits, tries>>
<1>1. "dismissed" \in Answered
  BY DEF Answered
<1>2. ReturnInDialog(dialog, "dismissed") \in Dialogs
  BY <1>1, ReturnIs DEF DialogOK
<1> QED
  BY <1>2 DEF Close, Closed, Dialogs

\* What keeps OneCall: the dialog is closed, nothing is under way and nothing
\* stored, or it is busy with nothing stored before the last call.
LEMMA OneCallStep ==
    \/ ~dialog'.open
    \/ op' = None /\ saved' = None
    \/ dialog'.state = BUSY /\ (saved' = None \/ op' = None \/ op'.at = "ensure")
    => OneCall'
  BY DEF OneCall, Waiting

\* The answer to the addition of an account closes the dialog.
LEMMA AddAnswersAre ==
    ASSUME DialogOK, OneCall, AddAnswers
    PROVE  /\ WaitsFor("add") /\ saved = None
           /\ provider' = provider /\ kind' = kind /\ tries' = tries /\ accepted' = accepted
           /\ dialog' \in Dialogs /\ ~dialog'.open /\ OneCall'
           /\ saved' \in {op.account, None}
<1>1. Answers("add")
  BY DEF AddAnswers
<1>2. "account" \in Answered /\ "error" \in Answered
  BY DEF Answered
<1>3. /\ WaitsFor("add") /\ saved = None
      /\ provider' = provider /\ kind' = kind /\ tries' = tries
      /\ \A a \in Answered : ReturnInDialog(dialog, a) \in Dialogs /\ ~ReturnInDialog(dialog, a).open
  BY <1>1, AnswersAre
<1>4. dialog' \in Dialogs /\ ~dialog'.open /\ accepted' = accepted /\ saved' \in {op.account, None}
  BY <1>2, <1>3 DEF AddAnswers
<1> QED
  BY <1>3, <1>4, OneCallStep

\* The check of what was stored ends the call, and an error closes the dialog.
LEMMA EnsureAnswersAre ==
    ASSUME DialogOK, OneCall, EnsureAnswers
    PROVE  /\ WaitsFor("ensure") /\ op' = None
           /\ provider' = provider /\ kind' = kind /\ tries' = tries
           /\ accepted' = accepted /\ saved' = saved
           /\ dialog' \in Dialogs /\ (~dialog'.open \/ dialog'.state = BUSY) /\ OneCall'
<1>1. Answers("ensure")
  BY DEF EnsureAnswers
<1>2. "ok" \in Answered /\ "error" \in Answered
  BY DEF Answered
<1>3. /\ WaitsFor("ensure")
      /\ provider' = provider /\ kind' = kind /\ tries' = tries
      /\ \A a \in Answered : /\ ReturnInDialog(dialog, a) \in Dialogs
                             /\ ~ReturnInDialog(dialog, a).open
                             /\ ReturnBehindDialog(dialog, a) \in Dialogs
                             /\ ReturnBehindDialog(dialog, a).state = BUSY
  BY <1>1, AnswersAre
<1>4. /\ dialog' \in Dialogs /\ (~dialog'.open \/ dialog'.state = BUSY)
      /\ op' = None /\ accepted' = accepted /\ saved' = saved
  BY <1>2, <1>3 DEF EnsureAnswers
<1> QED
  BY <1>3, <1>4, OneCallStep

\* Storing a password, when an answer has come.
LEMMA StorePasswordIs ==
    ASSUME DialogOK, OneCall, NEW where, Answers(where), where # "ensure",
           NEW password, StorePassword(password)
    PROVE  /\ dialog' \in Dialogs /\ (~dialog'.open \/ dialog'.state = BUSY) /\ OneCall'
           /\ \/ saved' = password /\ op' = [at |-> "ensure"]
              \/ saved' = None /\ op' = None
<1>1. "error" \in Answered
  BY DEF Answered
<1>2. /\ dialog.open /\ dialog.state = BUSY /\ saved = None
      /\ ReturnInDialog(dialog, "error") \in Dialogs /\ ~ReturnInDialog(dialog, "error").open
  BY <1>1, AnswersAre
<1>3. CASE saved' = password /\ op' = [at |-> "ensure"] /\ UNCHANGED dialog
  BY <1>2, <1>3, OneCallStep DEF DialogOK
<1>4. CASE saved' = saved /\ op' = None /\ dialog' = ReturnInDialog(dialog, "error")
  BY <1>2, <1>4, OneCallStep
<1> QED
  BY <1>3, <1>4 DEF StorePassword

-----------------------------------------------------------------------------
(* The dialogs of the IMAP/SMTP provider. *)

LEMMA MailShares ==
    /\ \A d, s : Mail!SetState(d, s) = SetState(d, s) /\ Mail!ReturnInDialog(d, s) = ReturnInDialog(d, s)
    /\ Mail!Edit <=> Edit
    /\ Mail!Activate <=> Activate
    /\ \A where : Mail!Answers(where) <=> Answers(where)
    /\ Mail!Fails <=> Fails
    /\ \A a : Mail!AddAccount(a) <=> AddAccount(a)
    /\ Mail!AddAnswers <=> AddAnswers
    /\ Mail!Close <=> Close
<1>1. /\ \A d, s : Mail!SetState(d, s) = SetState(d, s)
      /\ \A d, s : Mail!ReturnInDialog(d, s) = ReturnInDialog(d, s)
  BY DEF Mail!SetState, SetState, Mail!ReturnInDialog, ReturnInDialog, Mail!DONE, DONE
<1>2. Mail!Edit <=> Edit
  BY DEF Mail!Edit, Edit, Mail!BUSY, BUSY
<1>3. Mail!Activate <=> Activate
  BY DEF Mail!Activate, Activate, Mail!READY, READY, Mail!ERROR, ERROR
<1>4. \A where : Mail!Answers(where) <=> Answers(where)
  BY DEF Mail!Answers, Answers
<1>5. Mail!Fails <=> Fails
  BY <1>1 DEF Mail!Fails, Fails, Mail!ReportError, ReportError, Mail!ERROR, ERROR
<1>6. \A a : Mail!AddAccount(a) <=> AddAccount(a)
  BY DEF Mail!AddAccount, AddAccount
<1>7. Mail!AddAnswers <=> AddAnswers
  BY <1>1, <1>4 DEF Mail!AddAnswers, AddAnswers
<1>8. Mail!Close <=> Close
  BY <1>1 DEF Mail!Close, Close, Mail!Closed, Closed
<1> QED
  BY <1>1, <1>2, <1>3, <1>4, <1>5, <1>6, <1>7, <1>8

LEMMA MailStep == DialogOK /\ MailInv /\ Mail!MailNext => DialogOK' /\ MailInv' /\ provider' = provider
<1> SUFFICES ASSUME DialogOK, MailInv, Mail!MailNext
             PROVE  dialog' \in Dialogs /\ MailInv' /\ provider' = provider
  BY DEF DialogOK
<1> DEFINE Quiet == ~dialog.open \/ dialog.state \in {READY, BUSY, ERROR} => discovery = None
<1>0. /\ provider = "mail" /\ OneCall /\ Quiet /\ DOMAIN ssl = {"imap", "smtp"}
      /\ MailCalls /\ Mail!MailSavedWasAccepted
  BY DEF MailInv, Mail!MailNext
<1>m. ASSUME dialog' \in Dialogs, provider' = provider, OneCall', Quiet',
             DOMAIN ssl' = {"imap", "smtp"}, MailCalls', Mail!MailSavedWasAccepted'
      PROVE  dialog' \in Dialogs /\ MailInv' /\ provider' = provider
  BY <1>m DEF MailInv
<1>s. saved' = None => Mail!MailSavedWasAccepted'
  BY DEF Mail!MailSavedWasAccepted
<1>w. ~dialog'.open \/ op' = None => MailCalls'
  BY DEF MailCalls, WaitsFor, Waiting
<1>q. ASSUME dialog' \in Dialogs, provider' = provider, op' = None, saved' = None, Quiet',
             DOMAIN ssl' = {"imap", "smtp"}
      PROVE  dialog' \in Dialogs /\ MailInv' /\ provider' = provider
  BY <1>q, <1>m, <1>s, <1>w, OneCallStep
<1>e. ASSUME Edit
      PROVE  /\ dialog.open /\ op' = None /\ saved' = None /\ provider' = provider
  BY <1>0, <1>e DEF Edit, OneCall, Waiting
<1>l. ASSUME NEW f, Mail!OnLoginChanged(f)
      PROVE  dialog' \in Dialogs /\ Quiet'
  <2>1. Mail!LoginState(f) \in DialogStates
    BY DEF Mail!LoginState, DialogStates, Mail!READY, READY, Mail!IDLE, IDLE
  <2>2. dialog' = SetState(dialog, Mail!LoginState(f)) /\ discovery' = None
    BY <1>l, MailShares DEF Mail!OnLoginChanged
  <2> QED
    BY <2>1, <2>2, SetStateIs DEF DialogOK
<1>i. ASSUME dialog.open
      PROVE  /\ SetState(dialog, IDLE) \in Dialogs /\ SetState(dialog, IDLE).open
             /\ SetState(dialog, IDLE).state \notin {READY, BUSY, ERROR}
  BY <1>i, SetStateIs DEF DialogOK, DialogStates, IDLE, READY, BUSY, ERROR, DONE
<1>1. CASE Mail!EditEmail
  <2>1. Edit /\ dialog' = SetState(dialog, IDLE) /\ ssl' = ssl
    BY <1>1, MailShares DEF Mail!EditEmail, Mail!IDLE, IDLE
  <2> QED
    BY <2>1, <1>0, <1>e, <1>i, <1>q
<1>2. CASE Mail!EditImap \/ Mail!EditSmtp
  <2>1. Edit /\ ssl' = ssl
    BY <1>2, MailShares DEF Mail!EditImap, Mail!EditSmtp
  <2>2. PICK f : Mail!OnLoginChanged(f)
    BY <1>2 DEF Mail!EditImap, Mail!EditSmtp
  <2>3. dialog' \in Dialogs /\ Quiet'
    BY <2>2, <1>l
  <2> QED
    BY <2>1, <2>3, <1>0, <1>e, <1>q
<1>3. CASE Mail!EditPassword
  <2>1. Edit /\ ssl' = ssl
    BY <1>3, MailShares DEF Mail!EditPassword
  <2>2. CASE dialog' = SetState(dialog, IDLE)
    BY <2>1, <2>2, <1>0, <1>e, <1>i, <1>q
  <2>3. CASE Mail!OnLoginChanged([form EXCEPT !.imapPassword = TRUE, !.smtpPassword = TRUE])
    <3>1. dialog' \in Dialogs /\ Quiet'
      BY <2>3, <1>l
    <3> QED
      BY <2>1, <3>1, <1>0, <1>e, <1>q
  <2> QED
    BY <1>3, <2>2, <2>3, MailShares DEF Mail!EditPassword, Mail!IDLE, IDLE
<1>4. CASE Mail!DiscoveryStep
  <2>1. /\ discovery # None /\ dialog.open
        /\ UNCHANGED <<provider, op, saved, ssl>>
        /\ Mail!ConfigAnswers \/ Mail!ExchangerAnswers \/ Mail!NothingFound
    BY <1>4 DEF Mail!DiscoveryStep
  <2>2. dialog.state \notin {READY, BUSY, ERROR}
    BY <1>0, <2>1
  <2>3. op = None /\ saved = None
    BY <1>0, <2>1, <2>2 DEF OneCall, Waiting
  <2>4. CASE dialog' = dialog
    BY <1>0, <2>1, <2>2, <2>3, <2>4, <1>q DEF DialogOK
  <2>5. CASE \E f : Mail!OnLoginChanged(f)
    <3>1. dialog' \in Dialogs /\ Quiet'
      BY <2>5, <1>l
    <3> QED
      BY <1>0, <2>1, <2>3, <3>1, <1>q
  <2> QED
    BY <2>1, <2>4, <2>5 DEF Mail!ConfigAnswers, Mail!ExchangerAnswers, Mail!NothingFound, Mail!Discovered
<1>5. CASE Mail!SignIn
  <2>1. /\ Activate
        /\ ssl' = [p \in DOMAIN ssl |-> Mail!Ignoring(ssl[p])]
        /\ form' = form /\ discovery' = discovery
    BY <1>5, MailShares DEF Mail!SignIn
  <2>2. /\ dialog.open /\ dialog.state \in {READY, ERROR} /\ op = None
        /\ saved' = None /\ accepted' = {} /\ provider' = provider /\ kind' = kind
        /\ SetState(dialog, BUSY) \in Dialogs
        /\ SetState(dialog, BUSY).state = BUSY /\ SetState(dialog, BUSY).open
        /\ ReturnInDialog(SetState(dialog, BUSY), "error") \in Dialogs
        /\ ~ReturnInDialog(SetState(dialog, BUSY), "error").open
    BY <1>0, <2>1, ActivateIs
  <2>3. discovery' = None
    BY <1>0, <2>1, <2>2
  <2>4. CASE dialog' = ReturnInDialog(SetState(dialog, BUSY), "error")
    BY <1>0, <2>1, <2>2, <2>3, <2>4, <1>m, <1>s, <1>w, OneCallStep
  <2>5. CASE /\ dialog' = SetState(dialog, BUSY)
             /\ \E chosen \in {TRUE, kind = "add"} :
                  op' = [Mail!Imap(chosen) EXCEPT !.accept = Mail!Ignoring(ssl.imap).accept]
    <3>1. PICK chosen \in {TRUE, kind = "add"} :
             op' = [Mail!Imap(chosen) EXCEPT !.accept = Mail!Ignoring(ssl.imap).accept]
      BY <2>5
    <3>2. op'.at = "imap"
      BY <3>1 DEF Mail!Imap
    <3>3. ssl'.imap.accept = Mail!Ignoring(ssl.imap).accept
      BY <1>0, <2>1
    <3>4. kind = "add" => op' = Mail!Imap(TRUE)'
      <4>1. SUFFICES ASSUME kind = "add" PROVE op' = Mail!Imap(TRUE)'
        OBVIOUS
      <4>2. chosen = TRUE
        BY <3>1, <4>1
      <4> QED
        BY <2>1, <3>1, <3>3, <4>2 DEF Mail!Imap
    <3>5. MailCalls'
      BY <2>2, <3>2, <3>4 DEF MailCalls, WaitsFor, Waiting
    <3> QED
      BY <1>0, <2>1, <2>2, <2>3, <2>5, <3>5, <1>m, <1>s, OneCallStep
  <2> QED
    BY <1>5, <2>4, <2>5, MailShares DEF Mail!SignIn, Mail!BUSY, BUSY
<1>a. ASSUME NEW where, Answers(where), where # "ensure"
      PROVE  /\ WaitsFor(where) /\ dialog.open /\ dialog.state = BUSY /\ saved = None
             /\ provider' = provider /\ kind' = kind /\ discovery = None
             /\ ReportError(dialog) \in Dialogs
             /\ ReportError(dialog).state = ERROR /\ ReportError(dialog).open
  BY <1>0, <1>a, AnswersAre
<1>f. ASSUME NEW where, Answers(where), where # "ensure", Fails, DOMAIN ssl' = {"imap", "smtp"},
             discovery' = discovery
      PROVE  dialog' \in Dialogs /\ MailInv' /\ provider' = provider
  BY <1>a, <1>f, <1>q DEF Fails
<1>o. ASSUME NEW where, Answers(where), where # "ensure", UNCHANGED <<form, ssl, discovery>>,
             NEW auth, Mail!Store(auth), Mail!Imap(TRUE) \in accepted',
             kind = "add" /\ form.smtp # None => [Mail!Smtp EXCEPT !.auth = auth] \in accepted'
      PROVE  dialog' \in Dialogs /\ MailInv' /\ provider' = provider
  <2>1. CASE kind # "add"
    <3>1. op' = None /\ UNCHANGED <<dialog, saved>>
      BY <1>o, <2>1 DEF Mail!Store, Mail!StoreForNoObject
    <3> QED
      BY <1>0, <1>a, <1>o, <3>1, <1>q DEF DialogOK
  <2>2. CASE kind = "add"
    <3>1. op' = [at |-> "add", account |-> Mail!Account(auth)] /\ UNCHANGED <<dialog, saved>>
      BY <1>o, <2>2, MailShares DEF Mail!Store, AddAccount
    <3>2. /\ Mail!Account(auth).imap = Mail!Imap(TRUE)
          /\ Mail!Account(auth).smtp = IF form.smtp = None THEN None
                                       ELSE [Mail!Smtp EXCEPT !.auth = auth]
      BY DEF Mail!Account
    <3>3. MailCalls'
      BY <1>o, <2>2, <3>1, <3>2 DEF MailCalls, WaitsFor, Waiting
    <3> QED
      BY <1>0, <1>a, <1>o, <3>1, <3>3, <1>m, <1>s, OneCallStep DEF DialogOK
  <2> QED
    BY <2>1, <2>2
<1>6. CASE Mail!ImapAnswers
  <2>1. Answers("imap") /\ form' = form /\ discovery' = discovery
    BY <1>6, MailShares DEF Mail!ImapAnswers
  <2>2. kind = "add" => op = Mail!Imap(TRUE)
    BY <1>0, <1>a, <2>1 DEF MailCalls
  <2>3. CASE Fails /\ \E had \in {FALSE, ~op.accept} : ssl' = [ssl EXCEPT !.imap.had = had]
    BY <1>0, <1>f, <2>1, <2>3
  <2>4. CASE /\ accepted' = accepted \cup {op} /\ ssl' = ssl
             /\ IF (IF kind = "add" THEN form.smtp # None ELSE useAuth)
                THEN op' = Mail!Smtp /\ UNCHANGED <<dialog, saved, useAuth>>
                ELSE Mail!Store(useAuth)
    <3>1. CASE op' = Mail!Smtp /\ UNCHANGED <<dialog, saved, useAuth>>
      <4>1. op'.at = "smtp" /\ Mail!Smtp' = Mail!Smtp /\ Mail!Imap(TRUE)' = Mail!Imap(TRUE)
        BY <2>1, <2>4, <3>1 DEF Mail!Smtp, Mail!Imap
      <4>2. MailCalls'
        BY <1>a, <2>1, <2>2, <2>4, <3>1, <4>1 DEF MailCalls, WaitsFor, Waiting
      <4> QED
        BY <1>0, <1>a, <2>1, <2>4, <3>1, <4>2, <1>m, <1>s, OneCallStep DEF DialogOK
    <3>2. CASE Mail!Store(useAuth) /\ kind = "add" /\ form.smtp = None
      BY <1>o, <2>1, <2>2, <2>4, <3>2
    <3>3. CASE Mail!Store(useAuth) /\ kind # "add"
      <4>1. op' = None /\ UNCHANGED <<dialog, saved>>
        BY <3>3 DEF Mail!Store, Mail!StoreForNoObject
      <4> QED
        BY <1>0, <1>a, <2>1, <2>4, <4>1, <1>q DEF DialogOK
    <3> QED
      BY <2>4, <3>1, <3>2, <3>3
  <2> QED
    BY <1>6, <2>3, <2>4, MailShares DEF Mail!ImapAnswers
<1>7. CASE Mail!SmtpAnswers
  <2>1. Answers("smtp") /\ form' = form /\ discovery' = discovery
    BY <1>7, MailShares DEF Mail!SmtpAnswers
  <2>2. kind = "add" => op = Mail!Smtp /\ Mail!Imap(TRUE) \in accepted
    BY <1>0, <1>a, <2>1 DEF MailCalls
  <2>3. CASE Fails /\ \E had \in {FALSE, ~op.accept} : ssl' = [ssl EXCEPT !.smtp.had = had]
    BY <1>0, <1>f, <2>1, <2>3
  <2>4. CASE /\ \E auth \in BOOLEAN :
                   accepted' = accepted \cup {[op EXCEPT !.auth = auth]} /\ Mail!Store(auth)
             /\ ssl' = ssl
    <3>1. PICK auth \in BOOLEAN :
             accepted' = accepted \cup {[op EXCEPT !.auth = auth]} /\ Mail!Store(auth)
      BY <2>4
    <3>2. CASE kind = "add"
      BY <1>o, <2>1, <2>2, <2>4, <3>1, <3>2
    <3>3. CASE kind # "add"
      <4>1. op' = None /\ UNCHANGED <<dialog, saved>>
        BY <3>1, <3>3 DEF Mail!Store, Mail!StoreForNoObject
      <4> QED
        BY <1>0, <1>a, <2>1, <2>4, <4>1, <1>q DEF DialogOK
    <3> QED
      BY <3>2, <3>3
  <2> QED
    BY <1>7, <2>3, <2>4, MailShares DEF Mail!SmtpAnswers
<1>8. CASE Mail!AddAnswers /\ UNCHANGED Mail!mailVars
  <2>1. AddAnswers /\ UNCHANGED <<form, ssl, discovery>>
    BY <1>8, MailShares DEF Mail!mailVars
  <2>2. /\ WaitsFor("add") /\ saved = None
        /\ provider' = provider /\ accepted' = accepted
        /\ dialog' \in Dialogs /\ ~dialog'.open /\ OneCall'
        /\ saved' \in {op.account, None}
    BY <1>0, <2>1, AddAnswersAre
  <2>3. /\ op.account.imap \in accepted
        /\ op.account.smtp # None => op.account.smtp \in accepted
    BY <1>0, <2>2 DEF MailCalls
  <2>4. Mail!MailSavedWasAccepted'
    BY <2>2, <2>3 DEF Mail!MailSavedWasAccepted
  <2>5. discovery = None
    BY <1>0, <2>1, <1>a DEF AddAnswers
  <2> QED
    BY <1>0, <2>1, <2>2, <2>4, <2>5, <1>m, <1>w
<1>9. CASE Mail!MailClose
  <2>1. Close /\ discovery' = None /\ ssl' = ssl
    BY <1>9, MailShares DEF Mail!MailClose
  <2>2. /\ dialog' \in Dialogs /\ ~dialog'.open
        /\ UNCHANGED <<provider, kind, op, accepted, saved, edits, tries>>
    BY <2>1, CloseIs
  <2>3. Mail!MailSavedWasAccepted'
    BY <1>0, <2>2 DEF Mail!MailSavedWasAccepted
  <2> QED
    BY <1>0, <2>1, <2>2, <2>3, <1>m, <1>w, OneCallStep
<1> QED
  BY <1>1, <1>2, <1>3, <1>4, <1>5, <1>6, <1>7, <1>8, <1>9 DEF Mail!MailNext

-----------------------------------------------------------------------------
(* The dialogs of the Exchange provider. *)

LEMMA ExchangeShares ==
    /\ \A d, s : Exchange!SetState(d, s) = SetState(d, s)
    /\ \A d, s : Exchange!ReturnInDialog(d, s) = ReturnInDialog(d, s)
    /\ Exchange!Edit <=> Edit
    /\ Exchange!Activate <=> Activate
    /\ \A where : Exchange!Answers(where) <=> Answers(where)
    /\ Exchange!Fails <=> Fails
    /\ \A a : Exchange!AddAccount(a) <=> AddAccount(a)
    /\ Exchange!AddAnswers <=> AddAnswers
    /\ \A a : Exchange!StorePassword(a) <=> StorePassword(a)
    /\ Exchange!EnsureAnswers <=> EnsureAnswers
    /\ Exchange!Close <=> Close
<1>1. /\ \A d, s : Exchange!SetState(d, s) = SetState(d, s)
      /\ \A d, s : Exchange!ReturnInDialog(d, s) = ReturnInDialog(d, s)
  BY DEF Exchange!SetState, SetState, Exchange!ReturnInDialog, ReturnInDialog, Exchange!DONE, DONE
<1>2. Exchange!Edit <=> Edit
  BY DEF Exchange!Edit, Edit, Exchange!BUSY, BUSY
<1>3. Exchange!Activate <=> Activate
  BY DEF Exchange!Activate, Activate, Exchange!READY, READY, Exchange!ERROR, ERROR
<1>4. \A where : Exchange!Answers(where) <=> Answers(where)
  BY DEF Exchange!Answers, Answers
<1>5. Exchange!Fails <=> Fails
  BY <1>1 DEF Exchange!Fails, Fails, Exchange!ReportError, ReportError, Exchange!ERROR, ERROR
<1>6. \A a : Exchange!AddAccount(a) <=> AddAccount(a)
  BY DEF Exchange!AddAccount, AddAccount
<1>7. Exchange!AddAnswers <=> AddAnswers
  BY <1>1, <1>4 DEF Exchange!AddAnswers, AddAnswers
<1>8. \A a : Exchange!StorePassword(a) <=> StorePassword(a)
  BY <1>1 DEF Exchange!StorePassword, StorePassword
<1>9. Exchange!EnsureAnswers <=> EnsureAnswers
  BY <1>1, <1>4 DEF Exchange!EnsureAnswers, EnsureAnswers, Exchange!ReturnBehindDialog, ReturnBehindDialog
<1>10. Exchange!Close <=> Close
  BY <1>1 DEF Exchange!Close, Close, Exchange!Closed, Closed
<1> QED
  BY <1>1, <1>2, <1>3, <1>4, <1>5, <1>6, <1>7, <1>8, <1>9, <1>10

\* Whatever happens, it stays a dialog.
LEMMA ExchangeDialog ==
    ASSUME DialogOK, Exchange!ExchangeNext
    PROVE  DialogOK' /\ provider' = provider /\ kind' = kind
<1>1. \A s \in DialogStates : SetState(dialog, s) \in Dialogs
  BY SetStateIs DEF DialogOK
<1>2. {IDLE, READY, BUSY, ERROR} \subseteq DialogStates
  BY DEF DialogStates
<1>3. \A a \in Answered : ReturnInDialog(dialog, a) \in Dialogs /\ ReturnBehindDialog(dialog, a) \in Dialogs
  BY ReturnIs, ReturnBehindIs DEF DialogOK
<1>4. {"account", "error", "ok"} \subseteq Answered
  BY DEF Answered
<1>5. ReturnInDialog(SetState(dialog, BUSY), "error") \in Dialogs
  BY <1>1, <1>2, <1>4, ReturnIs
<1>6. CASE Exchange!EditEntry
  <2>1. Edit /\ \E s \in {IDLE, READY} : dialog' = SetState(dialog, s)
    BY <1>6, ExchangeShares DEF Exchange!EditEntry, Exchange!Complete, Exchange!IDLE, IDLE,
       Exchange!READY, READY
  <2> QED
    BY <1>1, <1>2, <2>1 DEF DialogOK, Edit
<1>7. CASE Exchange!AddSignIn
  <2>1. /\ Activate
        /\ dialog' \in {SetState(dialog, BUSY), ReturnInDialog(SetState(dialog, BUSY), "error")}
    BY <1>7, ExchangeShares DEF Exchange!AddSignIn, Exchange!BUSY, BUSY
  <2> QED
    BY <1>1, <1>2, <1>5, <2>1 DEF DialogOK, Activate
<1>8. CASE Exchange!RefreshSignIn
  <2>1. Activate /\ \E s \in {BUSY, READY} : dialog' = SetState(dialog, s)
    BY <1>8, ExchangeShares DEF Exchange!RefreshSignIn, Exchange!BUSY, BUSY, Exchange!READY, READY
  <2> QED
    BY <1>1, <1>2, <2>1 DEF DialogOK, Activate
<1>9. CASE Exchange!RequestAnswers
  <2>1. Answers("autodiscover") /\ dialog' = dialog
    BY <1>9, ExchangeShares DEF Exchange!RequestAnswers
  <2> QED
    BY <2>1 DEF DialogOK, Answers
<1>10. CASE Exchange!Autodiscovered
  <2>1. /\ Answers("autodiscover")
        /\ \/ dialog' = dialog
           \/ \E a : StorePassword(a)
           \/ Fails
    BY <1>10, ExchangeShares DEF Exchange!Autodiscovered, AddAccount
  <2>2. dialog' \in {dialog, ReturnInDialog(dialog, "error"), SetState(dialog, ERROR)}
    BY <2>1 DEF StorePassword, Fails, ReportError
  <2> QED
    BY <1>1, <1>2, <1>3, <1>4, <2>1, <2>2 DEF DialogOK, Answers
<1>11. CASE Exchange!AddAnswers
  BY <1>3, <1>4, <1>11, ExchangeShares DEF AddAnswers, Answers, DialogOK
<1>12. CASE Exchange!ExchangeEnsureAnswers
  <2>1. EnsureAnswers
    BY <1>12, ExchangeShares DEF Exchange!ExchangeEnsureAnswers
  <2> QED
    BY <1>3, <1>4, <2>1 DEF EnsureAnswers, Answers, DialogOK
<1>13. CASE Exchange!ExchangeClose
  <2>1. Close
    BY <1>13, ExchangeShares DEF Exchange!ExchangeClose
  <2> QED
    BY <2>1, CloseIs DEF DialogOK
<1> QED
  BY <1>6, <1>7, <1>8, <1>9, <1>10, <1>11, <1>12, <1>13 DEF Exchange!ExchangeNext

\* While no request has been accepted, one is pending or there is an error: the
\* last answer that is counted leaves an error when it is not the accepted one.
LEMMA RequestsProgress ==
  ASSUME NEW u \in Urls, DOMAIN requests = Urls,
         \/ Exchange!Headers(u) \/ Exchange!CertificateRefused(u)
         \/ Exchange!Succeeds(u) \/ Exchange!RequestUseless(u)
         \/ Exchange!RequestFails(u) \/ Exchange!RequestCancelled(u)
  PROVE  /\ DOMAIN requests' = Urls
         /\ Exchange!Pending' # {} \/ failure' # None \/ Exchange!Sent \in accepted'
<1>1. ASSUME NEW e \in {"failed", "cancelled"}, Exchange!Over(u, e), u \in Exchange!Pending
      PROVE  DOMAIN requests' = Urls /\ (Exchange!Pending' # {} \/ failure' # None)
  <2>1. CASE Exchange!Pending = {u}
    BY <1>1, <2>1, NoneAssumption DEF Exchange!Over
  <2>2. CASE Exchange!Pending # {u}
    <3>1. PICK v \in Exchange!Pending : v # u
      BY <1>1, <2>2
    <3>2. requests' = [requests EXCEPT ![u] = "over"]
      BY <1>1 DEF Exchange!Over
    <3>3. v \in Exchange!Pending'
      BY <3>1, <3>2 DEF Exchange!Pending
    <3> QED
      BY <3>2, <3>3
  <2> QED
    BY <2>1, <2>2
<1>2. requests[u] \in {"sent", "reading", "cancelled"} => u \in Exchange!Pending
  BY DEF Exchange!Pending
<1>3. CASE Exchange!Headers(u)
  <2>1. u \in Exchange!Pending'
    BY <1>3 DEF Exchange!Headers, Exchange!Pending
  <2> QED
    BY <1>3, <2>1 DEF Exchange!Headers
<1>4. CASE Exchange!CertificateRefused(u)
  BY <1>4, NoneAssumption DEF Exchange!CertificateRefused, Exchange!Cancel
<1>5. CASE Exchange!Succeeds(u)
  BY <1>5 DEF Exchange!Succeeds, Exchange!Cancel
<1>6. CASE Exchange!RequestUseless(u)
  BY <1>1, <1>2, <1>6 DEF Exchange!RequestUseless
<1>7. CASE Exchange!RequestFails(u)
  <2>1. CASE failure = None
    BY <1>1, <1>2, <1>7, <2>1 DEF Exchange!RequestFails
  <2>2. CASE failure # None
    BY <1>7, <2>2 DEF Exchange!RequestFails
  <2> QED
    BY <2>1, <2>2
<1>8. CASE Exchange!RequestCancelled(u)
  BY <1>1, <1>2, <1>8 DEF Exchange!RequestCancelled
<1> QED
  BY <1>3, <1>4, <1>5, <1>6, <1>7, <1>8

LEMMA ExchangeStep == DialogOK /\ ExchangeInv /\ Exchange!ExchangeNext => ExchangeInv'
<1> SUFFICES ASSUME DialogOK, ExchangeInv, Exchange!ExchangeNext, provider = "exchange", kind = "add"
             PROVE  OneCall' /\ ExchangeCalls' /\ Exchange!ExchangeSavedWasAccepted'
  BY ExchangeDialog DEF ExchangeInv
<1>0. OneCall /\ ExchangeCalls /\ Exchange!ExchangeSavedWasAccepted
  BY DEF ExchangeInv
<1>s. saved' = None => Exchange!ExchangeSavedWasAccepted'
  BY DEF Exchange!ExchangeSavedWasAccepted
<1>w. ~dialog'.open \/ op' = None => ExchangeCalls'
  BY DEF ExchangeCalls, WaitsFor, Waiting
<1>q. ASSUME op' = None, saved' = None
      PROVE  OneCall' /\ ExchangeCalls' /\ Exchange!ExchangeSavedWasAccepted'
  BY <1>q, <1>s, <1>w, OneCallStep
<1>1. CASE Exchange!EditEntry
  <2>1. Edit
    BY <1>1, ExchangeShares DEF Exchange!EditEntry
  <2>2. op' = None /\ saved' = None
    BY <1>0, <2>1 DEF Edit, OneCall, Waiting
  <2> QED
    BY <2>2, <1>q
<1>2. CASE Exchange!AddSignIn
  <2>1. Activate /\ entered' = entered /\ ignoring' = ignoring
    BY <1>2, ExchangeShares DEF Exchange!AddSignIn
  <2>2. /\ dialog.open /\ saved' = None
        /\ SetState(dialog, BUSY).state = BUSY /\ SetState(dialog, BUSY).open
        /\ ~ReturnInDialog(SetState(dialog, BUSY), "error").open
    BY <1>0, <2>1, ActivateIs
  <2>3. CASE dialog' = ReturnInDialog(SetState(dialog, BUSY), "error")
    BY <2>2, <2>3, <1>s, <1>w, OneCallStep
  <2>4. CASE dialog' = SetState(dialog, BUSY) /\ Exchange!Autodiscover(entered.login, ignoring)
    <3>1. op' = [at |-> "autodiscover", login |-> entered.login, password |-> entered.password,
                 accept |-> ignoring]
      BY <2>4 DEF Exchange!Autodiscover
    <3>2. Exchange!Entered' = Exchange!Sent'
      BY <2>1, <3>1 DEF Exchange!Entered, Exchange!Sent
    <3>3. requests' = [u \in Urls |-> "sent"]
      BY <2>4 DEF Exchange!Autodiscover
    <3>4. Exchange!Pending' # {} /\ DOMAIN requests' = Urls
      BY <3>3, UrlsAssumption DEF Exchange!Pending
    <3>5. ExchangeCalls'
      BY <3>1, <3>2, <3>4 DEF ExchangeCalls, WaitsFor, Waiting
    <3> QED
      BY <2>2, <2>4, <3>5, <1>s, OneCallStep
  <2> QED
    BY <1>2, <2>3, <2>4, ExchangeShares DEF Exchange!AddSignIn, Exchange!BUSY, BUSY
<1>3. CASE Exchange!RequestAnswers
  <2>1. Answers("autodiscover") /\ UNCHANGED <<dialog, op, saved, entered, ignoring, provider, kind>>
    BY <1>3, ExchangeShares DEF Exchange!RequestAnswers, Answers
  <2>2. WaitsFor("autodiscover") /\ dialog.state = BUSY /\ saved = None
    BY <1>0, <2>1, AnswersAre
  <2>3. OneCall' /\ Exchange!ExchangeSavedWasAccepted'
    BY <1>0, <1>s, <2>1, <2>2 DEF OneCall, Waiting
  <2>4. Exchange!Entered' = Exchange!Sent' /\ Exchange!Sent' = Exchange!Sent
    BY <1>0, <2>1, <2>2 DEF ExchangeCalls, Exchange!Entered, Exchange!Sent
  <2>5. /\ DOMAIN requests = Urls
        /\ Exchange!Pending # {} \/ failure # None \/ Exchange!Sent \in accepted
    BY <1>0, <2>2 DEF ExchangeCalls
  <2>6. /\ DOMAIN requests' = Urls
        /\ Exchange!Pending' # {} \/ failure' # None \/ Exchange!Sent \in accepted'
    BY <1>3, <2>5, RequestsProgress DEF Exchange!RequestAnswers
  <2>7. ExchangeCalls'
    BY <2>1, <2>2, <2>4, <2>6 DEF ExchangeCalls, WaitsFor, Waiting
  <2> QED
    BY <2>3, <2>7
<1>4. CASE Exchange!Autodiscovered
  <2>1. Answers("autodiscover") /\ entered' = entered
    BY <1>4, ExchangeShares DEF Exchange!Autodiscovered
  <2>2. WaitsFor("autodiscover") /\ dialog.state = BUSY /\ saved = None
    BY <1>0, <2>1, AnswersAre
  <2>3. CASE Fails
    BY <2>2, <2>3, <1>q DEF Fails
  <2>4. CASE Exchange!Pending = {} /\ failure = None /\ accepted' = accepted /\ AddAccount(Exchange!Entered)
    <3>1. op' = [at |-> "add", account |-> Exchange!Entered] /\ UNCHANGED <<dialog, saved>>
      BY <2>4 DEF AddAccount
    <3>2. op'.account \in accepted'
      BY <1>0, <2>2, <2>4, <3>1 DEF ExchangeCalls
    <3>3. ExchangeCalls'
      BY <3>1, <3>2 DEF ExchangeCalls, WaitsFor, Waiting
    <3> QED
      BY <2>2, <3>1, <3>3, <1>s, OneCallStep
  <2> QED
    BY <1>4, <2>3, <2>4, ExchangeShares DEF Exchange!Autodiscovered
<1>5. CASE Exchange!AddAnswers
  <2>1. /\ WaitsFor("add") /\ accepted' = accepted /\ ~dialog'.open /\ OneCall'
        /\ saved' \in {op.account, None}
    BY <1>0, <1>5, ExchangeShares, AddAnswersAre
  <2>2. Exchange!ExchangeSavedWasAccepted'
    BY <1>0, <2>1 DEF ExchangeCalls, Exchange!ExchangeSavedWasAccepted
  <2> QED
    BY <2>1, <2>2, <1>w
<1>6. CASE Exchange!ExchangeEnsureAnswers
  <2>1. op' = None /\ accepted' = accepted /\ saved' = saved /\ OneCall'
    BY <1>0, <1>6, ExchangeShares, EnsureAnswersAre DEF Exchange!ExchangeEnsureAnswers
  <2> QED
    BY <1>0, <2>1, <1>w DEF Exchange!ExchangeSavedWasAccepted
<1>7. CASE Exchange!ExchangeClose
  <2>1. ~dialog'.open /\ UNCHANGED <<accepted, saved>>
    BY <1>7, ExchangeShares, CloseIs DEF Exchange!ExchangeClose
  <2> QED
    BY <1>0, <2>1, <1>w, OneCallStep DEF Exchange!ExchangeSavedWasAccepted
<1>8. ~Exchange!RefreshSignIn
  BY DEF Exchange!RefreshSignIn
<1> QED
  BY <1>1, <1>2, <1>3, <1>4, <1>5, <1>6, <1>7, <1>8 DEF Exchange!ExchangeNext

-----------------------------------------------------------------------------
(* The dialogs of the Nextcloud provider. *)

LEMMA NextcloudShares ==
    /\ \A d, s : Nextcloud!SetState(d, s) = SetState(d, s)
    /\ \A d, s : Nextcloud!ReturnInDialog(d, s) = ReturnInDialog(d, s)
    /\ Nextcloud!Edit <=> Edit
    /\ Nextcloud!Activate <=> Activate
    /\ \A where : Nextcloud!Answers(where) <=> Answers(where)
    /\ \A d : Nextcloud!ReportError(d) = ReportError(d)
    /\ \A d, s : Nextcloud!ReturnBehindDialog(d, s) = ReturnBehindDialog(d, s)
    /\ \A a : Nextcloud!AddAccount(a) <=> AddAccount(a)
    /\ Nextcloud!AddAnswers <=> AddAnswers
    /\ \A a : Nextcloud!StorePassword(a) <=> StorePassword(a)
    /\ Nextcloud!EnsureAnswers <=> EnsureAnswers
    /\ Nextcloud!Close <=> Close
<1>1. /\ \A d, s : Nextcloud!SetState(d, s) = SetState(d, s)
      /\ \A d, s : Nextcloud!ReturnInDialog(d, s) = ReturnInDialog(d, s)
  BY DEF Nextcloud!SetState, SetState, Nextcloud!ReturnInDialog, ReturnInDialog, Nextcloud!DONE, DONE
<1>2. Nextcloud!Edit <=> Edit
  BY DEF Nextcloud!Edit, Edit, Nextcloud!BUSY, BUSY
<1>3. Nextcloud!Activate <=> Activate
  BY DEF Nextcloud!Activate, Activate, Nextcloud!READY, READY, Nextcloud!ERROR, ERROR
<1>4. \A where : Nextcloud!Answers(where) <=> Answers(where)
  BY DEF Nextcloud!Answers, Answers
<1>5. \A d : Nextcloud!ReportError(d) = ReportError(d)
  BY <1>1 DEF Nextcloud!ReportError, ReportError, Nextcloud!ERROR, ERROR
<1>6. \A d, s : Nextcloud!ReturnBehindDialog(d, s) = ReturnBehindDialog(d, s)
  BY DEF Nextcloud!ReturnBehindDialog, ReturnBehindDialog
<1>7. \A a : Nextcloud!AddAccount(a) <=> AddAccount(a)
  BY DEF Nextcloud!AddAccount, AddAccount
<1>8. Nextcloud!AddAnswers <=> AddAnswers
  BY <1>1, <1>4 DEF Nextcloud!AddAnswers, AddAnswers
<1>9. \A a : Nextcloud!StorePassword(a) <=> StorePassword(a)
  BY <1>1 DEF Nextcloud!StorePassword, StorePassword
<1>10. Nextcloud!EnsureAnswers <=> EnsureAnswers
  BY <1>1, <1>4 DEF Nextcloud!EnsureAnswers, EnsureAnswers, Nextcloud!ReturnBehindDialog, ReturnBehindDialog
<1>11. Nextcloud!Close <=> Close
  BY <1>1 DEF Nextcloud!Close, Close, Nextcloud!Closed, Closed
<1> QED
  BY <1>1, <1>2, <1>3, <1>4, <1>5, <1>6, <1>7, <1>8, <1>9, <1>10, <1>11

LEMMA NextcloudStep ==
    DialogOK /\ NextcloudInv /\ Nextcloud!NextcloudNext =>
        DialogOK' /\ NextcloudInv' /\ provider' = provider
<1> SUFFICES ASSUME DialogOK, NextcloudInv, Nextcloud!NextcloudNext
             PROVE  dialog' \in Dialogs /\ NextcloudInv' /\ provider' = provider
  BY DEF DialogOK
<1> DEFINE Shown == dialog.open /\ dialog.state \in {READY, BUSY, ERROR}
           Still == ~dialog.open \/ dialog.state \in {READY, BUSY, ERROR} => ~timer /\ query = None
           Asked == query # None => ~timer /\ query.login = address
           Known == Shown => loginInfo = address
           Stored == saved # None =>
                         /\ saved.asked = address
                         /\ kind = "add" => saved \in accepted
                         /\ kind = "refresh" =>
                               saved.user = identity /\ \E l \in accepted : l.user = identity
           Goal == dialog' \in Dialogs /\ NextcloudInv' /\ provider' = provider
<1>0. /\ provider = "nextcloud" /\ OneCall /\ Still /\ Asked /\ Known /\ Stored /\ NextcloudCalls
  BY DEF NextcloudInv, Nextcloud!NextcloudNext, Nextcloud!NextcloudAnswers,
         Nextcloud!NextcloudSavedWasAccepted
<1>m. ASSUME dialog' \in Dialogs, provider' = provider, OneCall', Still', Asked', Known', Stored',
             NextcloudCalls'
      PROVE  Goal
  BY <1>m DEF NextcloudInv, Nextcloud!NextcloudSavedWasAccepted, Nextcloud!READY, READY,
              Nextcloud!BUSY, BUSY
<1>w. ~dialog'.open \/ op' = None => NextcloudCalls'
  BY DEF NextcloudCalls, WaitsFor, Waiting
<1>q. ASSUME dialog' \in Dialogs, provider' = provider, op' = None, saved' = None,
             Still', Asked', Known'
      PROVE  Goal
  BY <1>q, <1>m, <1>w, OneCallStep
<1>i. dialog.open /\ ~Shown => op = None /\ saved = None
  BY <1>0 DEF OneCall, Waiting
<1>b. Shown => ~timer /\ query = None
  BY <1>0
<1>1. CASE Nextcloud!EditAddress
  <2>1. /\ Edit /\ dialog' = SetState(dialog, IDLE) /\ query' = None
    BY <1>1, NextcloudShares DEF Nextcloud!EditAddress, Nextcloud!IDLE, IDLE
  <2>2. dialog.open /\ op' = None /\ saved' = None /\ provider' = provider
    BY <1>0, <2>1 DEF Edit, OneCall, Waiting
  <2>3. dialog' \in Dialogs /\ dialog'.open /\ dialog'.state \notin {READY, BUSY, ERROR}
    BY <2>1, <2>2, SetStateIs DEF DialogOK, DialogStates, IDLE, READY, BUSY, ERROR, DONE
  <2> QED
    BY <2>1, <2>2, <2>3, <1>q
<1>2. CASE Nextcloud!TimerFires
  <2>1. /\ dialog.open /\ timer /\ timer' = FALSE
        /\ query' = IF address = None THEN query ELSE [login |-> address, accept |-> acceptSsl]
        /\ UNCHANGED <<dialog, provider, op, saved, address, loginInfo>>
    BY <1>2 DEF Nextcloud!TimerFires, Nextcloud!StartQuery, Nextcloud!dialogVars
  <2>2. ~Shown
    BY <2>1, <1>b
  <2>3. op' = None /\ saved' = None
    BY <2>1, <2>2, <1>i
  <2>4. Asked' /\ Still' /\ Known'
    BY <1>0, <2>1, <2>2
  <2> QED
    BY <2>1, <2>3, <2>4, <1>q DEF DialogOK
<1>3. CASE Nextcloud!QueryAnswers
  <2>1. /\ dialog.open /\ query # None /\ query' = None
        /\ \/ dialog' = SetState(dialog, READY) /\ loginInfo' = query.login
           \/ dialog' = SetState(dialog, IDLE) /\ UNCHANGED loginInfo
        /\ UNCHANGED <<provider, op, saved, address, timer>>
    BY <1>3, NextcloudShares DEF Nextcloud!QueryAnswers, Nextcloud!READY, READY, Nextcloud!IDLE, IDLE
  <2>2. ~Shown /\ ~timer /\ query.login = address
    BY <1>0, <2>1, <1>b
  <2>3. op' = None /\ saved' = None
    BY <2>1, <2>2, <1>i
  <2>4. CASE dialog' = SetState(dialog, READY) /\ loginInfo' = query.login
    <3>1. dialog' \in Dialogs
      BY <2>4, SetStateIs DEF DialogOK, DialogStates
    <3> QED
      BY <2>1, <2>2, <2>3, <2>4, <3>1, <1>q
  <2>5. CASE dialog' = SetState(dialog, IDLE)
    <3>1. dialog' \in Dialogs /\ dialog'.state \notin {READY, BUSY, ERROR}
      BY <2>1, <2>5, SetStateIs DEF DialogOK, DialogStates, IDLE, READY, BUSY, ERROR, DONE
    <3> QED
      BY <2>1, <2>2, <2>3, <3>1, <1>q
  <2> QED
    BY <2>1, <2>4, <2>5
<1>4. CASE Nextcloud!SignIn
  <2>1. /\ Activate /\ dialog' = SetState(dialog, BUSY)
        /\ UNCHANGED <<address, timer, query, loginInfo, acceptSsl>>
        /\ \E where \in {"launch", "poll"} :
              op' = [at |-> where, login |-> loginInfo, accept |-> acceptSsl]
    BY <1>4, NextcloudShares DEF Nextcloud!SignIn, Nextcloud!BUSY, BUSY, Nextcloud!nextcloudVars
  <2>2. /\ dialog.open /\ dialog.state \in {READY, ERROR} /\ saved' = None /\ provider' = provider
        /\ dialog' \in Dialogs /\ dialog'.state = BUSY /\ dialog'.open
    BY <1>0, <2>1, ActivateIs
  <2>3. loginInfo = address /\ ~timer /\ query = None
    BY <1>0, <2>2
  <2>4. NextcloudCalls'
    <3>1. PICK where \in {"launch", "poll"} :
             op' = [at |-> where, login |-> loginInfo, accept |-> acceptSsl]
      BY <2>1
    <3>2. op'.at = where /\ op'.accept = acceptSsl
      BY <3>1
    <3>3. op' = [at |-> op'.at, login |-> address', accept |-> op'.accept]
      BY <2>1, <2>3, <3>1, <3>2
    <3> QED
      BY <3>2, <3>3 DEF NextcloudCalls, WaitsFor, Waiting
  <2> QED
    BY <2>1, <2>2, <2>3, <2>4, <1>m, OneCallStep
<1>a. ASSUME NEW where, Answers(where), where # "ensure"
      PROVE  /\ WaitsFor(where) /\ Shown /\ dialog.state = BUSY /\ saved = None
             /\ provider' = provider /\ kind' = kind /\ ~timer /\ query = None
             /\ loginInfo = address
             /\ ReportError(dialog) \in Dialogs
             /\ ReportError(dialog).state = ERROR /\ ReportError(dialog).open
             /\ ReturnInDialog(dialog, "error") \in Dialogs
             /\ ~ReturnInDialog(dialog, "error").open
             /\ ReturnBehindDialog(dialog, "error") \in Dialogs
             /\ ReturnBehindDialog(dialog, "error").state = BUSY
             /\ ReturnBehindDialog(dialog, "error").open
  <2>1. "error" \in Answered
    BY DEF Answered
  <2> QED
    BY <1>0, <1>a, <2>1, AnswersAre
<1>f. ASSUME NEW where, Answers(where), where # "ensure", Nextcloud!LoginFails,
             UNCHANGED Nextcloud!nextcloudVars
      PROVE  Goal
  <2>1. /\ op' = None /\ saved' = saved
        /\ dialog' \in {ReturnInDialog(dialog, "error"), ReportError(dialog)}
        /\ UNCHANGED <<address, timer, query, loginInfo>>
    BY <1>f, NextcloudShares DEF Nextcloud!LoginFails, Nextcloud!nextcloudVars
  <2>2. dialog' \in Dialogs /\ provider' = provider /\ saved' = None
    BY <1>a, <1>f, <2>1
  <2>3. Still' /\ Asked' /\ Known'
    BY <1>a, <1>f, <2>1
  <2> QED
    BY <2>1, <2>2, <2>3, <1>q
<1>5. CASE Nextcloud!LaunchAnswers
  <2>1. Answers("launch") /\ UNCHANGED Nextcloud!nextcloudVars
    BY <1>5, NextcloudShares DEF Nextcloud!LaunchAnswers
  <2>2. CASE op' = [op EXCEPT !.at = "poll"] /\ UNCHANGED <<dialog, accepted, saved>>
    <3>1. op = [at |-> op.at, login |-> address, accept |-> op.accept]
      BY <1>0, <1>a, <2>1 DEF NextcloudCalls
    <3>2. UNCHANGED <<address, timer, query, loginInfo>>
      BY <2>1 DEF Nextcloud!nextcloudVars
    <3>3. op' = [at |-> "poll", login |-> address', accept |-> op.accept]
      BY <2>2, <3>1, <3>2
    <3>4. op' = [at |-> op'.at, login |-> address', accept |-> op'.accept] /\ op'.at = "poll"
      BY <3>3
    <3>5. NextcloudCalls'
      BY <3>4 DEF NextcloudCalls, WaitsFor, Waiting
    <3> QED
      BY <1>0, <1>a, <2>1, <2>2, <3>2, <3>5, <1>m, OneCallStep DEF DialogOK
  <2>3. CASE Nextcloud!LoginFails
    BY <2>1, <2>3, <1>f
  <2> QED
    BY <1>5, <2>2, <2>3 DEF Nextcloud!LaunchAnswers
<1>6. CASE Nextcloud!PollAnswers
  <2>1. Answers("poll") /\ UNCHANGED Nextcloud!nextcloudVars /\ UNCHANGED <<address, timer, query, loginInfo>>
    BY <1>6, NextcloudShares DEF Nextcloud!PollAnswers, Nextcloud!nextcloudVars
  <2>2. CASE Nextcloud!LoginFails
    BY <2>1, <2>2, <1>f
  <2>3. CASE \E host \in Logins, u \in Users : Nextcloud!LoggedIn(host, u)
    <3>1. PICK host \in Logins, u \in Users : Nextcloud!LoggedIn(host, u)
      BY <2>3
    <3>2. op.login = address
      <4>1. op = [at |-> op.at, login |-> address, accept |-> op.accept]
        BY <1>0, <1>a, <2>1 DEF NextcloudCalls
      <4> QED
        BY <4>1
    <3>3. accepted' = {[asked |-> address, server |-> host, user |-> u]}
      BY <3>1, <3>2 DEF Nextcloud!LoggedIn
    <3>4. Still' /\ Asked'
      BY <1>a, <2>1
    <3>5. Known'
      BY <1>a, <2>1
    <3>6. CASE kind = "add" /\ AddAccount([asked |-> address, server |-> host, user |-> u])
      <4>1. /\ op' = [at |-> "add", account |-> [asked |-> address, server |-> host, user |-> u]]
            /\ UNCHANGED <<dialog, saved>>
        BY <3>6 DEF AddAccount
      <4>2. /\ op'.at = "add" /\ op'.account \in accepted' /\ op'.account.asked = address'
            /\ kind' = "add"
        BY <1>a, <2>1, <3>3, <3>6, <4>1
      <4>3. NextcloudCalls'
        BY <4>2 DEF NextcloudCalls, WaitsFor, Waiting
      <4> QED
        BY <1>a, <2>1, <3>4, <3>5, <4>1, <4>3, <1>m, OneCallStep DEF DialogOK
    <3>7. CASE dialog' = ReturnBehindDialog(dialog, "error") /\ op' = None /\ UNCHANGED saved
      BY <1>a, <2>1, <3>4, <3>5, <3>7, <1>q
    <3>8. CASE /\ kind # "add" /\ u = identity
               /\ StorePassword([asked |-> address, server |-> address, user |-> identity])
      <4>1. /\ dialog' \in Dialogs /\ OneCall'
            /\ \/ /\ saved' = [asked |-> address, server |-> address, user |-> identity]
                  /\ op' = [at |-> "ensure"]
               \/ saved' = None /\ op' = None
        BY <1>0, <2>1, <3>8, StorePasswordIs
      <4>2. Stored'
        <5>1. UNCHANGED <<kind, address, identity>>
          BY <1>a, <2>1 DEF Nextcloud!nextcloudVars
        <5>2. \E l \in accepted' : l.user = identity'
          BY <3>3, <3>8, <5>1
        <5> QED
          BY <3>8, <4>1, <5>1, <5>2
      <4>3. NextcloudCalls'
        BY <4>1 DEF NextcloudCalls, WaitsFor, Waiting
      <4> QED
        BY <1>a, <2>1, <3>4, <3>5, <4>1, <4>2, <4>3, <1>m
    <3> QED
      BY <3>1, <3>2, <3>6, <3>7, <3>8, NextcloudShares DEF Nextcloud!LoggedIn
  <2> QED
    BY <1>6, <2>2, <2>3 DEF Nextcloud!PollAnswers
<1>7. CASE Nextcloud!AddAnswers /\ UNCHANGED Nextcloud!nextcloudVars
  <2>1. AddAnswers /\ UNCHANGED <<address, timer, query, loginInfo>>
    BY <1>7, NextcloudShares DEF Nextcloud!nextcloudVars
  <2>2. /\ WaitsFor("add") /\ provider' = provider /\ kind' = kind /\ accepted' = accepted
        /\ dialog' \in Dialogs /\ ~dialog'.open /\ OneCall' /\ saved' \in {op.account, None}
    BY <1>0, <2>1, AddAnswersAre
  <2>3. Stored'
    BY <1>0, <2>1, <2>2 DEF NextcloudCalls
  <2>4. ~timer /\ query = None
    BY <1>a, <2>1 DEF AddAnswers
  <2> QED
    BY <2>1, <2>2, <2>3, <2>4, <1>m, <1>w
<1>8. CASE Nextcloud!EnsureAnswers /\ UNCHANGED Nextcloud!nextcloudVars
  <2>1. EnsureAnswers /\ UNCHANGED <<address, timer, query, loginInfo, identity>>
    BY <1>8, NextcloudShares DEF Nextcloud!nextcloudVars
  <2>2. /\ WaitsFor("ensure") /\ op' = None /\ provider' = provider /\ kind' = kind
        /\ accepted' = accepted /\ saved' = saved
        /\ dialog' \in Dialogs /\ (~dialog'.open \/ dialog'.state = BUSY) /\ OneCall'
    BY <1>0, <2>1, EnsureAnswersAre
  <2>3. Shown
    BY <1>0, <2>2 DEF OneCall, WaitsFor, Waiting
  <2> QED
    BY <1>0, <2>1, <2>2, <2>3, <1>m, <1>w
<1>9. CASE Nextcloud!NextcloudClose
  <2>1. /\ Close /\ query' = None /\ timer' = FALSE
        /\ UNCHANGED <<address, loginInfo, identity>>
    BY <1>9, NextcloudShares DEF Nextcloud!NextcloudClose
  <2>2. /\ dialog' \in Dialogs /\ ~dialog'.open
        /\ UNCHANGED <<provider, kind, op, accepted, saved, edits, tries>>
    BY <2>1, CloseIs
  <2> QED
    BY <1>0, <2>1, <2>2, <1>m, <1>w, OneCallStep
<1> QED
  BY <1>1, <1>2, <1>3, <1>4, <1>5, <1>6, <1>7, <1>8, <1>9 DEF Nextcloud!NextcloudNext, Nextcloud!NextcloudAnswers

-----------------------------------------------------------------------------
(* The dialogs of the providers that use OAuth 2.0. *)

LEMMA BrowserShares ==
    /\ \A d, s : Browser!SetState(d, s) = SetState(d, s)
    /\ \A d, s : Browser!ReturnInDialog(d, s) = ReturnInDialog(d, s)
    /\ Browser!Activate <=> Activate
    /\ \A where : Browser!Answers(where) <=> Answers(where)
    /\ \A d, s : Browser!ReturnBehindDialog(d, s) = ReturnBehindDialog(d, s)
    /\ \A a : Browser!AddAccount(a) <=> AddAccount(a)
    /\ Browser!AddAnswers <=> AddAnswers
    /\ \A a : Browser!StorePassword(a) <=> StorePassword(a)
    /\ Browser!EnsureAnswers <=> EnsureAnswers
    /\ Browser!Close <=> Close
<1>1. /\ \A d, s : Browser!SetState(d, s) = SetState(d, s)
      /\ \A d, s : Browser!ReturnInDialog(d, s) = ReturnInDialog(d, s)
  BY DEF Browser!SetState, SetState, Browser!ReturnInDialog, ReturnInDialog, Browser!DONE, DONE
<1>2. Browser!Activate <=> Activate
  BY DEF Browser!Activate, Activate, Browser!READY, READY, Browser!ERROR, ERROR
<1>3. \A where : Browser!Answers(where) <=> Answers(where)
  BY DEF Browser!Answers, Answers
<1>4. \A d, s : Browser!ReturnBehindDialog(d, s) = ReturnBehindDialog(d, s)
  BY DEF Browser!ReturnBehindDialog, ReturnBehindDialog
<1>5. \A a : Browser!AddAccount(a) <=> AddAccount(a)
  BY DEF Browser!AddAccount, AddAccount
<1>6. Browser!AddAnswers <=> AddAnswers
  BY <1>1, <1>3 DEF Browser!AddAnswers, AddAnswers
<1>7. \A a : Browser!StorePassword(a) <=> StorePassword(a)
  BY <1>1 DEF Browser!StorePassword, StorePassword
<1>8. Browser!EnsureAnswers <=> EnsureAnswers
  BY <1>1, <1>3 DEF Browser!EnsureAnswers, EnsureAnswers, Browser!ReturnBehindDialog, ReturnBehindDialog
<1>9. Browser!Close <=> Close
  BY <1>1 DEF Browser!Close, Close, Browser!Closed, Closed
<1> QED
  BY <1>1, <1>2, <1>3, <1>4, <1>5, <1>6, <1>7, <1>8, <1>9

LEMMA BrowserStep ==
    DialogOK /\ BrowserInv /\ Browser!BrowserNext => DialogOK' /\ BrowserInv' /\ provider' = provider
<1> SUFFICES ASSUME DialogOK, BrowserInv, Browser!BrowserNext
             PROVE  dialog' \in Dialogs /\ BrowserInv' /\ provider' = provider
  BY DEF DialogOK
<1> DEFINE Once == name # "none" => result = None
           Goal == dialog' \in Dialogs /\ BrowserInv' /\ provider' = provider
           Stored == saved # None => saved \in accepted /\ (kind = "refresh" => saved = expected)
           Released == name # "none" =>
                          dialog.open /\ dialog.state = BUSY /\ op # None /\ op.at = "authorize"
<1>0. /\ provider = "oauth2" /\ OneCall /\ Once /\ BrowserCalls /\ Stored /\ Released
  BY DEF BrowserInv, Browser!BrowserNext, Browser!BrowserAnswers, Browser!BrowserSavedWasAccepted,
         Browser!NameReleased, Browser!BUSY, BUSY
<1>m. ASSUME dialog' \in Dialogs, provider' = provider, OneCall', Once', Stored', Released', BrowserCalls'
      PROVE  Goal
  BY <1>m DEF BrowserInv, Browser!BrowserSavedWasAccepted, Browser!NameReleased, Browser!BUSY, BUSY
<1>w. ~dialog'.open \/ op' = None \/ op'.at # "add" => BrowserCalls'
  BY DEF BrowserCalls, WaitsFor, Waiting
<1>a. ASSUME NEW where, Answers(where), where # "ensure"
      PROVE  /\ WaitsFor(where) /\ dialog.open /\ dialog.state = BUSY /\ saved = None
             /\ op # None /\ op.at = where
             /\ provider' = provider /\ kind' = kind
             /\ ReturnInDialog(dialog, "error") \in Dialogs
             /\ ~ReturnInDialog(dialog, "error").open
             /\ ReturnBehindDialog(dialog, "error") \in Dialogs
             /\ ReturnBehindDialog(dialog, "error").state = BUSY
             /\ ReturnBehindDialog(dialog, "error").open
  <2>1. "error" \in Answered
    BY DEF Answered
  <2> QED
    BY <1>0, <1>a, <2>1, AnswersAre DEF WaitsFor, Waiting
<1>1. CASE Browser!SignIn
  <2>1. /\ Activate /\ dialog' = SetState(dialog, BUSY)
        /\ op' = [at |-> "authorize"] /\ result' = None
    BY <1>1, BrowserShares DEF Browser!SignIn, Browser!BUSY, BUSY
  <2>2. /\ saved' = None /\ provider' = provider
        /\ dialog' \in Dialogs /\ dialog'.state = BUSY /\ dialog'.open
    BY <1>0, <2>1, ActivateIs
  <2>3. op' # None /\ op'.at = "authorize"
    BY <2>1, NoneAssumption
  <2> QED
    BY <2>1, <2>2, <2>3, <1>m, <1>w, OneCallStep
<1>u. ASSUME Answers("authorize"), UNCHANGED <<dialog, op, accepted, saved, expected>>, Once',
             name' = "none" \/ name # "none" \/ result = None
      PROVE  Goal
  <2>1. /\ dialog.open /\ dialog.state = BUSY /\ saved = None /\ op # None /\ op.at = "authorize"
        /\ provider' = provider
    BY <1>a, <1>u
  <2>2. Released'
    BY <1>u, <2>1
  <2> QED
    BY <1>u, <2>1, <2>2, <1>m, <1>w, OneCallStep DEF DialogOK
<1>2. CASE Browser!BusAcquired \/ Browser!NameAcquired \/ Browser!NameLost
  <2>1. /\ Answers("authorize") /\ name # "none"
        /\ UNCHANGED <<dialog, op, accepted, saved, expected>>
    BY <1>2, BrowserShares DEF Browser!BusAcquired, Browser!NameAcquired, Browser!NameLost
  <2>2. Once'
    BY <1>0, <1>2, <2>1 DEF Browser!BusAcquired, Browser!NameAcquired, Browser!NameLost, Browser!Complete
  <2> QED
    BY <2>1, <2>2, <1>u
<1>3. CASE Browser!Response
  <2>1. /\ Answers("authorize") /\ name' = "none"
        /\ UNCHANGED <<dialog, op, accepted, saved, expected>>
    BY <1>3, BrowserShares DEF Browser!Response, Browser!Complete
  <2> QED
    BY <2>1, <1>u
<1>4. CASE Browser!LaunchAnswers
  <2>1. /\ Answers("authorize")
        /\ name' = "none" \/ UNCHANGED <<name, result>>
        /\ UNCHANGED <<dialog, op, accepted, saved, expected>>
    BY <1>4, BrowserShares DEF Browser!LaunchAnswers, Browser!Complete
  <2>2. /\ dialog.open /\ dialog.state = BUSY /\ saved = None /\ op # None /\ op.at = "authorize"
        /\ provider' = provider
    BY <2>1, <1>a
  <2>3. Once' /\ Released'
    BY <1>0, <2>1, <2>2
  <2> QED
    BY <2>1, <2>2, <2>3, <1>m, <1>w, OneCallStep DEF DialogOK
<1>5. CASE Browser!AuthorizeAnswers
  <2>1. Answers("authorize") /\ result # None /\ UNCHANGED <<expected, name, object, result>>
    BY <1>5, BrowserShares DEF Browser!AuthorizeAnswers, Browser!browserVars
  <2>2. name = "none" /\ Once' /\ Released'
    BY <1>0, <2>1
  <2>3. CASE dialog' = ReturnInDialog(dialog, "error") /\ op' = None /\ UNCHANGED saved
    BY <1>a, <2>1, <2>2, <2>3, <1>m, <1>w, OneCallStep
  <2>4. CASE Browser!SignedIn(result)
    <3>1. accepted' = {result}
      BY <2>4 DEF Browser!SignedIn
    <3>2. CASE kind = "add" /\ AddAccount(result)
      <4>1. op' = [at |-> "add", account |-> result] /\ UNCHANGED <<dialog, saved>>
        BY <3>2 DEF AddAccount
      <4>2. BrowserCalls'
        BY <1>a, <2>1, <3>1, <3>2, <4>1 DEF BrowserCalls
      <4> QED
        BY <1>a, <2>1, <2>2, <4>1, <4>2, <1>m, OneCallStep DEF DialogOK
    <3>3. CASE dialog' = ReturnBehindDialog(dialog, "error") /\ op' = None /\ UNCHANGED saved
      BY <1>a, <2>1, <2>2, <3>3, <1>m, <1>w, OneCallStep
    <3>4. CASE result = expected /\ StorePassword(expected)
      <4>1. /\ dialog' \in Dialogs /\ OneCall'
            /\ \/ saved' = expected /\ op' = [at |-> "ensure"]
               \/ saved' = None /\ op' = None
        BY <1>0, <2>1, <3>4, StorePasswordIs
      <4>2. Stored'
        BY <2>1, <3>1, <3>4, <4>1
      <4>3. BrowserCalls'
        BY <4>1, <1>w
      <4> QED
        BY <1>a, <2>1, <2>2, <4>1, <4>2, <4>3, <1>m
    <3>5. CASE dialog' = ReturnInDialog(dialog, "error") /\ op' = None /\ UNCHANGED saved
      BY <1>a, <2>1, <2>2, <3>5, <1>m, <1>w, OneCallStep
    <3> QED
      BY <2>4, <3>2, <3>3, <3>4, <3>5, BrowserShares DEF Browser!SignedIn
  <2> QED
    BY <1>5, <2>3, <2>4, BrowserShares DEF Browser!AuthorizeAnswers, Browser!NotSignedIn
<1>6. CASE Browser!AddAnswers /\ UNCHANGED Browser!browserVars
  <2>1. AddAnswers /\ UNCHANGED <<expected, name, result>>
    BY <1>6, BrowserShares DEF Browser!browserVars
  <2>2. /\ WaitsFor("add") /\ provider' = provider /\ kind' = kind /\ accepted' = accepted
        /\ dialog' \in Dialogs /\ ~dialog'.open /\ OneCall' /\ saved' \in {op.account, None}
    BY <1>0, <2>1, AddAnswersAre
  <2>3. op.account \in accepted /\ kind = "add" /\ op.at = "add"
    BY <1>0, <2>2 DEF BrowserCalls, WaitsFor
  <2>4. Stored' /\ Once' /\ Released'
    BY <1>0, <2>1, <2>2, <2>3
  <2> QED
    BY <2>2, <2>4, <1>m, <1>w
<1>7. CASE Browser!EnsureAnswers /\ UNCHANGED Browser!browserVars
  <2>1. EnsureAnswers /\ UNCHANGED <<expected, name, result>>
    BY <1>7, BrowserShares DEF Browser!browserVars
  <2>2. /\ WaitsFor("ensure") /\ op' = None /\ provider' = provider /\ kind' = kind
        /\ accepted' = accepted /\ saved' = saved
        /\ dialog' \in Dialogs /\ OneCall'
    BY <1>0, <2>1, EnsureAnswersAre
  <2>3. name = "none"
    BY <1>0, <2>2 DEF WaitsFor
  <2> QED
    BY <1>0, <2>1, <2>2, <2>3, <1>m, <1>w
<1>8. CASE Browser!BrowserClose
  <2>1. /\ Close /\ expected' = expected
        /\ IF op # None /\ op.at = "authorize" THEN Browser!Complete("error")
           ELSE UNCHANGED <<name, object, result>>
    BY <1>8, BrowserShares DEF Browser!BrowserClose
  <2>2. /\ dialog' \in Dialogs /\ ~dialog'.open
        /\ UNCHANGED <<provider, kind, op, accepted, saved, edits, tries>>
    BY <2>1, CloseIs
  <2>3. name' = "none"
    BY <1>0, <2>1 DEF Browser!Complete
  <2> QED
    BY <1>0, <2>1, <2>2, <2>3, <1>m, <1>w, OneCallStep
<1> QED
  BY <1>1, <1>2, <1>3, <1>4, <1>5, <1>6, <1>7, <1>8 DEF Browser!BrowserNext, Browser!BrowserAnswers

-----------------------------------------------------------------------------
(* The dialogs of the WebDAV provider. *)

LEMMA DavShares ==
    /\ \A d, s : Dav!SetState(d, s) = SetState(d, s)
    /\ \A d, s : Dav!ReturnInDialog(d, s) = ReturnInDialog(d, s)
    /\ Dav!Edit <=> Edit
    /\ Dav!Activate <=> Activate
    /\ \A where : Dav!Answers(where) <=> Answers(where)
    /\ Dav!Fails <=> Fails
    /\ \A a : Dav!AddAccount(a) <=> AddAccount(a)
    /\ Dav!AddAnswers <=> AddAnswers
    /\ \A a : Dav!StorePassword(a) <=> StorePassword(a)
    /\ Dav!EnsureAnswers <=> EnsureAnswers
    /\ Dav!Close <=> Close
<1>1. /\ \A d, s : Dav!SetState(d, s) = SetState(d, s)
      /\ \A d, s : Dav!ReturnInDialog(d, s) = ReturnInDialog(d, s)
  BY DEF Dav!SetState, SetState, Dav!ReturnInDialog, ReturnInDialog, Dav!DONE, DONE
<1>2. Dav!Edit <=> Edit
  BY DEF Dav!Edit, Edit, Dav!BUSY, BUSY
<1>3. Dav!Activate <=> Activate
  BY DEF Dav!Activate, Activate, Dav!READY, READY, Dav!ERROR, ERROR
<1>4. \A where : Dav!Answers(where) <=> Answers(where)
  BY DEF Dav!Answers, Answers
<1>5. Dav!Fails <=> Fails
  BY <1>1 DEF Dav!Fails, Fails, Dav!ReportError, ReportError, Dav!ERROR, ERROR
<1>6. \A a : Dav!AddAccount(a) <=> AddAccount(a)
  BY DEF Dav!AddAccount, AddAccount
<1>7. Dav!AddAnswers <=> AddAnswers
  BY <1>1, <1>4 DEF Dav!AddAnswers, AddAnswers
<1>8. \A a : Dav!StorePassword(a) <=> StorePassword(a)
  BY <1>1 DEF Dav!StorePassword, StorePassword
<1>9. Dav!EnsureAnswers <=> EnsureAnswers
  BY <1>1, <1>4 DEF Dav!EnsureAnswers, EnsureAnswers, Dav!ReturnBehindDialog, ReturnBehindDialog
<1>10. Dav!Close <=> Close
  BY <1>1 DEF Dav!Close, Close, Dav!Closed, Closed
<1> QED
  BY <1>1, <1>2, <1>3, <1>4, <1>5, <1>6, <1>7, <1>8, <1>9, <1>10

\* The next stage is the first one after this that has an address.
LEMMA NextStageIs ==
    ASSUME NEW stage \in Stages
    PROVE  /\ Dav!NextStage(stage) \in Dav!Services \cup {Dav!TICKETING}
           /\ stage # Dav!TICKETING => stage < Dav!NextStage(stage)
           /\ Dav!NextStage(stage) \in Dav!Services => uris[Dav!NextStage(stage)] # None
           /\ \A s \in Dav!Services : s > stage /\ uris[s] # None => Dav!NextStage(stage) <= s
<1> DEFINE T == {s \in Dav!Services : s > stage /\ uris[s] # None} \cup {Dav!TICKETING}
<1> USE DEF Dav!FILES, Dav!CALENDAR, Dav!CONTACTS, Dav!TICKETING, Dav!Services, Stages
<1>1. T \subseteq 1..4 /\ 4 \in T
  OBVIOUS
<1>2. \E m \in T : \A y \in T : m =< y
  <2> HIDE DEF T
  <2>1. CASE 1 \in T
    BY <1>1, <2>1
  <2>2. CASE 1 \notin T /\ 2 \in T
    BY <1>1, <2>2
  <2>3. CASE 1 \notin T /\ 2 \notin T /\ 3 \in T
    BY <1>1, <2>3
  <2>4. CASE 1 \notin T /\ 2 \notin T /\ 3 \notin T
    BY <1>1, <2>4
  <2> QED
    BY <2>1, <2>2, <2>3, <2>4
<1>3. Dav!NextStage(stage) = CHOOSE m \in T : \A y \in T : m =< y
  BY DEF Dav!NextStage, Dav!Min
<1>4. Dav!NextStage(stage) \in T /\ \A y \in T : Dav!NextStage(stage) =< y
  <2> HIDE DEF T
  <2> QED
    BY <1>2, <1>3
<1>5. \A s \in Dav!Services : s > stage /\ uris[s] # None => s \in T
  OBVIOUS
<1> QED
  BY <1>1, <1>4, <1>5

\* Of the stages for the calendar and the contacts, the first.
LEMMA MinOfStages ==
    ASSUME NEW T \in SUBSET {Dav!CALENDAR, Dav!CONTACTS}
    PROVE  /\ Dav!CALENDAR \in T => Dav!Min(T) = Dav!CALENDAR
           /\ T = {Dav!CONTACTS} => Dav!Min(T) = Dav!CONTACTS
<1> USE DEF Dav!CALENDAR, Dav!CONTACTS
<1>1. Dav!Min(T) = CHOOSE m \in T : \A y \in T : m =< y
  BY DEF Dav!Min
<1>2. ASSUME 2 \in T
      PROVE  Dav!Min(T) = 2
  <2>1. \E m \in T : \A y \in T : m =< y
    BY <1>2
  <2>2. Dav!Min(T) \in T /\ \A y \in T : Dav!Min(T) =< y
    BY <1>1, <2>1
  <2>3. Dav!Min(T) =< 2
    BY <1>2, <2>2
  <2>4. T \subseteq {2, 3}
    OBVIOUS
  <2>5. Dav!Min(T) \in {2, 3}
    BY <2>2, <2>4
  <2> QED
    BY <2>3, <2>5
<1>3. ASSUME T = {3}
      PROVE  Dav!Min(T) = 3
  <2>1. \E m \in T : \A y \in T : m =< y
    BY <1>3
  <2>2. Dav!Min(T) \in T
    BY <1>1, <2>1
  <2> QED
    BY <1>3, <2>2
<1> QED
  BY <1>2, <1>3

\* What an answer makes of the progress, whatever went before.
LEMMA HandleIs ==
    ASSUME ProgressOK, NEW has,
           has = None \/ has = [s \in Dav!Services |-> has[s]]
    PROVE  LET h == Dav!HandleResponse(progress, has) IN
           /\ h.stage = Dav!NextStage(progress.stage)
           /\ h = [stage |-> h.stage, found |-> h.found, check |-> h.check]
           /\ h.found = [s \in Dav!Services |-> h.found[s]]
<1> DEFINE p == progress
           found == IF has = None THEN p.found
                    ELSE IF p.stage = 0 THEN has
                    ELSE IF Dav!Passes(p, Dav!FILES)
                    THEN [p.found EXCEPT ![Dav!FILES] = has[Dav!FILES]]
                    ELSE p.found
           taken == {s \in {Dav!CALENDAR, Dav!CONTACTS} : p.check # None /\ Dav!Passes(p, s)}
           h == Dav!HandleResponse(progress, has)
<1>1. h = [stage |-> Dav!NextStage(p.stage),
           found |-> IF taken = {} THEN found ELSE [found EXCEPT ![Dav!Min(taken)] = p.check],
           check |-> IF taken = {} THEN p.check ELSE None]
  BY DEF Dav!HandleResponse
<1>2. p.found = [s \in Dav!Services |-> p.found[s]]
  BY DEF ProgressOK
<1>3. found = [s \in Dav!Services |-> found[s]]
  BY <1>2
<1> HIDE DEF h, taken, found
<1>4. h.found = [s \in Dav!Services |-> h.found[s]]
  <2>1. CASE taken = {}
    BY <1>1, <1>3, <2>1
  <2>2. CASE taken # {}
    <3>1. h.found = [found EXCEPT ![Dav!Min(taken)] = p.check]
      BY <1>1, <2>2
    <3> QED
      BY <1>3, <3>1
  <2> QED
    BY <2>1, <2>2
<1>5. h.stage = Dav!NextStage(p.stage) /\ h = [stage |-> h.stage, found |-> h.found, check |-> h.check]
  BY <1>1
<1> QED
  BY <1>4, <1>5 DEF h

\* Where the first sign-in finds its services: they were there before, were
\* discovered now, or are the one that has been checked.
LEMMA HandleFirst ==
    ASSUME ProgressOK, Given, NEW has,
           has = None \/ has = [s \in Dav!Services |-> has[s]],
           \/ progress.stage = 0 /\ progress.check = None
           \/ progress.stage = Dav!FILES /\ uris[Dav!FILES] # None
           \/ progress.stage \in {Dav!CALENDAR, Dav!CONTACTS} /\ has = None,
           NEW s \in Dav!Services
    PROVE  LET h == Dav!HandleResponse(progress, has) IN
           \/ h.found[s] = progress.found[s]
           \/ has # None /\ h.found[s] = has[s]
           \/ s = progress.stage /\ s # Dav!FILES /\ h.found[s] = progress.check
<1> DEFINE p == progress
           found == IF has = None THEN p.found
                    ELSE IF p.stage = 0 THEN has
                    ELSE IF Dav!Passes(p, Dav!FILES)
                    THEN [p.found EXCEPT ![Dav!FILES] = has[Dav!FILES]]
                    ELSE p.found
           taken == {t \in {Dav!CALENDAR, Dav!CONTACTS} : p.check # None /\ Dav!Passes(p, t)}
           h == Dav!HandleResponse(progress, has)
<1>1. h = [stage |-> Dav!NextStage(p.stage),
           found |-> IF taken = {} THEN found ELSE [found EXCEPT ![Dav!Min(taken)] = p.check],
           check |-> IF taken = {} THEN p.check ELSE None]
  BY DEF Dav!HandleResponse
<1>2. p.found = [t \in Dav!Services |-> p.found[t]] /\ p.stage \in Stages
  BY DEF ProgressOK
<1>3. found[s] = p.found[s] \/ (has # None /\ found[s] = has[s])
  BY <1>2
<1>4. /\ p.stage # Dav!TICKETING => p.stage < Dav!NextStage(p.stage)
      /\ \A t \in Dav!Services : t > p.stage /\ uris[t] # None => Dav!NextStage(p.stage) <= t
      /\ Dav!NextStage(p.stage) \in Dav!Services \cup {Dav!TICKETING}
  BY <1>2, NextStageIs
<1>5. taken = {} => h.found[s] = found[s]
  BY <1>1
<1>6. CASE p.check = None
  <2>1. taken = {}
    BY <1>6
  <2> HIDE DEF taken, found, h
  <2> QED
    BY <1>3, <1>5, <2>1 DEF h
<1>7. CASE p.stage = Dav!FILES /\ uris[Dav!FILES] # None
  <2>1. uris[Dav!CALENDAR] # None
    BY <1>7 DEF Given
  <2>2. Dav!NextStage(p.stage) <= 2
    BY <1>4, <1>7, <2>1 DEF Dav!FILES, Dav!CALENDAR, Dav!Services, Dav!CONTACTS
  <2>3. taken = {}
    BY <1>4, <1>7, <2>2 DEF Dav!Passes, Dav!CALENDAR, Dav!CONTACTS, Dav!FILES, Dav!Services, Dav!TICKETING
  <2> HIDE DEF taken, found, h
  <2> QED
    BY <1>3, <1>5, <2>3 DEF h
<1>8. CASE p.stage \in {Dav!CALENDAR, Dav!CONTACTS} /\ has = None /\ p.check # None
  <2>1. taken \in SUBSET {Dav!CALENDAR, Dav!CONTACTS}
    OBVIOUS
  <2>2. Dav!Passes(p, p.stage)
    BY <1>4, <1>8 DEF Dav!Passes, Dav!CALENDAR, Dav!CONTACTS, Dav!FILES, Dav!Services, Dav!TICKETING
  <2>3. p.stage = Dav!CONTACTS => ~Dav!Passes(p, Dav!CALENDAR)
    BY <1>4, <1>8 DEF Dav!Passes, Dav!CALENDAR, Dav!CONTACTS, Dav!FILES, Dav!Services, Dav!TICKETING
  <2>4. p.stage \in taken /\ (p.stage = Dav!CONTACTS => taken = {Dav!CONTACTS})
    BY <1>8, <2>2, <2>3
  <2>5. Dav!Min(taken) = p.stage
    <3> HIDE DEF taken
    <3> QED
      BY <1>8, <2>1, <2>4, MinOfStages
  <2>6. h.found = [p.found EXCEPT ![p.stage] = p.check]
    BY <1>1, <1>8, <2>4, <2>5
  <2>7. p.stage # Dav!FILES
    BY <1>8 DEF Dav!CALENDAR, Dav!CONTACTS, Dav!FILES
  <2> HIDE DEF taken, found, h
  <2>8. CASE s = p.stage
    <3>1. h.found[s] = p.check
      BY <1>2, <2>6, <2>8
    <3> QED
      BY <2>7, <2>8, <3>1 DEF h
  <2>9. CASE s # p.stage
    <3>1. h.found[s] = p.found[s]
      BY <1>2, <2>6, <2>9
    <3> QED
      BY <3>1 DEF h
  <2> QED
    BY <2>8, <2>9
<1> QED
  BY <1>6, <1>7, <1>8

\* Going on with what an answer has made of the progress.
LEMMA GoOnKeeps ==
    ASSUME DialogOK, OneCall, DavAdds, provider = "dav", kind = "add",
           NEW where \in {"discover", "check"}, Answers(where),
           UNCHANGED <<login, uris, ignoreSsl, template>>,
           NEW h, Dav!GoOn(h),
           h.stage \in Dav!Services \cup {Dav!TICKETING},
           h = [stage |-> h.stage, found |-> h.found, check |-> h.check],
           h.found = [s \in Dav!Services |-> h.found[s]],
           tries = 1 /\ Given => /\ WasAccepted(h.found)'
                                 /\ h.stage = Dav!FILES => op.at = "discover"
                                 /\ h.stage \in Dav!Services => uris[h.stage] # None
    PROVE  dialog' \in Dialogs /\ DavInv' /\ provider' = provider
<1>0. /\ WaitsFor(where) /\ dialog.open /\ dialog.state = BUSY /\ saved = None
      /\ provider' = provider /\ kind' = kind /\ tries' = tries
      /\ ReportError(dialog) \in Dialogs
  BY AnswersAre
<1>1. tries \in Nat /\ tries # 0
  BY <1>0 DEF DavAdds, WaitsFor
<1>2. Given' <=> Given
  BY DEF Given
<1>m. ASSUME dialog' \in Dialogs, saved' = None, OneCall', ProgressOK',
             ~WaitsFor("recheck")',
             tries = 1 /\ Given => FirstSignIn',
             (WaitsFor("add") =>
                 /\ op.account.login = login /\ op.account.accept = ignoreSsl
                 /\ tries = 1 /\ Given => WasAccepted(op.account.uris))'
      PROVE  dialog' \in Dialogs /\ DavInv' /\ provider' = provider
  <2>1. Dav!DavSavedWasAccepted'
    BY <1>m DEF Dav!DavSavedWasAccepted
  <2>4. (tries = 1 /\ Given => FirstSignIn)'
    BY <1>0, <1>2, <1>m
  <2>5. DavAdds'
    BY <1>0, <1>1, <1>m, <2>4 DEF DavAdds
  <2> QED
    BY <1>0, <1>m, <2>1, <2>5 DEF DavInv
<1>3. CASE h.stage = Dav!TICKETING
  <2>1. progress' = h /\ AddAccount(Dav!Account(h.found))
    BY <1>3 DEF Dav!GoOn, Dav!AddAccount, AddAccount
  <2>2. op' = [at |-> "add", account |-> [login |-> login, accept |-> ignoreSsl, uris |-> h.found]]
        /\ UNCHANGED <<dialog, saved>>
    BY <2>1 DEF AddAccount, Dav!Account
  <2>3. op'.at = "add" /\ op'.account.login = login /\ op'.account.accept = ignoreSsl
        /\ op'.account.uris = h.found
    BY <2>2
  <2>4. ProgressOK'
    BY <2>1 DEF ProgressOK, Stages
  <2>5. FirstSignIn' /\ ~WaitsFor("recheck")'
    BY <2>3 DEF FirstSignIn, WaitsFor
  <2>6. (tries = 1 /\ Given => WasAccepted(op.account.uris))'
    BY <1>0, <1>2, <2>3 DEF WasAccepted
  <2>7. login' = login /\ ignoreSsl' = ignoreSsl
    OBVIOUS
  <2> QED
    BY <1>0, <2>2, <2>3, <2>4, <2>5, <2>6, <2>7, <1>m, OneCallStep DEF DialogOK
<1>4. CASE progress' = h /\ dialog' = ReportError(dialog) /\ op' = None /\ UNCHANGED saved
  <2>1. ProgressOK'
    BY <1>4 DEF ProgressOK, Stages
  <2>2. ~Waiting'
    BY <1>4 DEF Waiting
  <2>3. FirstSignIn' /\ ~WaitsFor("recheck")' /\ ~WaitsFor("add")'
    BY <2>2 DEF FirstSignIn, WaitsFor
  <2> QED
    BY <1>0, <1>4, <2>1, <2>3, <1>m, OneCallStep
<1>5. CASE /\ h.stage # Dav!TICKETING
           /\ progress' = [h EXCEPT !.check = uris[h.stage]]
           /\ op' = IF h.stage = Dav!FILES /\ op.at = "discover" THEN Dav!Discover(uris[h.stage])
                    ELSE Dav!Check(h.stage, uris[h.stage])
           /\ UNCHANGED <<dialog, saved>>
  <2>1. progress' = [stage |-> h.stage, found |-> h.found, check |-> uris[h.stage]]
    BY <1>5
  <2>2. progress'.stage = h.stage /\ progress'.found = h.found /\ progress'.check = uris[h.stage]
    BY <2>1
  <2>3. ProgressOK'
    BY <2>1, <2>2 DEF ProgressOK, Stages
  <2>4. h.stage \in Dav!Services
    BY <1>5
  <2>5. op'.at \in {"discover", "check"}
    BY <1>5 DEF Dav!Discover, Dav!Check
  <2>6. ASSUME tries = 1, Given
        PROVE  FirstSignIn'
    <3>1. WasAccepted(progress.found)'
      BY <2>2, <2>6 DEF WasAccepted
    <3>2. ASSUME Waiting'
          PROVE  AtStage'
      <4>1. CASE h.stage = Dav!FILES
        <5>1. op' = Dav!Discover(uris[Dav!FILES])' /\ op'.at = "discover"
          BY <1>5, <2>6, <4>1 DEF Dav!Discover
        <5>2. uris[Dav!FILES] # None
          BY <2>4, <2>6, <4>1
        <5> QED
          BY <2>2, <3>2, <4>1, <5>1, <5>2 DEF AtStage, WaitsFor
      <4>2. CASE h.stage # Dav!FILES
        <5>1. op' = Dav!Check(progress.stage, progress.check)' /\ op'.at = "check"
          BY <1>5, <2>2, <4>2 DEF Dav!Check
        <5>2. progress'.stage \in {Dav!CALENDAR, Dav!CONTACTS}
          BY <2>2, <2>4, <4>2 DEF Dav!Services
        <5> QED
          BY <2>2, <3>2, <5>1, <5>2 DEF AtStage, WaitsFor
      <4> QED
        BY <4>1, <4>2
    <3> QED
      BY <3>1, <3>2 DEF FirstSignIn, WaitsFor
  <2>7. ~WaitsFor("recheck")' /\ ~WaitsFor("add")'
    BY <2>5 DEF WaitsFor
  <2> QED
    BY <1>0, <1>5, <2>3, <2>6, <2>7, <1>m, OneCallStep DEF DialogOK
<1> QED
  BY <1>3, <1>4, <1>5, DavShares DEF Dav!GoOn, Fails, Dav!ReportError, ReportError, Dav!ERROR, ERROR

\* What was accepted, and what answered now, is what the first sign-in has found.
LEMMA HandleAccepts ==
    ASSUME ProgressOK, WasAccepted(progress.found), AtStage, Given, NEW has,
           has = None \/ has = [s \in Dav!Services |-> has[s]],
           progress.stage \in {Dav!CALENDAR, Dav!CONTACTS} => has = None,
           accepted \subseteq accepted', UNCHANGED <<login, ignoreSsl>>,
           NEW h, h = Dav!HandleResponse(progress, has),
           op.login = login, op.accept = ignoreSsl,
           \A s \in Dav!Services : has # None /\ has[s] # None => Dav!At(s, has[s]) \in accepted',
           op.at = "check" => Dav!At(op.service, op.uri) \in accepted'
    PROVE  WasAccepted(h.found)'
<1>1. \/ progress.stage = 0 /\ progress.check = None
      \/ progress.stage = Dav!FILES /\ uris[Dav!FILES] # None
      \/ progress.stage \in {Dav!CALENDAR, Dav!CONTACTS} /\ has = None
  BY DEF AtStage
<1>2. ASSUME NEW s \in Dav!Services, h.found[s] # None
      PROVE  [service |-> s, uri |-> h.found[s], login |-> login, accept |-> ignoreSsl] \in accepted'
  <2>1. \/ h.found[s] = progress.found[s]
        \/ has # None /\ h.found[s] = has[s]
        \/ s = progress.stage /\ s # Dav!FILES /\ h.found[s] = progress.check
    BY <1>1, HandleFirst
  <2>2. CASE h.found[s] = progress.found[s]
    BY <1>2, <2>2 DEF WasAccepted
  <2>3. CASE has # None /\ h.found[s] = has[s]
    BY <1>2, <2>3 DEF Dav!At
  <2>4. CASE s = progress.stage /\ s # Dav!FILES /\ h.found[s] = progress.check
    <3>1. op = Dav!Check(s, progress.check)
      BY <2>4 DEF AtStage, Dav!Services, Dav!FILES, Dav!CALENDAR, Dav!CONTACTS
    <3>2. op.at = "check" /\ op.service = s /\ op.uri = progress.check
      BY <3>1 DEF Dav!Check
    <3>3. Dav!At(s, progress.check) \in accepted'
      BY <3>2
    <3> QED
      BY <2>4, <3>3 DEF Dav!At
  <2> QED
    BY <2>1, <2>2, <2>3, <2>4
<1> QED
  BY <1>2 DEF WasAccepted

\* An answer to the discovery or to the check of an address.
LEMMA DavAnswersKeep ==
    ASSUME DialogOK, OneCall, DavAdds, provider = "dav", kind = "add",
           Dav!DiscoverAnswers \/ Dav!CheckAnswers
    PROVE  dialog' \in Dialogs /\ DavInv' /\ provider' = provider
<1>1. PICK where \in {"discover", "check"} : Answers(where)
  BY DavShares DEF Dav!DiscoverAnswers, Dav!CheckAnswers
<1>0. /\ WaitsFor(where) /\ dialog.open /\ dialog.state = BUSY /\ saved = None
      /\ provider' = provider /\ kind' = kind /\ tries' = tries
      /\ ReportError(dialog) \in Dialogs
  BY <1>1, AnswersAre
<1>u. UNCHANGED <<login, uris, template>>
  BY DEF Dav!DiscoverAnswers, Dav!CheckAnswers
<1>p. ProgressOK
  BY DEF DavAdds
<1>2. CASE Fails /\ UNCHANGED progress
  <2>1. /\ dialog' = ReportError(dialog) /\ op' = None /\ saved' = None
    BY <1>0, <1>2 DEF Fails
  <2>2. ProgressOK'
    BY <1>p, <1>2 DEF ProgressOK
  <2>3. ~Waiting'
    BY <2>1 DEF Waiting
  <2>4. FirstSignIn' /\ ~WaitsFor("recheck")' /\ ~WaitsFor("add")'
    BY <2>3 DEF FirstSignIn, WaitsFor
  <2>5. tries \in Nat /\ tries # 0
    BY <1>0 DEF DavAdds, WaitsFor
  <2>6. DavAdds'
    BY <1>0, <2>2, <2>4, <2>5 DEF DavAdds
  <2>7. Dav!DavSavedWasAccepted'
    BY <2>1 DEF Dav!DavSavedWasAccepted
  <2> QED
    BY <1>0, <2>1, <2>4, <2>6, <2>7, OneCallStep DEF DavInv
<1>g. ASSUME NEW has, has = None \/ has = [s \in Dav!Services |-> has[s]],
             Dav!GoOn(Dav!HandleResponse(progress, has)), ignoreSsl' = ignoreSsl,
             accepted \subseteq accepted',
             tries = 1 /\ Given /\ progress.stage \in {Dav!CALENDAR, Dav!CONTACTS} => has = None,
             \A s \in Dav!Services : has # None /\ has[s] # None => Dav!At(s, has[s]) \in accepted',
             where = "check" => Dav!At(op.service, op.uri) \in accepted'
      PROVE  dialog' \in Dialogs /\ DavInv' /\ provider' = provider
  <2>1. PICK h : h = Dav!HandleResponse(progress, has)
    OBVIOUS
  <2>2. /\ h.stage = Dav!NextStage(progress.stage)
        /\ h = [stage |-> h.stage, found |-> h.found, check |-> h.check]
        /\ h.found = [s \in Dav!Services |-> h.found[s]]
    BY <1>g, <1>p, <2>1, HandleIs
  <2>3. progress.stage \in Stages
    BY <1>p DEF ProgressOK
  <2>4. /\ h.stage \in Dav!Services \cup {Dav!TICKETING}
        /\ progress.stage # Dav!TICKETING => progress.stage < h.stage
        /\ h.stage \in Dav!Services => uris[h.stage] # None
    BY <2>2, <2>3, NextStageIs
  <2>5. ASSUME tries = 1, Given
        PROVE  WasAccepted(h.found)' /\ (h.stage = Dav!FILES => op.at = "discover")
    <3>1. AtStage /\ WasAccepted(progress.found)
      BY <1>0, <2>5 DEF DavAdds, FirstSignIn
    <3>2. op.login = login /\ op.accept = ignoreSsl
      BY <3>1 DEF AtStage, Dav!Discover, Dav!Check
    <3>3. op.at = where
      BY <1>0 DEF WaitsFor
    <3>4. WasAccepted(h.found)'
      BY <1>g, <1>p, <1>u, <2>1, <2>5, <3>1, <3>2, <3>3, HandleAccepts
    <3>5. h.stage = Dav!FILES => op.at = "discover"
      BY <2>4, <3>1 DEF AtStage, WaitsFor, Dav!FILES, Dav!CALENDAR, Dav!CONTACTS, Dav!TICKETING
    <3> QED
      BY <3>4, <3>5
  <2> QED
    BY <1>1, <1>g, <1>u, <2>1, <2>2, <2>4, <2>5, GoOnKeeps
<1>3. ASSUME Dav!DiscoverAnswers, ~(Fails /\ UNCHANGED progress)
      PROVE  dialog' \in Dialogs /\ DavInv' /\ provider' = provider
  <2>0. Answers("discover") /\ where = "discover"
    BY <1>0, <1>3, DavShares DEF Dav!DiscoverAnswers, WaitsFor, Answers
  <2>1. PICK some \in SUBSET Dav!Services \ {{}} :
          LET offers == [s \in Dav!Services |-> IF s \notin some THEN None
                                                ELSE IF op.uri = None THEN Found ELSE op.uri]
          IN /\ accepted' = accepted \cup {Dav!At(s, offers[s]) : s \in some}
             /\ Dav!GoOn(Dav!HandleResponse(progress, offers))
             /\ ignoreSsl' = ignoreSsl
    BY <1>3, DavShares DEF Dav!DiscoverAnswers
  <2>2. PICK has : has = [s \in Dav!Services |-> IF s \notin some THEN None
                                                 ELSE IF op.uri = None THEN Found ELSE op.uri]
    OBVIOUS
  <2>3. /\ accepted' = accepted \cup {Dav!At(s, has[s]) : s \in some}
        /\ Dav!GoOn(Dav!HandleResponse(progress, has)) /\ ignoreSsl' = ignoreSsl
    BY <2>1, <2>2
  <2>4. has = [s \in Dav!Services |-> has[s]]
    BY <2>2
  <2>5. \A s \in Dav!Services : has[s] # None => Dav!At(s, has[s]) \in accepted'
    BY <2>2, <2>3
  <2>6. tries = 1 /\ Given /\ progress.stage \in {Dav!CALENDAR, Dav!CONTACTS} => has = None
    BY <1>0, <2>0 DEF DavAdds, FirstSignIn, AtStage, WaitsFor, Dav!FILES, Dav!CALENDAR, Dav!CONTACTS
  <2> QED
    BY <1>g, <2>0, <2>3, <2>4, <2>5, <2>6
<1>4. ASSUME Dav!CheckAnswers, ~(Fails /\ UNCHANGED progress)
      PROVE  dialog' \in Dialogs /\ DavInv' /\ provider' = provider
  <2>1. /\ accepted' = accepted \cup {Dav!At(op.service, op.uri)}
        /\ Dav!GoOn(Dav!HandleResponse(progress, None)) /\ ignoreSsl' = ignoreSsl
    BY <1>4, DavShares DEF Dav!CheckAnswers
  <2> QED
    BY <1>g, <2>1
<1> QED
  BY <1>2, <1>3, <1>4

LEMMA DavStep ==
    DialogOK /\ DavInv /\ Dav!DavNext => DialogOK' /\ DavInv' /\ provider' = provider
<1> SUFFICES ASSUME DialogOK, DavInv, Dav!DavNext
             PROVE  dialog' \in Dialogs /\ DavInv' /\ provider' = provider
  BY DEF DialogOK
<1> DEFINE Goal == dialog' \in Dialogs /\ DavInv' /\ provider' = provider
<1>0. /\ provider = "dav" /\ kind \in {"add", "refresh"} /\ OneCall
      /\ kind = "add" => DavAdds /\ ~WaitsFor("recheck")
      /\ kind = "refresh" => DavRefreshes
      /\ Dav!DavSavedWasAccepted
  BY DEF DavInv, Dav!DavNext, Dav!DavAnswers
<1>s. saved' = None => Dav!DavSavedWasAccepted'
  BY DEF Dav!DavSavedWasAccepted
<1>k. ASSUME UNCHANGED progress
      PROVE  kind = "add" => ProgressOK'
  BY <1>0, <1>k DEF DavAdds, ProgressOK
<1>n. ASSUME dialog' \in Dialogs, UNCHANGED <<provider, kind, progress, tries>>, OneCall',
             ~Waiting', Dav!DavSavedWasAccepted'
      PROVE  Goal
  <2>1. \A where : ~WaitsFor(where)'
    BY <1>n DEF WaitsFor
  <2>2. FirstSignIn'
    BY <2>1 DEF FirstSignIn
  <2>3. DavRefreshes'
    BY <2>1 DEF DavRefreshes
  <2>4. kind = "add" => DavAdds'
    BY <1>0, <1>k, <1>n, <2>1, <2>2 DEF DavAdds
  <2> QED
    BY <1>0, <1>n, <2>1, <2>3, <2>4 DEF DavInv
<1>q. ASSUME dialog' \in Dialogs, UNCHANGED <<provider, kind, progress, tries>>,
             op' = None, saved' = None
      PROVE  Goal
  BY <1>q, <1>n, <1>s, OneCallStep DEF Waiting
<1>e. ASSUME Edit
      PROVE  /\ dialog.open /\ op' = None /\ saved' = None
             /\ UNCHANGED <<provider, kind, tries>>
  BY <1>0, <1>e DEF Edit, OneCall, Waiting
<1>1. CASE Dav!EditLogin
  <2>1. Edit /\ progress' = progress /\ \E s \in {IDLE, READY} : dialog' = SetState(dialog, s)
    BY <1>1, DavShares DEF Dav!EditLogin, Dav!IDLE, IDLE, Dav!READY, READY
  <2>2. dialog' \in Dialogs
    BY <2>1, SetStateIs DEF DialogOK, DialogStates
  <2> QED
    BY <2>1, <2>2, <1>e, <1>q
<1>2. CASE Dav!EditUri
  <2>1. Edit /\ progress' = progress /\ dialog' = dialog
    BY <1>2, DavShares DEF Dav!EditUri
  <2> QED
    BY <2>1, <1>e, <1>q DEF DialogOK
<1>a. ASSUME Activate
      PROVE  /\ dialog.open /\ op = None /\ saved' = None /\ provider' = provider /\ kind' = kind
             /\ tries' = tries + 1
             /\ SetState(dialog, BUSY) \in Dialogs
             /\ SetState(dialog, BUSY).state = BUSY /\ SetState(dialog, BUSY).open
             /\ ReturnInDialog(SetState(dialog, BUSY), "error") \in Dialogs
             /\ ~ReturnInDialog(SetState(dialog, BUSY), "error").open
  <2>1. tries' = tries + 1
    BY <1>a DEF Activate
  <2> QED
    BY <1>0, <1>a, <2>1, ActivateIs
<1>3. CASE Dav!AddSignIn
  <2>1. Activate /\ kind = "add" /\ UNCHANGED <<login, uris, ignoreSsl, progress, template>>
    BY <1>3, DavShares DEF Dav!AddSignIn, Dav!davVars
  <2>2. tries \in Nat /\ tries' \in Nat /\ tries' # 0 /\ (tries' = 1 => tries = 0)
    BY <1>0, <1>a, <2>1 DEF DavAdds
  <2>3. tries' = 1 => progress = [stage |-> 0, found |-> Dav!Nothing, check |-> None]
    BY <1>0, <2>1, <2>2 DEF DavAdds
  <2>4. \/ dialog' = ReturnInDialog(SetState(dialog, BUSY), "error")
        \/ dialog' = SetState(dialog, BUSY) /\ op' = Dav!Discover(None)
    BY <1>3, DavShares DEF Dav!AddSignIn, Dav!BUSY, BUSY
  <2>5. tries' = 1 /\ Waiting' => FirstSignIn'
    <3>1. SUFFICES ASSUME tries' = 1, Waiting'
                   PROVE  FirstSignIn'
      OBVIOUS
    <3>2. op' = Dav!Discover(None)'
      BY <1>a, <2>1, <2>4, <3>1 DEF Waiting, Dav!Discover
    <3>3. op'.at = "discover"
      BY <3>2 DEF Dav!Discover
    <3>4. progress' = [stage |-> 0, found |-> Dav!Nothing, check |-> None]
      BY <2>1, <2>3, <3>1
    <3>5. AtStage'
      BY <3>1, <3>2, <3>3, <3>4 DEF AtStage, WaitsFor
    <3>6. WasAccepted(progress.found)'
      BY <3>4 DEF WasAccepted, Dav!Nothing
    <3> QED
      BY <3>5, <3>6 DEF FirstSignIn
  <2>6. ~Waiting' => FirstSignIn'
    BY DEF FirstSignIn, WaitsFor
  <2>7. ~WaitsFor("add")' /\ ~WaitsFor("recheck")'
    BY <1>a, <2>1, <2>4 DEF WaitsFor, Waiting, Dav!Discover
  <2>8. ProgressOK'
    BY <1>k, <2>1
  <2>9. DavAdds'
    BY <2>2, <2>5, <2>6, <2>7, <2>8 DEF DavAdds
  <2>10. dialog' \in Dialogs /\ OneCall'
    BY <1>a, <2>1, <2>4, OneCallStep
  <2> QED
    BY <1>0, <1>a, <1>s, <2>1, <2>7, <2>9, <2>10 DEF DavInv
<1>4. CASE Dav!RefreshSignIn
  <2>1. /\ Activate /\ kind = "refresh" /\ dialog' = SetState(dialog, BUSY)
        /\ op' = [at |-> "recheck", login |-> IF template THEN None ELSE login, accept |-> ignoreSsl]
        /\ UNCHANGED <<login, uris, ignoreSsl, progress, template>>
    BY <1>4, DavShares DEF Dav!RefreshSignIn, Dav!davVars, Dav!BUSY, BUSY
  <2>2. op'.at = "recheck" /\ (~template => op'.login = login)
    BY <2>1
  <2>3. DavRefreshes'
    BY <2>1, <2>2 DEF DavRefreshes, WaitsFor
  <2> QED
    BY <1>0, <1>a, <1>s, <2>1, <2>3, OneCallStep DEF DavInv
<1>5. CASE Dav!DiscoverAnswers \/ Dav!CheckAnswers
  <2>1. \E where \in {"discover", "check"} : WaitsFor(where)
    BY <1>5, DavShares DEF Dav!DiscoverAnswers, Dav!CheckAnswers, Answers, WaitsFor, Waiting
  <2>2. kind = "add"
    BY <1>0, <2>1 DEF DavRefreshes
  <2> QED
    BY <1>0, <1>5, <2>2, DavAnswersKeep
<1>6. CASE kind = "add" /\ Dav!AddAnswers /\ UNCHANGED Dav!davVars
  <2>1. AddAnswers /\ kind = "add" /\ UNCHANGED <<login, uris, ignoreSsl, progress, template>>
    BY <1>6, DavShares DEF Dav!davVars
  <2>2. /\ WaitsFor("add")
        /\ provider' = provider /\ kind' = kind /\ tries' = tries /\ accepted' = accepted
        /\ dialog' \in Dialogs /\ ~dialog'.open /\ OneCall' /\ saved' \in {op.account, None}
    BY <1>0, <2>1, AddAnswersAre
  <2>3. /\ op.account.login = login /\ op.account.accept = ignoreSsl
        /\ tries = 1 /\ Given => WasAccepted(op.account.uris)
    BY <1>0, <2>1, <2>2 DEF DavAdds
  <2>4. Dav!DavSavedWasAccepted'
    BY <2>1, <2>2, <2>3 DEF Dav!DavSavedWasAccepted, WasAccepted, Given
  <2>5. ~Waiting'
    BY <2>2 DEF Waiting
  <2> QED
    BY <2>1, <2>2, <2>4, <2>5, <1>n
<1>7. CASE Dav!RecheckAnswers
  <2>1. Answers("recheck") /\ UNCHANGED <<login, uris, ignoreSsl, progress, template>>
    BY <1>7, DavShares DEF Dav!RecheckAnswers, Dav!davVars
  <2>2. /\ WaitsFor("recheck") /\ dialog.open /\ dialog.state = BUSY /\ saved = None
        /\ provider' = provider /\ kind' = kind /\ tries' = tries
        /\ ReportError(dialog) \in Dialogs
    BY <1>0, <2>1, AnswersAre
  <2>3. kind = "refresh" /\ DavRefreshes
    BY <1>0, <2>2
  <2>4. CASE Fails
    BY <2>1, <2>2, <2>4, <1>q DEF Fails
  <2>5. CASE template /\ AddAccount([login |-> login, accept |-> op.accept])
    <3>1. op' = [at |-> "add", account |-> [login |-> login, accept |-> op.accept]]
          /\ UNCHANGED <<dialog, saved>>
      BY <2>5 DEF AddAccount
    <3>2. DavRefreshes'
      BY <2>1, <2>5, <3>1 DEF DavRefreshes, WaitsFor
    <3> QED
      BY <1>s, <2>2, <2>3, <3>1, <3>2, <1>0, OneCallStep DEF DavInv, DialogOK
  <2>6. CASE /\ ~template /\ accepted' = accepted \cup {[login |-> op.login, accept |-> op.accept]}
             /\ StorePassword([login |-> login, accept |-> op.accept])
    <3>1. op.login = login
      BY <2>2, <2>3, <2>6 DEF DavRefreshes
    <3>2. /\ dialog' \in Dialogs /\ OneCall'
          /\ \/ saved' = [login |-> login, accept |-> op.accept] /\ op' = [at |-> "ensure"]
             \/ saved' = None /\ op' = None
      BY <1>0, <2>1, <2>6, StorePasswordIs
    <3>3. saved' # None => saved' \in accepted'
      BY <2>6, <3>1, <3>2
    <3>4. Dav!DavSavedWasAccepted'
      BY <2>2, <2>3, <3>3 DEF Dav!DavSavedWasAccepted
    <3>5. DavRefreshes'
      BY <3>2 DEF DavRefreshes, WaitsFor, Waiting
    <3> QED
      BY <1>0, <2>2, <2>3, <3>2, <3>4, <3>5 DEF DavInv
  <2> QED
    BY <1>7, <2>4, <2>5, <2>6, DavShares DEF Dav!RecheckAnswers
<1>8. CASE Dav!TemplateAnswers
  <2>1. Answers("add") /\ kind = "refresh" /\ UNCHANGED <<accepted, login, uris, ignoreSsl, progress, template>>
    BY <1>8, DavShares DEF Dav!TemplateAnswers, Dav!davVars
  <2>2. "error" \in Answered
    BY DEF Answered
  <2>3. /\ WaitsFor("add") /\ dialog.open /\ dialog.state = BUSY /\ saved = None
        /\ provider' = provider /\ kind' = kind /\ tries' = tries
        /\ ReturnInDialog(dialog, "error") \in Dialogs
    BY <1>0, <2>1, <2>2, AnswersAre
  <2>4. template
    BY <1>0, <2>1, <2>3 DEF DavRefreshes
  <2>5. CASE dialog' = ReturnInDialog(dialog, "error") /\ op' = None /\ UNCHANGED saved
    BY <2>1, <2>3, <2>5, <1>q
  <2>6. CASE saved' = op.account /\ op' = [at |-> "ensure"] /\ UNCHANGED dialog
    <3>1. DavRefreshes'
      BY <2>1, <2>4, <2>6 DEF DavRefreshes, WaitsFor
    <3>2. Dav!DavSavedWasAccepted'
      BY <2>1, <2>3, <2>4 DEF Dav!DavSavedWasAccepted
    <3> QED
      BY <1>0, <2>1, <2>3, <2>6, <3>1, <3>2, OneCallStep DEF DavInv, DialogOK
  <2> QED
    BY <1>8, <2>5, <2>6, DavShares DEF Dav!TemplateAnswers
<1>9. CASE Dav!DavEnsureAnswers
  <2>1. EnsureAnswers /\ UNCHANGED <<login, uris, ignoreSsl, progress, template>>
    BY <1>9, DavShares DEF Dav!DavEnsureAnswers, Dav!davVars
  <2>2. /\ op' = None /\ provider' = provider /\ kind' = kind /\ tries' = tries
        /\ accepted' = accepted /\ saved' = saved /\ dialog' \in Dialogs /\ OneCall'
    BY <1>0, <2>1, EnsureAnswersAre
  <2>3. Dav!DavSavedWasAccepted'
    BY <1>0, <2>1, <2>2 DEF Dav!DavSavedWasAccepted
  <2> QED
    BY <2>1, <2>2, <2>3, <1>n DEF Waiting
<1>10. CASE Dav!Close /\ UNCHANGED Dav!davVars
  <2>1. Close /\ UNCHANGED <<login, uris, ignoreSsl, progress, template>>
    BY <1>10, DavShares DEF Dav!davVars
  <2>2. /\ dialog' \in Dialogs /\ ~dialog'.open
        /\ UNCHANGED <<provider, kind, op, accepted, saved, edits, tries>>
    BY <2>1, CloseIs
  <2>3. Dav!DavSavedWasAccepted'
    BY <1>0, <2>1, <2>2 DEF Dav!DavSavedWasAccepted
  <2> QED
    BY <2>1, <2>2, <2>3, <1>n, OneCallStep DEF Waiting
<1> QED
  BY <1>1, <1>2, <1>3, <1>4, <1>5, <1>6, <1>7, <1>8, <1>9, <1>10 DEF Dav!DavNext, Dav!DavAnswers

-----------------------------------------------------------------------------
(* All of it. *)

Inv ==
    /\ DialogOK
    /\ MailInv /\ ExchangeInv /\ DavInv /\ NextcloudInv /\ BrowserInv
    /\ LoginInv /\ DiscoveryInv

LEMMA DialogStarts ==
    ASSUME NEW state \in DialogStates, DialogInit(state)
    PROVE  DialogOK /\ op = None /\ saved = None /\ accepted = {} /\ tries = 0 /\ OneCall /\ ~Waiting
<1>1. dialog = [state |-> state, open |-> TRUE, answers |-> <<>>] /\ <<>> \in Seq(Answered)
  BY EmptySeq DEF DialogInit
<1>2. op = None /\ saved = None /\ accepted = {} /\ tries = 0
  BY DEF DialogInit
<1> QED
  BY <1>1, <1>2 DEF DialogOK, Dialogs, OneCall, Waiting

\* The dialog of any provider starts without anything under way.
LEMMA InitInv == Init => Inv
<1> SUFFICES ASSUME Init
             PROVE  Inv
  OBVIOUS
<1> DEFINE Fresh == DialogOK /\ op = None /\ saved = None /\ accepted = {} /\ tries = 0
                    /\ OneCall /\ ~Waiting
<1>d. /\ \A s \in DialogStates : DialogInit(s) => Fresh
      /\ \A s : /\ Mail!DialogInit(s) <=> DialogInit(s)
                /\ Exchange!DialogInit(s) <=> DialogInit(s)
                /\ Dav!DialogInit(s) <=> DialogInit(s)
                /\ Nextcloud!DialogInit(s) <=> DialogInit(s)
                /\ Browser!DialogInit(s) <=> DialogInit(s)
  <2>1. \A s \in DialogStates : DialogInit(s) => Fresh
    BY DialogStarts
  <2> QED
    BY <2>1 DEF DialogInit, Mail!DialogInit, Exchange!DialogInit, Dav!DialogInit,
                Nextcloud!DialogInit, Browser!DialogInit
<1>f. /\ DialogInit(IDLE) => Fresh
      /\ DialogInit(READY) => Fresh
  <2>1. IDLE \in DialogStates /\ READY \in DialogStates
    BY DEF DialogStates
  <2>2. \A s \in DialogStates : DialogInit(s) => Fresh
    BY <1>d
  <2> HIDE DEF Fresh
  <2> QED
    BY <2>1, <2>2
<1>n. /\ Login!LoginOff => LoginInv
      /\ Login!LoginInit => LoginInv
      /\ Discovery!DiscoveryOff => DiscoveryInv
      /\ Discovery!DiscoveryInit => DiscoveryInv
  BY LoginStarts, DiscoveryStarts DEF LoginInv, LoginOff, DiscoveryOff
<1>s. LoginInv /\ DiscoveryInv
  BY <1>n DEF Init, NoServer, LoginOff, DiscoveryOff
<1>1. CASE Mail!MailInit
  <2>1. provider = "mail" /\ Fresh
    BY <1>1, <1>d, <1>f DEF Mail!MailInit, Mail!IDLE, IDLE
  <2>2. discovery = None /\ DOMAIN ssl = {"imap", "smtp"}
    BY <1>1 DEF Mail!MailInit, Mail!MailOff
  <2>3. MailCalls /\ Mail!MailSavedWasAccepted
    BY <2>1 DEF MailCalls, WaitsFor, Mail!MailSavedWasAccepted
  <2> QED
    BY <1>s, <2>1, <2>2, <2>3 DEF Inv, MailInv, ExchangeInv, DavInv, NextcloudInv, BrowserInv
<1>2. CASE Exchange!ExchangeInit
  <2>1. provider = "exchange" /\ Fresh
    BY <1>2, <1>d, <1>f DEF Exchange!ExchangeInit, Exchange!IDLE, IDLE
  <2>2. ExchangeCalls /\ Exchange!ExchangeSavedWasAccepted
    BY <2>1 DEF ExchangeCalls, WaitsFor, Exchange!ExchangeSavedWasAccepted
  <2> QED
    BY <1>s, <2>1, <2>2 DEF Inv, MailInv, ExchangeInv, DavInv, NextcloudInv, BrowserInv
<1>3. CASE Dav!DavInit
  <2>1. provider = "dav" /\ Fresh /\ kind \in {"add", "refresh"}
    BY <1>3, <1>d, <1>f DEF Dav!DavInit, Dav!IDLE, IDLE
  <2>2. progress = [stage |-> 0, found |-> Dav!Nothing, check |-> None]
    BY <1>3 DEF Dav!DavInit
  <2>3. ProgressOK
    BY <2>2 DEF ProgressOK, Stages, Dav!Nothing
  <2>4. \A where : ~WaitsFor(where)
    BY <2>1 DEF WaitsFor
  <2>5. FirstSignIn /\ DavRefreshes /\ Dav!DavSavedWasAccepted
    BY <2>1, <2>4 DEF FirstSignIn, DavRefreshes, Dav!DavSavedWasAccepted
  <2>6. DavAdds
    BY <2>1, <2>2, <2>3, <2>4, <2>5 DEF DavAdds
  <2> QED
    BY <1>s, <2>1, <2>4, <2>5, <2>6 DEF Inv, MailInv, ExchangeInv, DavInv, NextcloudInv, BrowserInv
<1>4. CASE Nextcloud!NextcloudInit
  <2>1. provider = "nextcloud" /\ Fresh /\ Nextcloud!DialogInit(IDLE)
    BY <1>4, <1>d, <1>f DEF Nextcloud!NextcloudInit, Nextcloud!IDLE, IDLE
  <2>2. query = None
    BY <1>4 DEF Nextcloud!NextcloudInit, Nextcloud!NextcloudOff
  <2>3. dialog.open /\ dialog.state \notin {READY, BUSY, ERROR}
    BY <2>1 DEF Nextcloud!DialogInit, IDLE, READY, BUSY, ERROR
  <2>4. NextcloudCalls /\ Nextcloud!NextcloudSavedWasAccepted
    BY <2>1, <2>3 DEF NextcloudCalls, WaitsFor, Nextcloud!NextcloudSavedWasAccepted,
                      Nextcloud!READY, READY, Nextcloud!BUSY, BUSY
  <2> QED
    BY <1>s, <2>1, <2>2, <2>3, <2>4 DEF Inv, MailInv, ExchangeInv, DavInv, NextcloudInv, BrowserInv
<1>5. CASE Browser!BrowserInit
  <2>1. provider = "oauth2" /\ Fresh
    BY <1>5, <1>d, <1>f DEF Browser!BrowserInit, Browser!READY, READY
  <2>2. name = "none"
    BY <1>5 DEF Browser!BrowserInit, Browser!BrowserOff
  <2>3. BrowserCalls /\ Browser!BrowserSavedWasAccepted /\ Browser!NameReleased
    BY <2>1, <2>2 DEF BrowserCalls, WaitsFor, Browser!BrowserSavedWasAccepted, Browser!NameReleased
  <2> QED
    BY <1>s, <2>1, <2>2, <2>3 DEF Inv, MailInv, ExchangeInv, DavInv, NextcloudInv, BrowserInv
<1>6. CASE provider = "server" /\ DialogInit(IDLE)
  <2>1. Fresh
    BY <1>6, <1>f
  <2> QED
    BY <1>s, <1>6, <2>1 DEF Inv, MailInv, ExchangeInv, DavInv, NextcloudInv, BrowserInv
<1> QED
  BY <1>1, <1>2, <1>3, <1>4, <1>5, <1>6 DEF Init

\* Steps that leave the dialog and the variables of its provider alone.
LEMMA MailKept == MailInv /\ UNCHANGED <<dialogVars, mail>> => MailInv'
<1> SUFFICES ASSUME MailInv, UNCHANGED <<dialogVars, mail>>
             PROVE  MailInv'
  OBVIOUS
<1>1. UNCHANGED <<provider, kind, dialog, op, accepted, saved, form, ssl, discovery, useAuth>>
  BY DEF dialogVars, mail
<1>2. Mail!Imap(TRUE)' = Mail!Imap(TRUE) /\ Mail!Smtp' = Mail!Smtp
  BY <1>1 DEF Mail!Imap, Mail!Smtp
<1>3. (OneCall' <=> OneCall) /\ (MailCalls' <=> MailCalls)
  BY <1>1, <1>2 DEF OneCall, MailCalls, WaitsFor, Waiting
<1>4. Mail!MailSavedWasAccepted' <=> Mail!MailSavedWasAccepted
  BY <1>1 DEF Mail!MailSavedWasAccepted
<1> QED
  BY <1>1, <1>3, <1>4 DEF MailInv

LEMMA ExchangeKept == ExchangeInv /\ UNCHANGED <<dialogVars, exchange>> => ExchangeInv'
<1> SUFFICES ASSUME ExchangeInv, UNCHANGED <<dialogVars, exchange>>
             PROVE  ExchangeInv'
  OBVIOUS
<1>1. UNCHANGED <<provider, kind, dialog, op, accepted, saved, entered, ignoring, requests, failure>>
  BY DEF dialogVars, exchange
<1>2. /\ Exchange!Entered' = Exchange!Entered /\ Exchange!Sent' = Exchange!Sent
      /\ Exchange!Pending' = Exchange!Pending
  BY <1>1 DEF Exchange!Entered, Exchange!Sent, Exchange!Pending
<1>3. (OneCall' <=> OneCall) /\ (ExchangeCalls' <=> ExchangeCalls)
  BY <1>1, <1>2 DEF OneCall, ExchangeCalls, WaitsFor, Waiting
<1>4. Exchange!ExchangeSavedWasAccepted' <=> Exchange!ExchangeSavedWasAccepted
  BY <1>1 DEF Exchange!ExchangeSavedWasAccepted
<1> QED
  BY <1>1, <1>3, <1>4 DEF ExchangeInv

LEMMA DavKept == DavInv /\ UNCHANGED <<dialogVars, dav>> => DavInv'
<1> SUFFICES ASSUME DavInv, UNCHANGED <<dialogVars, dav>>
             PROVE  DavInv'
  OBVIOUS
<1>1. UNCHANGED <<provider, kind, dialog, op, accepted, saved, tries,
                  login, uris, ignoreSsl, progress, template>>
  BY DEF dialogVars, dav
<1>2. /\ OneCall' <=> OneCall
      /\ DavRefreshes' <=> DavRefreshes
      /\ \A where : WaitsFor(where)' <=> WaitsFor(where)
  BY <1>1 DEF OneCall, DavRefreshes, WaitsFor, Waiting
<1>3. /\ Given' <=> Given
      /\ \A f : WasAccepted(f)' <=> WasAccepted(f)
      /\ \A s, u : Dav!Check(s, u)' = Dav!Check(s, u) /\ Dav!Discover(u)' = Dav!Discover(u)
  BY <1>1 DEF Given, WasAccepted, Dav!Check, Dav!Discover
<1>4. WasAccepted(progress.found)' <=> WasAccepted(progress.found)
  BY <1>1 DEF WasAccepted
<1>5. AtStage' <=> AtStage
  BY <1>1, <1>2 DEF AtStage, Dav!Check, Dav!Discover
<1>6. FirstSignIn' <=> FirstSignIn
  BY <1>2, <1>4, <1>5 DEF FirstSignIn
<1>7. WasAccepted(op.account.uris)' <=> WasAccepted(op.account.uris)
  BY <1>1 DEF WasAccepted
<1>8. DavAdds' <=> DavAdds
  BY <1>1, <1>2, <1>3, <1>6, <1>7 DEF DavAdds, ProgressOK, Waiting
<1>9. Dav!DavSavedWasAccepted' <=> Dav!DavSavedWasAccepted
  BY <1>1 DEF Dav!DavSavedWasAccepted
<1> QED
  BY <1>1, <1>2, <1>8, <1>9 DEF DavInv

LEMMA NextcloudKept == NextcloudInv /\ UNCHANGED <<dialogVars, nextcloud>> => NextcloudInv'
<1> SUFFICES ASSUME NextcloudInv, UNCHANGED <<dialogVars, nextcloud>>
             PROVE  NextcloudInv'
  OBVIOUS
<1>1. UNCHANGED <<provider, kind, dialog, op, accepted, saved, address, timer, query, loginInfo, identity>>
  BY DEF dialogVars, nextcloud
<1>2. (OneCall' <=> OneCall) /\ (NextcloudCalls' <=> NextcloudCalls)
  BY <1>1 DEF OneCall, NextcloudCalls, WaitsFor, Waiting
<1>3. Nextcloud!NextcloudSavedWasAccepted' <=> Nextcloud!NextcloudSavedWasAccepted
  BY <1>1 DEF Nextcloud!NextcloudSavedWasAccepted
<1> QED
  BY <1>1, <1>2, <1>3 DEF NextcloudInv

LEMMA BrowserKept == BrowserInv /\ UNCHANGED <<dialogVars, browser>> => BrowserInv'
<1> SUFFICES ASSUME BrowserInv, UNCHANGED <<dialogVars, browser>>
             PROVE  BrowserInv'
  OBVIOUS
<1>1. UNCHANGED <<provider, kind, dialog, op, accepted, saved, expected, name, result>>
  BY DEF dialogVars, browser
<1>2. (OneCall' <=> OneCall) /\ (BrowserCalls' <=> BrowserCalls)
  BY <1>1 DEF OneCall, BrowserCalls, WaitsFor, Waiting
<1>3. /\ Browser!BrowserSavedWasAccepted' <=> Browser!BrowserSavedWasAccepted
      /\ Browser!NameReleased' <=> Browser!NameReleased
  BY <1>1 DEF Browser!BrowserSavedWasAccepted, Browser!NameReleased
<1> QED
  BY <1>1, <1>2, <1>3 DEF BrowserInv

LEMMA InvStep == Inv /\ [Next]_vars => Inv'
<1> SUFFICES ASSUME Inv, [Next]_vars
             PROVE  Inv'
  OBVIOUS
<1>0. DialogOK /\ MailInv /\ ExchangeInv /\ DavInv /\ NextcloudInv /\ BrowserInv /\ LoginInv /\ DiscoveryInv
  BY DEF Inv
<1>c. UNCHANGED logins /\ UNCHANGED discoveries => LoginInv' /\ DiscoveryInv'
  BY <1>0, LoginInvStep, DiscoveryInvStep
<1>1. CASE Mail!MailNext /\ OnlyMail
  <2>1. provider = "mail" /\ UNCHANGED logins /\ UNCHANGED discoveries
    BY <1>1 DEF Mail!MailNext, OnlyMail
  <2>2. DialogOK' /\ MailInv' /\ provider' = provider
    BY <1>0, <1>1, MailStep
  <2> QED
    BY <1>c, <2>1, <2>2 DEF Inv, ExchangeInv, DavInv, NextcloudInv, BrowserInv
<1>2. CASE Exchange!ExchangeNext /\ OnlyExchange
  <2>1. provider = "exchange" /\ UNCHANGED logins /\ UNCHANGED discoveries
    BY <1>2 DEF Exchange!ExchangeNext, OnlyExchange
  <2>2. DialogOK' /\ ExchangeInv' /\ provider' = provider
    BY <1>0, <1>2, ExchangeStep, ExchangeDialog
  <2> QED
    BY <1>c, <2>1, <2>2 DEF Inv, MailInv, DavInv, NextcloudInv, BrowserInv
<1>3. CASE Dav!DavNext /\ OnlyDav
  <2>1. provider = "dav" /\ UNCHANGED logins /\ UNCHANGED discoveries
    BY <1>3 DEF Dav!DavNext, Dav!DavAnswers, OnlyDav
  <2>2. DialogOK' /\ DavInv' /\ provider' = provider
    BY <1>0, <1>3, DavStep
  <2> QED
    BY <1>c, <2>1, <2>2 DEF Inv, MailInv, ExchangeInv, NextcloudInv, BrowserInv
<1>4. CASE Nextcloud!NextcloudNext /\ OnlyNextcloud
  <2>1. provider = "nextcloud" /\ UNCHANGED logins /\ UNCHANGED discoveries
    BY <1>4 DEF Nextcloud!NextcloudNext, Nextcloud!NextcloudAnswers, OnlyNextcloud
  <2>2. DialogOK' /\ NextcloudInv' /\ provider' = provider
    BY <1>0, <1>4, NextcloudStep
  <2> QED
    BY <1>c, <2>1, <2>2 DEF Inv, MailInv, ExchangeInv, DavInv, BrowserInv
<1>5. CASE Browser!BrowserNext /\ OnlyBrowser
  <2>1. provider = "oauth2" /\ UNCHANGED logins /\ UNCHANGED discoveries
    BY <1>5 DEF Browser!BrowserNext, Browser!BrowserAnswers, OnlyBrowser
  <2>2. DialogOK' /\ BrowserInv' /\ provider' = provider
    BY <1>0, <1>5, BrowserStep
  <2> QED
    BY <1>c, <2>1, <2>2 DEF Inv, MailInv, ExchangeInv, DavInv, NextcloudInv
<1>6. ASSUME NoDialog
      PROVE  DialogOK' /\ MailInv' /\ ExchangeInv' /\ DavInv' /\ NextcloudInv' /\ BrowserInv'
  <2>1. /\ UNCHANGED <<dialogVars, mail>> /\ UNCHANGED <<dialogVars, exchange>>
        /\ UNCHANGED <<dialogVars, dav>> /\ UNCHANGED <<dialogVars, nextcloud>>
        /\ UNCHANGED <<dialogVars, browser>>
    BY <1>6 DEF NoDialog
  <2>2. DialogOK'
    BY <1>0, <2>1 DEF DialogOK, dialogVars
  <2> QED
    BY <1>0, <2>1, <2>2, MailKept, ExchangeKept, DavKept, NextcloudKept, BrowserKept
<1>7. CASE Login!LoginNext /\ NoDialog /\ UNCHANGED discoveries
  BY <1>0, <1>6, <1>7, LoginInvStep, DiscoveryInvStep DEF Inv
<1>8. CASE Discovery!DiscoveryNext /\ NoDialog /\ UNCHANGED logins
  BY <1>0, <1>6, <1>8, LoginInvStep, DiscoveryInvStep DEF Inv
<1>9. CASE UNCHANGED vars
  <2>1. NoDialog /\ UNCHANGED logins /\ UNCHANGED discoveries
    BY <1>9 DEF vars, NoDialog
  <2> QED
    BY <1>6, <1>c, <2>1 DEF Inv
<1> QED
  BY <1>1, <1>2, <1>3, <1>4, <1>5, <1>7, <1>8, <1>9 DEF Next

LEMMA InvHolds == Spec => []Inv
  BY InitInv, InvStep, PTL DEF Spec

\* Whatever was typed, answered late or tried again, an account that a dialog
\* stores is the one that its servers accepted (add_account_action_cb and
\* refresh_account_action_cb of the providers, and the callbacks they start).
THEOREM SavedIsAccepted == Spec => []SavedWasAccepted
<1>1. Inv => SavedWasAccepted
  <2> SUFFICES ASSUME Inv
               PROVE  SavedWasAccepted
    OBVIOUS
  <2>1. Mail!MailSavedWasAccepted
    BY DEF Inv, MailInv, Mail!MailSavedWasAccepted
  <2>2. Exchange!ExchangeSavedWasAccepted
    BY DEF Inv, ExchangeInv, Exchange!ExchangeSavedWasAccepted
  <2>3. Dav!DavSavedWasAccepted
    BY DEF Inv, DavInv, Dav!DavSavedWasAccepted
  <2>4. Nextcloud!NextcloudSavedWasAccepted
    BY DEF Inv, NextcloudInv, Nextcloud!NextcloudSavedWasAccepted
  <2>5. Browser!BrowserSavedWasAccepted
    BY DEF Inv, BrowserInv, Browser!BrowserSavedWasAccepted
  <2> QED
    BY <2>1, <2>2, <2>3, <2>4, <2>5 DEF SavedWasAccepted
<1> QED
  BY <1>1, InvHolds, PTL

\* What the check of a mail server (GoaMailClient) and the discovery of a WebDAV
\* server (GoaDavClient) report is what the servers said, and the password went
\* only where, and as, the account says.
THEOREM OutcomesAreTrue == Spec => []OutcomeIsTrue
<1>1. LoginOff => Login!SentAsConfigured /\ Login!LoginOutcome
  BY NoneAssumption DEF LoginOff, Login!LoginOff, Login!SentAsConfigured, Login!LoginOutcome
<1>2. Inv => OutcomeIsTrue
  BY <1>1 DEF Inv, LoginInv, LoginRuns, DiscoveryInv, OutcomeIsTrue
<1> QED
  BY <1>2, InvHolds, PTL

\* What a dialog has started ends with it: the discovery that would write into
\* its entries, the timer and the query for an address, and the name on the
\* session bus that the next sign-in needs (add_account_data_free,
\* authorize_uri_task_complete).
THEOREM NothingIsLeftBehind == Spec => []NothingLeftBehind
<1>1. Inv => NothingLeftBehind
  <2> SUFFICES ASSUME Inv
               PROVE  NothingLeftBehind
    OBVIOUS
  <2>1. provider = "mail" /\ (~dialog.open \/ dialog.state \in {READY, BUSY}) => discovery = None
    BY DEF Inv, MailInv
  <2>2. provider = "nextcloud" /\ ~dialog.open => ~timer /\ query = None
    BY DEF Inv, NextcloudInv
  <2>3. Browser!NameReleased
    BY DEF Inv, BrowserInv, Browser!NameReleased
  <2> QED
    BY <2>1, <2>2, <2>3 DEF NothingLeftBehind
<1> QED
  BY <1>1, InvHolds, PTL
=============================================================================
