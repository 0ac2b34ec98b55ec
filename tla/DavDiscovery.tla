---------------------------- MODULE DavDiscovery ----------------------------
(***************************************************************************)
(* GoaDavClient: the check of one address for an account or a dialog, and  *)
(* the discovery of the services of a server, which asks the name service, *)
(* then the server at one candidate after the other.                       *)
(*                                                                         *)
(* A candidate is a service and the place where it may be; a place is      *)
(* "srv" (where the name service said), "host" (a provider that is known), *)
(* "uri" (the address entered) or "nextcloud" (a path below it).           *)
(***************************************************************************)
EXTENDS Sequences, Naturals

CONSTANTS
    LookupNames,    \* the services the name service is asked for
    ServiceOf,      \* the service that each stands for
    None

VARIABLES
    task,           \* "account", "check" or "discover"
    accept,         \* accept_ssl_errors
    step,           \* "keyring", "lookup", "request" or "over"
    lookups,        \* per name: "domain", "base", "text" or "over"
    candidates,     \* the queue
    candidate,      \* the one being asked
    wellKnown,      \* ... under its well-known address
    uriFallback,    \* the address itself has been tried
    authError,      \* some request was refused
    services,       \* what was found
    outcome,        \* None, "ok" or the code of the error
    offered,        \* history: what servers said they have
    heard           \* history: the last answer, and whether one was "refused"

discoveryVars == <<task, accept, step, lookups, candidates, candidate, wellKnown,
                   uriFallback, authError, services, outcome, offered, heard>>

FILES == "files"
CALENDAR == "calendar"
CONTACTS == "contacts"
Services == {FILES, CALENDAR, CONTACTS}
At(service, place) == [service |-> service, place |-> place]

Fresh ==
    /\ lookups = [n \in LookupNames |-> "domain"]
    /\ wellKnown = FALSE /\ uriFallback = FALSE /\ authError = FALSE
    /\ services = {} /\ outcome = None /\ offered = {} /\ heard = {}

DiscoveryOff ==
    /\ task = None /\ accept = FALSE /\ step = "over"
    /\ candidates = <<>> /\ candidate = None /\ Fresh

\* dav_client_discover_preconfig: one of the providers that need no lookup has
\* no contacts.
Known == {<<At(CALENDAR, "host"), At(CONTACTS, "host"), At(FILES, "host")>>,
          <<At(CALENDAR, "host"), At(FILES, "host")>>}

\* goa_dav_client_check for a dialog, goa_dav_client_check_sync for an account,
\* goa_dav_client_discover.
DiscoveryInit ==
    /\ accept \in BOOLEAN
    /\ Fresh
    /\ \/ /\ task \in {"account", "check"}
          /\ step = IF task = "account" THEN "keyring" ELSE "request"
          /\ candidates = <<>> /\ candidate \in {At(s, "uri") : s \in Services}
       \/ /\ task = "discover" /\ step = "lookup"
          /\ candidates = <<>> /\ candidate = None
       \/ /\ task = "discover" /\ step = "request"
          /\ \E k \in Known : candidates = Tail(k) /\ candidate = Head(k)

Return(code) == step' = "over" /\ outcome' = code

\* ensure_credentials_sync of the WebDAV provider.
Keyring ==
    /\ step = "keyring"
    /\ \/ step' = "request" /\ UNCHANGED outcome
       \/ Return("not authorized")
    /\ UNCHANGED <<task, accept, lookups, candidates, candidate, wellKnown,
                   uriFallback, authError, services, offered, heard>>

-----------------------------------------------------------------------------
(* The answers to a request: the connection fails, or its certificate is   *)
(* refused, there is nothing at the address or OPTIONS is not known there, *)
(* the password is refused, something else is wrong, or the server names   *)
(* what it supports, which may be nothing, and may be one of two whose     *)
(* paths are known.                                                        *)

Says(what) == [what |-> what, features |-> {}]
Supports(what, f) == [what |-> what, features |-> f]

Replies ==
    {Says(w) : w \in {"error", "missing", "refused", "odd", "no dav"}}
    \cup {Supports("dav", f) : f \in SUBSET Services \ {{}}}
    \cup {Supports("nextcloud", Services), Supports("sogo", {CALENDAR, CONTACTS})}
    \cup (IF accept THEN {} ELSE {Says("ssl")})

\* What a reply that names the candidate's service, or one of the two servers
\* whose paths are known, offers.
Offers(r) ==
    CASE r.what = "dav" -> {candidate} \cap {At(s, candidate.place) : s \in r.features}
      [] r.what \in {"nextcloud", "sogo"} -> {At(s, r.what) : s \in r.features}
      [] OTHER -> {}

Hear(r) ==
    /\ heard' = (heard \cap {"refused"}) \cup {r.what}
    /\ offered' = offered \cup Offers(r)

\* dav_client_check_options_cb.  The label that answers for an address that is
\* not there go to wants the name of the service, which is not set yet: no other
\* address is tried, and no error is returned.  What the server supports is
\* logged.
CheckCode(r) ==
    CASE r.what \in {"dav", "nextcloud", "sogo", "missing"} -> "ok"
      [] r.what = "no dav" -> "not supported"
      [] r.what = "refused" -> "not authorized"
      [] r.what = "ssl" -> "ssl"
      [] OTHER -> "failed"

CheckAnswers ==
    /\ step = "request" /\ task \in {"account", "check"}
    /\ \E r \in Replies : Hear(r) /\ Return(CheckCode(r))
    /\ UNCHANGED <<task, accept, lookups, candidates, candidate, wellKnown,
                   uriFallback, authError, services>>

-----------------------------------------------------------------------------
(* Discovery. *)

\* dav_client_discover_iterate, for the queue and the services as they are now.
\* Nothing found at other places, the address itself is tried.
Iterate(queue, found, refused) ==
    LET own == <<At(CALENDAR, "uri"), At(CONTACTS, "uri"), At(FILES, "uri"), At(FILES, "nextcloud")>>
        todo == IF queue = <<>> /\ found = {} /\ ~uriFallback THEN own ELSE queue
    IN /\ services' = found /\ authError' = refused /\ wellKnown' = FALSE
       /\ uriFallback' = (uriFallback \/ (queue = <<>> /\ found = {}))
       /\ IF todo # <<>>
          THEN /\ candidate' = Head(todo) /\ candidates' = Tail(todo)
               /\ step' = "request" /\ UNCHANGED outcome
          ELSE /\ candidate' = None /\ candidates' = <<>>
               /\ Return(IF found # {} THEN "ok"
                         ELSE IF refused THEN "not authorized" ELSE "not supported")

\* g_resolver_lookup_service_cb: without a record for the host, that of its base
\* domain is asked for, if it is another.
ServiceLookup(n) ==
    /\ \/ lookups[n] \in {"domain", "base"} /\ lookups' = [lookups EXCEPT ![n] = "text"]
       \/ lookups[n] = "domain" /\ lookups' = [lookups EXCEPT ![n] = "base"]
    /\ UNCHANGED <<step, candidates, candidate, wellKnown, uriFallback, authError, services, outcome>>

\* dav_client_discover_lookup_cb: the answer to the last lookup starts the
\* requests.
LookupEnds(n, queue) ==
    /\ lookups' = [lookups EXCEPT ![n] = "over"]
    /\ IF \A m \in LookupNames : lookups'[m] = "over"
       THEN Iterate(queue, services, authError)
       ELSE /\ candidates' = queue
            /\ UNCHANGED <<step, candidate, wellKnown, uriFallback, authError, services, outcome>>

\* g_resolver_lookup_records_cb: the path the text record has is not found in
\* it, and the well-known one is taken.
LookupAnswers ==
    /\ step = "lookup"
    /\ \E n \in LookupNames :
          \/ ServiceLookup(n)
          \/ lookups[n] \in {"domain", "base"} /\ LookupEnds(n, candidates)
          \/ lookups[n] = "text" /\ LookupEnds(n, Append(candidates, At(ServiceOf[n], "srv")))
    /\ UNCHANGED <<task, accept, offered, heard>>

\* The well-known address of a candidate, where it has not been asked: there is
\* none for files, and those of the name service are well-known already.
OtherAddress == ~wellKnown /\ candidate.service # FILES /\ candidate.place # "srv"

AskWellKnown ==
    /\ wellKnown' = TRUE
    /\ UNCHANGED <<step, candidates, candidate, uriFallback, authError, services, outcome>>

\* dav_client_discover_options_cb.  A service that answers at its well-known
\* address is stored with the address of the candidate all the same.
DiscoverAnswers ==
    /\ step = "request" /\ task = "discover"
    /\ \E r \in Replies :
          /\ Hear(r)
          /\ \/ /\ r.what = "ssl" /\ Return("ssl")
                /\ UNCHANGED <<candidates, candidate, wellKnown, uriFallback, authError, services>>
             \/ /\ r.what \in {"error", "odd", "no dav"}
                /\ Iterate(candidates, services, authError)
             \/ r.what = "refused" /\ Iterate(candidates, services, TRUE)
             \/ /\ r.what \in {"nextcloud", "sogo"}
                /\ Iterate(<<>>, services \cup {At(s, r.what) : s \in r.features}, authError)
             \/ /\ r.what = "dav" /\ candidate.service \in r.features
                /\ Iterate(candidates, services \cup {candidate}, authError)
             \/ /\ r.what = "missing" \/ (r.what = "dav" /\ candidate.service \notin r.features)
                /\ IF OtherAddress THEN AskWellKnown ELSE Iterate(candidates, services, authError)
    /\ UNCHANGED <<task, accept, lookups>>

DiscoveryNext == Keyring \/ CheckAnswers \/ LookupAnswers \/ DiscoverAnswers

-----------------------------------------------------------------------------

\* A discovery finds what servers offered and all of it; that the password was
\* refused or that there is no service is said when nothing was offered anywhere,
\* and a certificate is the reason when it was refused.  A check that succeeds
\* was answered by a server that knows WebDAV, or by one that has nothing at the
\* address.
DiscoveryOutcome ==
    /\ task = "discover" /\ outcome = "ok" => services = offered /\ services # {}
    /\ task = "discover" /\ outcome \in {"not authorized", "not supported"} =>
          /\ offered = {} /\ uriFallback
          /\ outcome = "not authorized" <=> "refused" \in heard
    /\ outcome = "ssl" => ~accept /\ "ssl" \in heard
    /\ task \in {"account", "check"} /\ outcome = "ok" =>
          heard \cap {"dav", "nextcloud", "sogo", "missing"} # {}
    /\ task = "check" /\ outcome = "not authorized" => "refused" \in heard
=============================================================================
