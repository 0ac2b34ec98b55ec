# A TLA+ model of GNOME Online Accounts

GNOME Online Accounts keeps the online accounts of a desktop session. A daemon,
`goa-daemon`, owns the list of accounts, puts one D-Bus object per account on
the session bus, keeps credentials in the keyring and checks them; Settings
adds, signs in and removes accounts; applications ask for credentials; and
`goa-identity-service` turns Kerberos tickets into accounts. This directory
holds TLA+ modules for the three processes, TLC configurations that check them on
small instances, and proofs for TLAPS.

Run `tlc -config <name>.cfg <module>` for a model, `tlapm <module>.tla` for the
proofs. `PROJECT.json` lists the runs, the mutants that show each property can
fail, the lines of the source each definition stands for, the findings, the
hazards and the theorems.

## 1. The system

| part | source (under `src/src/`) | state | operations |
|---|---|---|---|
| account store and reload | `daemon/goadaemon.c` 184-330, 362-1084 | `accounts.conf`, template file, exported objects, reload timer | reload, file monitors, template enforcement, stale temporary accounts |
| account handlers | `daemon/goadaemon.c` 1088-1517; `goabackend/goautils.c`, `goakerberosprovider.c` | the same, keyring | AddAccount, Remove, property writes |
| credentials queue | `daemon/goadaemon.c` 1707-2063; `goabackend/goaprovider.c` 879-1010 | queue of tasks, running flag, one worker, a timer per check | EnsureCredentials, check of all accounts, coalesce, sort, collect, cancel |
| attention notification | `daemon/goadaemon.c` 1531-1703 | array of accounts, a flag, the notification id | update, send, withdraw, signals |
| daemon process | `daemon/main.c` | main loop, bus name | start, quit, name lost |
| OAuth2 tokens | `goabackend/goaoauth2provider.c` | lock per object, token in the keyring, a name on the bus | GetAccessToken, refresh, store, sign-in in a browser |
| keyring helpers | `goabackend/goautils.c` | keyring entries with a generation | store, look up, delete |
| service configuration | `goaserviceconfig.c`, `goadavconfig.c`, `goamailconfig.c` | detected, configured, default services | precedence |
| mail authentication | `goamailauth.c`, `goaimapauthlogin.c`, `goasmtpauth.c`, `goamailclient.c` | a dialogue with a server | greet, STARTTLS, authenticate |
| DAV and Exchange clients | `goadavclient.c`, `goaewsclient.c` and their providers | requests in flight, what was discovered | discovery, redirects, autodiscover race |
| provider dialogs | `goaproviderdialog.c` and `add_account`, `refresh_account` of each provider | entries, state of the dialog, one task, requests under way | edit, discover, sign in, store, close |
| Kerberos provider | `goakerberosprovider.c` | proxy of the identity service | GetTicket, sign in |
| identity manager | `goaidentity/goakerberosidentitymanager.c` | identities, operation pool of one thread, pending refresh counter | refresh, sign in, sign out, renew |
| identity and alarms | `goakerberosidentity.c`, `goaalarm.c` | times, verification level, three alarms | update, fire, rearm |
| identity service | `goaidentityservice.c` | identities on the bus, pending sign-ins | SignIn, SignOut, ExchangeSecretKeys |
| client library | `goa/goaclient.c` | a copy of the bus objects | added, changed, removed |

How they interact: everything in the daemon runs on one main loop, except that
providers' synchronous calls run in worker threads and GetAccessToken in a
thread per call. Handlers talk to each other through the queue, the file
`accounts.conf` (the daemon writes the file and hears of it through its own file
monitor), the keyring and the exported objects. The notification server, the
keyring, the online services and Settings are other processes, reached by
messages. The identity service is a process of its own that shares the Kerberos
credential caches with every other program of the session.

What is hard: tasks that are merged and sorted while one of them runs; objects
that are replaced by others of the same id; replies that arrive after the state
they belong to has changed; a file that three parties write; two writes that
belong together and a process that may die between them; a template that takes
two reloads to come into force; a token that is spent at the service before its
successor is in the keyring; refreshes that are requested from everywhere and
skipped on a counter; a thread that waits for the main loop, which waits for the
user; alarms that go off while they are replaced; and dialogs in which the user
types on while servers answer. The hazards are listed line by line in
`PROJECT.json`.

What makes each part correct, in a sentence: the queue answers every call once,
with what the service said after it was made; the notification is there while an
account needs attention; the bus shows what the files describe; the keyring keeps
a token the service accepts; the identities on the bus are those that have a
credential cache, and the accounts follow them; no expired ticket passes for a
valid one; and an account that is stored is the one its servers accepted.

## 2. Modules

| module | models | builds on |
|---|---|---|
| `CheckService` | what callers of EnsureCredentials are promised (abstract) | |
| `EnsureCredentials` | the credentials queue and its worker thread | implements `CheckService` |
| `CredentialFreshness` | history variables: how old an answer may be | extends `EnsureCredentials` |
| `AttentionNotification` | the notification, its server and the user | |
| `AccountAttention` | handlers that touch queue and notification, Remove, exit | `EnsureCredentials`, `AttentionNotification` |
| `AccountsConfig` | files, keyring, session, bus; AddAccount, Remove, property writes, reload, a second instance | |
| `OAuth2Tokens` | refreshes of one account's token, Settings, Remove, the service | |
| `KerberosIdentityManager` | the pool thread, its queue, the table of identities | |
| `IdentityService` | the main loop of the identity service, calls, the prompt, accounts | extends `KerberosIdentityManager` |
| `IdentityLifetime` | one identity, its caches, its alarms, the clock | |
| `ProviderDialog` | the dialog and its task, what all setups share | |
| `MailSetup`, `DavSetup`, `NextcloudSetup`, `ExchangeSetup`, `BrowserSetup` | the dialogs of the IMAP/SMTP, WebDAV, Nextcloud, Exchange and OAuth2 providers | each extends `ProviderDialog` |
| `MailLogin` | the check of an IMAP and an SMTP server, command by command | |
| `DavDiscovery` | the check of a WebDAV address and the discovery of services | |
| `EnsureCredentialsProofs`, `CheckServiceProofs` | theorems about the queue; that it implements `CheckService`, and its order and freshness | the second extends the first and `CredentialFreshness` |
| `AttentionProofs` | theorems about `AccountAttention` and the notification in it | extends `EnsureCredentialsProofs` |
| `AccountsConfigProofs`, `OAuth2TokensProofs`, `IdentityServiceProofs`, `IdentityLifetimeProofs` | theorems about the module each is named after | |
| `SetupProofs` | theorems about all dialogs and the checks of servers | extends `MCSetup`, where they are put together |
| `MC*` | constants for TLC, and which instance a run takes | |

### EnsureCredentials

`queue` is `ensure_credentials_queue`, a sequence of tasks: the object the task
was made for, its priority, and the set of invocations it answers
(`ObjectInvocationData`). `running` is `ensure_credentials_running`, `check` the
`GTask` in the worker thread with its cancellable. A handler of the main loop is
one step; the worker is a step of its own (`ProviderReturns`) and its result is
collected later (`Collect`), so that calls, timers, reloads and changes of the
credentials fall in between. `QueueCheck` is
`ensure_credentials_queue_check`, which the model calls wherever the code does.
`Coalesce` compares ids, as the code does, while tasks hold objects: an
account removed and added again is a new object with the id of the old one.
`g_queue_sort` is stable and modelled as the set of stable orders; the order of
the object manager's hash table is any order.

Abstracted: `expires_in`; error codes, to the two classes the collector tells
apart; the account's interfaces. The fairness: the main loop dispatches its
timers and results (`CheckCredentials`, `Timeout`, `Collect`), and a provider's
call returns once its cancellable is cancelled. The last is an assumption on
providers. It does not hold where a call waits for something that is not
cancellable, as for the lock of an OAuth2 account that a GetAccessToken call
holds (`goaoauth2provider.c:1942`): `OAuth2Tokens` has that wait, and there
`EveryCallReturns` needs the service to answer calls as well.
Nothing is assumed of clients, of the network or of a provider that was not
cancelled.

### AttentionNotification, AccountAttention

`needing`, `needNotify` and `notificationId` are the daemon's
`accounts_needing_attention`, `accounts_need_notification` and
`notification_id`. Calls to the server and what comes back travel in two FIFO
channels, as D-Bus orders messages between two peers. Notify does not wait. The
server shows, replaces, refuses and closes; the user closes. `Quit` has the case
that something still holds a reference to the daemon, in which
`goa_daemon_finalize` does not run.

`AttentionNotification` lets the rest of the daemon call it in any order that
keeps one assumption: an account is flagged only while it is not in the array.
`AccountAttention` conjoins steps of the queue with the steps the same handler
makes on the notification, adds Remove, and discharges the assumption
(`NotificationBehaviour`). `raced` records that an update happened while a
Notify had no reply. The properties of the notification are claimed for
histories without such a race: with one, two notifications may be on the screen
or one may stay, which follows from the code's design and contradicts no
documentation.

### AccountsConfig

`home` maps each id to its group of `accounts.conf`: whether the Provider key
names a provider, IsTemporary, SessionId, IsLocked, and whether its keys equal
those of the template (which is what `goa_utils_keyfile_copy_group` compares).
`Reload(h, sec, s, due)` is `goa_daemon_reload_configuration` on file contents
`h`: discard and clear stale accounts (`ReadGroups`, `Cleared`), enforce the
template on accounts that exist (`Enforced`), write those that do not
(`WithTemplates`), and write the file if anything changed, which makes a
monitor's event due: that much is `Rewrite`; a reload also exports what was read
(`Exports`). Handlers that end with a reload (`AddAccount`, `RemoveCompletes`,
`Start`) contain it. `SecondInstance` is a goa-daemon that is started beside the
first: it rewrites the files before it learns that the name is taken, and exports
nothing that anybody sees. One that is started with `--replace` is `Killed` and
`Restart`.

A file can be readable (`ok`), unparseable (`broken`) or on a full disk
(`full`); the keyring can refuse; the process can be killed at rest or after the
first write of a handler. `Login` ends the session's daemon and starts one under
another bus GUID. The user and the administrator edit the files.

Left out, and said in the module: Account groups in the template file, templates
with IsLocked or IsTemporary keys, groups that are not named Account or
Template, ids that are no object path elements (the daemon skips those), the
features of accounts, and the id generator (AddAccount takes any id, used or
not).

### OAuth2Tokens

One account. A caller is a thread: a GetAccessToken call, which has no
cancellable, or the daemon's check, which has one. `call[c].pc` says where
`goa_oauth2_provider_get_access_token_sync` is: at the mutex, before the lookup
(which finds an access token with ten minutes of life left, or posts the refresh
token), at the service, or with its answer; the label `out`, which unlocks, is
`Return`. `keyring` is the entry, without the access token itself. `valid` is what
the service accepts; tokens are numbered as they are issued, and the service may
or may not replace a token when it grants a refresh. Settings' sign-in
(`OpenDialog`, `Exchange`, `SignInStores`) writes the same entry from a process of
its own, and once its dialog is open it never looks whether the account is still
there. `Unexport` and `Export` are what a reload does: the object that comes
back has a mutex of its own. Remove is three steps, as its handler and the reload
after it are: `Remove` saves the file; `RemoveClears` clears the entry while the
main loop waits, or the keyring refuses and the account goes without its
secrets (`RemoveRefused`); `Unexport` takes the object off the bus later, and
until then calls begin and dialogs open. `Kill` ends the daemon with its threads,
also between the save and the clearing.

Three history variables keep the properties honest. `overtaken` marks a request
during which somebody with another mutex, or none, wrote the keyring; `spoiled`
is set exactly where the code, the user or the service loses the last good token;
`leftover` is set when Remove clears the entry while a request is at the service
or a dialog is open, and when a dialog opens between that and the reload.

### KerberosIdentityManager, IdentityService

`KerberosIdentityManager` is `goa-identity-service`'s pool thread: `queue` is
what was pushed on the pool, `pending` is `pending_refresh_count`, `pool` the
operation it is at, `table` is `self->identities`. A refresh is many steps, one
per cache, per identity verified and per identity dropped, so that caches change
while it runs. What the thread tells the main loop goes through `inbox`; after a
signal it waits until the signal was handled (`Waiting`), as
`goa_kerberos_identify_manager_send_to_context` does, after a result it does not.
A sign-in may inquire, and then waits for the main loop and the user.

`IdentityService` extends it with the handlers: it exports identities, adds a
temporary account for whoever is signed in without one, asks the daemon to check
accounts, and serves SignIn and SignOut, the latter with a lookup first.
`temporary` is `pending_temporary_account_results`; `adding` holds the AddAccount
calls the daemon has not answered. A prompt may be lost: `on_system_prompt_open`
returns without completing the inquiry. A prompt that is cancelled cancels the
sign-in with it, which then ends as cancelled even where it found a live ticket:
the history variable `hidden` holds identities that came into the table this way,
which nobody is told of.

Abstracted: a principal has at most one cache and its ticket is live or dead (the
next module has more); the D-Bus name and the timeouts of calls; passwords.

### IdentityLifetime

One identity with several caches of its principal. `Best` is the choice
`verify_identity` makes among them, with its preference for the active cache and
the hash table's order where it has none. `times` are the recorded times; the
alarms for renewal, expiring and expiration are armed from them (`ResetAlarm`),
in three steps during which the main loop may fire them, since the thread
disconnects their signals first and connects them again last. The manager
connects to the signals of a new identity only when the main loop handles "added"
(`Watch`, which sets `watched`); what an alarm says before that is lost. An alarm
either polls or has a timer, chosen at the start; `Tick` and `ClockSet` are the
clock.
A unit of time is longer than the ten seconds of a poll, so that alarms that are
ready go off before time goes on.

### The dialogs

`ProviderDialog` has the states of `GoaProviderDialog`, how an error and an
answer change them, the step in which the user presses the button (`Activate`)
and the last steps every provider has in the same form: AddAccount, storing the
password, EnsureCredentials. Each setup adds its entries, what a change of them
does, and its requests. A *login* is a model value for server, user and whatever
else identifies what is being signed in to; `accepted` collects what servers
accepted during the sign-in under way, and `saved` is what was stored.

`MailSetup` has the discovery of servers, which fills in entries and is cancelled
when they change, and the check of IMAP before SMTP. `DavSetup` goes through
stages: discovery, then each address the user gave. `NextcloudSetup` queries a
server a while after its address was typed and then polls it (Login Flow v2);
what is stored is the server and the user the answer names. `ExchangeSetup` has
the autodiscover requests that are sent together: each is sent, being read,
cancelled, counted or lost, and the sign-in goes on when all are counted.
`BrowserSetup` owns a bus name and an object, launches a browser and gets the
response as a call.

`MailLogin` and `DavDiscovery` are the checks of servers behind them.
`MailLogin` takes an account or a dialog through lookup, connection, STARTTLS,
handshake and login, for IMAP and then SMTP; a server is a record of what is
right and wrong with it. `DavDiscovery` has the lookups of the name service, the
queue of candidates, their well-known addresses, and a server that may answer
anything at each request.

The model of a dialog ends where the code's behaviour is undefined: a callback
that finds its dialog freed.

## 3. Runs

Runs that pass:

| run | instance | shows |
|---|---|---|
| `queue` | two accounts of which one has two objects in turn, or three accounts that stay; 2 clients | the invariants of the queue; that it implements `CheckService`; clients go before network checks; two tasks that clients wait for never change places |
| `queue_answers` | 2 accounts, 2 clients, fairness | every call is answered, and no answer is older than the call, unless the call joined a running check |
| `attention` | one account with two objects in turn, 1 client, little under way; or the notification alone with 4 ids and 2 messages per direction | the array follows AttentionNeeded, the daemon keeps the assumptions of `AttentionNotification`, daemon and server agree once messages have arrived |
| `config_files` | 2 ids, 2 sessions, every failure, no template | the bus follows the file; Remove; logins; unreadable files |
| `config_template` | 1 id, a template that adds or bans it, 3 sessions, no failure, fairness | the template is enforced, temporary accounts and their credentials end with the session, reloads end |
| `oauth2` | 2 objects in turn, a client and the check, 2 tokens, fairness | requests are serialised, refusals are real, the token is kept, nothing is left after Remove, every call returns |
| `identity` | one principal and 2 changes, or two and 1 change; 1 call; fairness | at rest bus, table and accounts agree with the caches but for identities whose sign-in was cancelled, no principal gets two accounts, every call is answered |
| `lifetime` | one cache and 2 changes, or two and 1 change; 3 tickets; clock 0 to 4 | no expired ticket passes for valid, and what runs out was announced to the manager, unless its alarm went off unheard |
| `setup` | any one of the five dialogs, one `MailLogin` or one `DavDiscovery`; fairness | what is stored was accepted, what is reported is true, nothing of a dialog outlives it, sign-ins end unless an answer of autodiscover is lost |

Several instances share a run where they ask the same question: `MCEnsureCredentials`,
`MCAttentionScenarios`, `MCIdentityService`, `MCIdentityLifetime` and `MCSetup`
choose one of them in their initial states and confine the steps to it.

Why the bounds are enough.

- The queue compares tasks pairwise, so that two accounts and a third in a row
  show every relation; three objects of two ids are the least with an id that
  comes back while another task is queued; two clients show a task with two
  invocations and two tasks with one each.
- The notification has a race as soon as two messages are under way.
- In `AccountsConfig` ids do not interact except that all are in one file that is
  readable or not, which two ids show; a third session shows an account of the
  last session but one.
- In `OAuth2Tokens` two callers show a wait for the mutex, two objects a refresh
  that has another mutex, and a token that is replaced once shows the use of one
  that is not accepted any more; the theorems have no such bounds.
- In `IdentityService` principals interact through the queue, the counter, a
  signal of one while another is enumerated, and the default cache that a new
  sign-in takes: two show each. Two changes show a cache that comes and goes
  during one refresh, or a ticket that expires after it was renewed.
- In `IdentityLifetime` one ticket can be renewed, one takes its place later, and
  one ends together with it; two changes replace a ticket twice or set the clock
  back after a replacement. The clock stops one unit after the last ticket ends.
- In the dialogs one login is new and one has an account already; four edits fill
  in the entries that a sign-in needs and change one of them afterwards, and two
  sign-ins show what the second inherits from the first.

Answered calls are made anew in the queue and in `OAuth2Tokens`, so that those
behaviours have no end; a call to the identity service is made once. `MaxInFlight`,
`MaxSession`, `MaxToken`, `MaxChanges`, `MaxTime`, `MaxEdits` and `MaxTries` are the
only bounds on counters, the number of notification ids is the only bound on names
that a server makes up, and all are guards.

Fairness. The queue: the main loop dispatches its timers and results, and a
provider's call returns once its cancellable is cancelled. `oauth2`: threads run;
a mutex that is released again and again is acquired by each of its waiters in
the end (strong fairness of `Lock`); a request that was cancelled ends; and for
`EveryCallReturns` the service or the network answers. `identity`: the pool thread
and the main loop run, and the user answers a prompt that is shown. `setup`:
servers answer or the clients' timeouts do, and the daemon does. Nothing is
assumed of what users start, of the clock or of credential caches.

The runs other than those of the queue and of the configuration do not check for
deadlock: the daemon may exit, an account may be removed for good, a call may have
been answered, a dialog may be closed, and nothing need happen then.

Runs that are expected to end in a violation, each against a statement of the
repository (the findings in `PROJECT.json` quote it):

| run | what the code does |
|---|---|
| `queue_attention_doc` | a call coalesced with a task of an earlier object of the id changes AttentionNeeded there, not on its own account |
| `config_logout_doc` | a kill between two writes makes a temporary account that survives logout |
| `setup_error_doc` | an autodiscovery of Exchange has its error already when another request fails: that answer is never counted, and the dialog stays busy |

### Behaviours to know

These came up while modelling. The models contain them, and the properties above
are stated so that they hold in spite of them; no run is spent on them.

- A call that joins a running check is answered with what the service said
  before the call was made (`goadaemon.c:1908`): `FreshUnlessLate` makes the
  exception. `dbus-interfaces.xml:295-298` says the method checks "if
  credentials are valid".
- An account that leaves the bus without Remove, because the file or a template
  says so, stays among those the notification is about (`goadaemon.c:791`): the
  notification is corrected at the next update and withdrawn at exit (1787).
- A check that fails for another reason than an authorization error notifies
  nobody (`goadaemon.c:1774`), where `doc/overview.md:62-63` speaks of a problem
  with the account.
- A client that writes a property between the save of Remove and the reload
  creates the group anew, without a provider (`goautils.c:553`). The account is
  off the bus, the group stays in the file: `update_account_object` takes it
  out of the copy in memory only (`goadaemon.c:653`).
- When the keyring refuses to clear the credentials of a stale temporary
  account, its group goes all the same (`goadaemon.c:565`), and nothing looks for
  the credentials again. `TemporarySecretsCleared` is checked without failures.
- An unreadable `accounts.conf` is written over when a template adds an account
  (`goadaemon.c:914`). `UnreadableFileKept` and `PermanentStays` say so in their
  hypotheses.
- AddAccount returns the path of an account that the template bans
  (`goadaemon.c:1276`).

OAuth2 tokens:

- A lookup in the keyring that fails, or is cancelled, is reported as
  NOT_AUTHORIZED (`goaoauth2provider.c:1949`), which asks the user to sign in
  although nothing is wrong with the account.
- A rotated refresh token is lost when the response is, when the keyring refuses
  it, when the check is cancelled before it is stored, or when the daemon is
  killed (2012-2065); `TokenKept` lists these ways.
- A refresh that was at the service when Remove cleared the keyring stores its
  tokens under an id that no account has (2053); so does a dialog of Settings that
  was opened while the object was on the bus (1743), however long ago it left.
- When the keyring refuses to clear the credentials, or the daemon is killed
  before it does, Remove has saved the file already (`goadaemon.c:1496`): the
  account leaves the bus and its credentials stay for good.

Kerberos:

- After an enumeration of caches that broke off, the identities it did not come
  to are dropped (`goakerberosidentitymanager.c:787`) until the next refresh.
- A sign-in of a new identity takes the default cache while the table is empty
  (999), whosever tickets are in it.
- A sign-in that the KDC refuses succeeds for an identity that is signed in
  already: what counts is whether it is signed in afterwards. When the prompt was
  cancelled, that it is does not help: the handler has cancelled the operation's
  cancellable (`goaidentityservice.c:1087`), so the task returns CANCELLED
  (`goakerberosidentitymanager.c:1076-1077`). A new identity is then in the table and not
  on the bus, and no later refresh takes it for new, until it is signed in again or
  dropped from the table.
- A prompt that fails to open (`goaidentityservice.c:1216`) neither completes nor
  cancels the inquiry: the pool thread waits for good.
- `on_identities_listed` looks for accounts with ticketing only and adds a
  temporary account beside one that has it switched off (1560).
- An alarm of a new identity that goes off before the main loop has handled "added"
  (`goakerberosidentitymanager.c:448-501`) is emitted to nobody: a ticket near its end
  is then renewed, or its user warned, only after a later reading arms the alarms
  again.
- An alarm that goes off between the disconnecting and the connecting of its
  signals (`goakerberosidentity.c:1335`) is not heard of. A timer that expired is
  not set again when the clock goes back (`goaalarm.c:235`). Alarms that were
  cleared because the ticket was not valid are not armed again when the same
  times are read later (1045-1067). A renewal alarm that goes off before the level is
  set is ignored.
- `ensure_credentials_sync` of the Kerberos provider waits for the proxy of the
  identity service under a mutex that GetTicket takes on the main loop
  (`goakerberosprovider.c:807`), which is to make the proxy.

Dialogs and servers:

- The refresh dialog of the IMAP/SMTP provider stores nothing, as it has no
  object, and checks with an uninitialized kind of encryption
  (`goaimapsmtpprovider.c:1187`). A refused password is GOA_ERROR_FAILED and
  raises no attention, a failed lookup in the keyring is NOT_AUTHORIZED.
- A missing user name or password is passed on as an empty one
  (`goaimapsmtpprovider.c:983-998`), so that the rule of `goasmtpauth.c:468` is never
  met: a login with empty credentials is sent, which the server may refuse or accept
  (487-548), or to which it may offer no mechanism.
- The check for STARTTLS of an IMAP server looks at the first line of the answer
  only.
- A WebDAV check of an address with nothing there (status 404, 405, 500 or 501)
  succeeds: the name of the service is not set on the path to the fallback
  (`goadavclient.c:304-308`), so that no well-known address is tried and no error
  returned. The path that a text record of the name service names is not found in
  it, and what is found at a well-known address is saved as the address first
  asked for. `services_sort_func` compares an element with itself.
- A second sign-in of the WebDAV dialog goes on at the stage at which the first
  failed, and takes over the address that failed (`goawebdavprovider.c:566`); an
  address for files becomes that of the calendar if none was given. The refresh
  dialog of a template checks with an empty user name. It never offers to accept
  a certificate. An account without a valid address fails its check without an
  error.
- A refused certificate of a Nextcloud server comes as an error of the connection,
  so that accepting it is never offered.
- The server a Nextcloud account is stored with is the one the answer to the poll
  names (`goaowncloudprovider.c:305`, 320, 985-1010). Nobody compares it with the
  address that was queried.
- A success among the autodiscover requests of Exchange cancels those that are
  outstanding, and the sign-in then ends as cancelled: a success counts only if it
  is the last to answer and no certificate was refused before. A request that fails
  when the error of a refused certificate is there already returns before it is
  counted (`goaewsclient.c:261`), so that the dialog stays busy until it is closed;
  `EverySignInEnds` makes the exception (`AnswerLost`). The refresh dialog lets go
  of its task with the first failure.
- The OAuth2 dialog does not compare the client in a response with its own; a
  second sign-in elsewhere is refused, as the name on the bus is taken; and a
  user other than the account's leaves the refresh dialog busy.
- Callbacks of several dialogs find theirs freed when it is closed while busy.

## 4. Proofs

Every safety property that a run checks, invariant or action property, and the
refinement of `CheckService` and of the notification's specification, is a
theorem of the specification of its component. The theorems hold for every value
of the constants that satisfies the named assumptions of the modules: any finite
set of objects, any ids and calls, any template, any failures, any number of
sessions, principals, tickets, messages and attempts. TLC evaluates the
assumptions on every run. Those called `NoneAssumption` say only that the value
for "nothing" is none of the values it is told from, which a model value is not,
and `UrlsAssumption` that autodiscover has an address to ask.
The specifications that are proved about are the ones of the components: what the
MC modules take for TLC are some of their behaviours. (`MCSetup` has no such
confinement: `Spec` there is the sum of the dialogs.)

**EnsureCredentialsProofs.** `HeadIsChecked`, the assertion of the collector, is
not inductive: that the task at the head is the one being checked depends on
QueueCheck not sorting while a check runs, on a queue that is only worked on when
it is not empty, and on tasks of one id being merged, so that the sort cannot
move the head. The inductive invariant is the conjunction of `TypeOK`,
`HeadIsChecked`, `OneTaskPerId`, `CallsQueuedOnce`, `PriorityTracksClients` and
`NeverIdleWithWork`, together with the fact that the bus has at most one object
per id. The run `queue` checks those of them that are properties in their own right;
the other two are only proved. The proof has one
lemma per helper (`Coalesce`, `StableOrders`, `QueueCheck`) that says what it
keeps, and one step per action; each theorem then projects its conjunct.

**CheckServiceProofs.** That the queue implements `CheckService` is proved step by
step, with the invariant of `EnsureCredentialsProofs` in hand: what a handler
does to the ids that are queued (`IdsOf`) and to what each call asks about
(`AboutOf`) is one of the abstract steps or a stutter. The abstract service may
begin a check nobody waits for only while no client waits, so the refinement needs
what the stable sort does to the head (`SortedOrder`, `StartNextOrder`). The same
lemmas give `ClientsGoFirst` and `ClientsKeepTheirOrder`. `AnswersAreFresh` has an
inductive invariant over the history variables, `FreshInv`: what the running check
will answer with was seen since each call in its task was made, unless the call
joined late.

**AttentionProofs.** `ArrayFollowsProperty` needs to know that an object that was
never on the bus has no task that could set its property (`ArrayInv`), and that
taking an element out of the array takes out that one only, once
(`RemoveFirstProperties`, which is why `RemoveFirst` is written with the operators
of SequencesExt). `DaemonIsNotification` maps each step of the
composed daemon to one of the notification's own specification. The three promises
about the screen follow from `NotificationInv`, which says what the messages still
under way will make of it: `BeliefInv`, for a daemon that runs, that the id the
daemon will have when all replies and signals are in is the one shown, that at
most one Notify is under way, and that it names all that is shown; `Withdrawn`,
after a withdrawal or the end, that no Notify is under way and that a
CloseNotification is, if anything is still shown. Both are claimed only as long as
no update came between a Notify and its reply.

**AccountsConfigProofs.** `ConfigTypeCorrect` rests on lemmas on what each part
of a reload returns. `BusFollows` needs no more than it: a step either leaves a
monitor's event or the timer behind, in which case nothing is claimed; or it is
a reload that wrote nothing, in which case what it exported is what the files
describe (`ReloadFollows`); or it touches neither the files nor what the bus
shows of them. The one step in which the bus and the files part, a client that
writes IsTemporary of an account whose provider does not store it, changes a
property that BusFollowsFiles leaves out (`FollowsTemporary`).
`RemovedStaysGone`, `UnreadableStaysKept` and `PermanentStays` are about single
steps: each has a lemma about the reload (`ReloadDrops`, `RewriteSpares`,
`ReloadKeeps`) and shows that no other step can be the one that matters. The
last two have hypotheses on the constants, which name the failure that the code
does not survive.

**OAuth2TokensProofs.** The four invariants of `oauth2`, for any number of
objects, calls and tokens. None is inductive: that a refusal is real depends on
what a request knows of the keyring, which depends on who may write it, which
depends on the mutexes. The inductive invariant has a part for each link of that
chain. `MutexOK` says that a mutex and the thread that works for its object know
each other; `TokensIssued` that nobody knows a token from the future, without
which a token issued now could be one already in use; `GotIsNew` that a token
granted to a call and not stored yet is known to nobody else; `HeldIsKept` that
the request that was not overtaken holds what the keyring holds, and that a
refused token does not become good again; `RemovedOK` that after Remove has cleared
the keyring only those who were at the service then, or in the dialog, may
write; `GoodToken` that the keyring's token is accepted,
or that the one call that has its successor has yet to store it. Each part has a
lemma that every step keeps it, given the others; `InvHolds` puts them together
and the theorems project from it.

**IdentityServiceProofs.** The longest chain. `ServiceStateOK` are the types, with
the shape of what the pool thread is at. `Refreshes` says that at least
as many refreshes are queued as the counter of pending ones says, so that one that
is skipped has another behind it. `TableInv` ties the table to the caches where no refresh is
needed for it, and `SyncInv` says what the refresh under way has established so
far: at the enumeration, at each identity verified, at each one dropped.
Together (`ManagerInv`) they make the table right once nothing is due.
`ExportsInv` then says that the events in the inbox will turn the identities on
the bus into those of the table, in the order in which they are in it, and
`StartInv` that nothing is exported before the listing. `CachesAreFollowed` is
their conjunction at rest: the table holds who has a cache, the bus shows nobody
else, and those of the table it does not show are `hidden`. `AccountsInv` counts accounts and the AddAccount calls
on their way, from which `OneAccount` follows. `SignedInInv` and `CheckedInv` are of one form: what
should still happen to an account has something left that will do it, be it a
refresh that is due, a step of the one under way, an event in the inbox or a call
(`AccountDue`, `CheckDue`); at rest there is none. What changes the inbox is stated once for
any sequence of events (`AppendedEvent`, `HandledEvent`).

**IdentityLifetimeProofs.** `ExpiryNoticed` is inductive only with the whole life
of an alarm. `AlarmsLook` says that an alarm that is not ready has seen on which
side of its time the clock is, or has a timer that makes it ready on the other
side, and that one that has gone off was announced or counts as lost. `WatchInv`
says that until the manager hears of the identity a refresh is due, so that nothing
depends on an expiration that nobody heard of. `StageInv`
says what the thread has made of the alarms at each stage of a reset: whose times
they have and whether they are heard. `ExpirationInv` puts them together for an
identity that is, or is about to be, signed in: unless its alarm is lost or about to
be replaced, a refresh is due, or it has not seen the ticket run out and will.
The one fact about the choice of the best cache that is needed is that it has a
ticket, and is not taken for valid when it is over (`BestIsTicket`,
`NoneIsNotValid`).

**SetupProofs.** Each provider has an invariant of its own (`MailInv`,
`ExchangeInv`, `NextcloudInv`, `BrowserInv`, `DavInv`), as a dialog belongs to one
provider for good. `ExchangeInv` needs a lemma on the autodiscover requests
(`RequestsProgress`): as long as none was accepted, one is under way or there is an
error, so that a sign-in that has neither was accepted. They share `OneCall`: a call is under way only while the dialog
is busy, and nothing is stored before the last one. Each then says what the call
under way is about: the entries as they are, since those that matter are
insensitive while the dialog is busy, or what a server accepted, once that server
has been asked. The WebDAV dialog needs the most: in the first sign-in, what was
found so far was accepted (`WasAccepted`) and what is being checked is of the stage
that was reached (`AtStage`); `Given` is the condition without which an address for
files becomes that of the calendar. `LoginRuns` is the invariant of the check of
mail servers: no password has gone to the server that is being asked, the one
before it took its own, and the connection is secured as far as the account wants by the time
of the login. `DiscoveryInv` says that a discovery has found what was offered and
remembers whether anybody refused the password.

Only model-checked: the liveness properties `EveryCallAnswered` (of the queue and of
the identity service), `EveryCallReturns`, `ReloadsEnd` and `EverySignInEnds`, as
fairness and ENABLED are out of the prover's reach. Under the theorems with
hypotheses, TLC checks instances that satisfy them, and `config_files` the rest of
`AccountsConfig` under every failure. Nothing here needs an induction over data:
the modules have no recursive definition, and facts about sequences come from the
library.

## 5. Not modelled

- The client library: `GoaClient` turns the signals of `GDBusObjectManagerClient`
  into its own, one for one, and keeps a copy of the objects; what could go wrong
  is in GIO.
- ExchangeSecretKeys and the encryption of passwords: computations without state
  that outlives them. The dialog of the Kerberos provider and its proxy of the
  identity service, with the wait named above.
- The Fedora provider, a Kerberos account under a name of its own; the requests
  of the Google and Microsoft providers that ask who has signed in, whose answer
  is any user or an error in `BrowserSetup`.
- In `IdentityLifetime`, an identity that a sign-in made, to which the manager
  connects only when it handles the "refreshed" of the next refresh; the module
  has those that a refresh finds.
- The check of an Exchange account: one request whose error is passed on.
- Account groups in the template file; the clock and the counter behind the ids
  that AddAccount generates, which the model lets be any.
- Parsing of XML, HTTP headers and URLs, redirects, `GoaServiceConfig` and its
  kinds beyond what they hold, the registry of providers.
- What is drawn, icons and texts, generated D-Bus code, examples, the build.

What is worth doing next: `AccountsConfig` and `AccountAttention` over one set of
objects; the dialog of the Kerberos provider, with the proxy it waits for; and an
abstract specification of the store of accounts, which `AccountsConfig` would
implement.
