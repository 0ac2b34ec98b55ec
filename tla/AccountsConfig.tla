--------------------------- MODULE AccountsConfig ---------------------------
(***************************************************************************)
(* The accounts of goa-daemon between ~/.config/goa-1.0/accounts.conf, the *)
(* administrator's template file, the keyring and the bus                  *)
(* (src/daemon/goadaemon.c): AddAccount, Remove, the properties clients    *)
(* write, and the reload that brings the bus in line with the files.       *)
(*                                                                         *)
(* Files change under the daemon, and by its own hand; either way a file   *)
(* monitor tells it, and a timer collects changes before the reload.       *)
(* Handlers of the main loop run to their end before the next one starts,  *)
(* unless the process is killed between two things that they write.        *)
(*                                                                         *)
(* Every id is a valid element of an object path.  Templates hold no       *)
(* Account groups and no IsLocked or IsTemporary key.                      *)
(***************************************************************************)
EXTENDS Naturals, FiniteSets

CONSTANTS
    Ids,            \* account ids
    Ticketing,      \* ids of the accounts whose provider stores IsTemporary
    TemplateKinds,  \* what the administrator's template may say of an id
    Failures,       \* what may go wrong: "keyring", "kill", "disk"
    MaxSession,     \* bound: login sessions
    None            \* no group, no account, no key

ASSUME TicketingAssumption == Ticketing \subseteq Ids
ASSUME TemplateAssumption == TemplateKinds \subseteq {"account", "remove"}
ASSUME FailuresAssumption == Failures \subseteq {"keyring", "kill", "disk"}
ASSUME SessionAssumption == MaxSession \in Nat \ {0}
ASSUME NoneIsNothing ==
    None \notin Ids /\ None \notin 1..MaxSession /\ None \notin {"account", "remove"}

VARIABLES
    home,         \* accounts.conf: the group "Account <id>" of each id
    disk,         \* accounts.conf can be read and written: "ok", "broken", "full"
    template,     \* the template file: the group "Template <id>" of each id
    secrets,      \* ids with credentials in the keyring
    session,      \* the login session, which the bus GUID identifies
    up,           \* the daemon runs
    exported,     \* the account objects on the bus
    changed,      \* a file monitor's event is due
    reloadTimer,  \* config_timeout_id is set
    removing      \* ids whose Remove waits for goa_provider_remove_account

files == <<home, disk, template, secrets, session>>
daemon == <<up, exported, changed, reloadTimer, removing>>
vars == <<files, daemon>>

\* A group: whether its Provider key names a provider, its IsTemporary,
\* SessionId and IsLocked, and whether its keys are those of the template.
Group == [provider: BOOLEAN, temporary: BOOLEAN, session: 1..MaxSession \cup {None},
          locked: BOOLEAN, matches: BOOLEAN]
EmptyGroup == [provider |-> FALSE, temporary |-> FALSE, session |-> None,
               locked |-> FALSE, matches |-> FALSE]

Account == [temporary: BOOLEAN, locked: BOOLEAN]

ASSUME NoneIsNoRecord == None \notin Group \cup Account

NoGroups == [id \in Ids |-> None]
HasGroup(h, id) == h[id] # None
OnBus(id) == exported[id] # None

\* What a write to id's group starts from: a key file creates missing groups.
GroupOf(id) == IF HasGroup(home, id) THEN home[id] ELSE EmptyGroup

-----------------------------------------------------------------------------
(* The reload. *)

\* Every account of another session, temporary or not.
Stale_Permanent(g, s) == g.session \notin {None, s}

\* Temporary accounts that never go stale.
Stale_Never(g, s) == FALSE

\* add_config_file discards the temporary accounts of older sessions.
Stale(g, s) == g.temporary /\ g.session \notin {None, s}

\* add_config_file in session s: the groups it finds in accounts.conf.
ReadGroups(h, d, s) ==
    [id \in Ids |->
        IF d = "broken" \/ ~HasGroup(h, id) \/ Stale(h[id], s) THEN None
        ELSE IF h[id].temporary THEN h[id] ELSE [h[id] EXCEPT !.session = None]]

\* goa_utils_keyfile_copy_group from the template, which locks the account if
\* there was anything to copy.
CopyTemplate(g) ==
    IF g.matches THEN g
                 ELSE [g EXCEPT !.provider = TRUE, !.matches = TRUE, !.locked = TRUE]

\* A removal by the template that does not reach the groups to be exported.
Enforced_KeepsRemoved(h) ==
    [id \in Ids |-> IF HasGroup(h, id) /\ template[id] = "account"
                      THEN CopyTemplate(h[id]) ELSE h[id]]

\* process_template_entries on ids that have an account already: the groups
\* that the rest of the reload sees.
Enforced(h) ==
    [id \in Ids |-> IF template[id] = "remove" THEN None
                    ELSE IF HasGroup(h, id) /\ template[id] = "account"
                      THEN CopyTemplate(h[id]) ELSE h[id]]

\* A template whose copy never matches what it was copied from.
WithTemplates_Mismatch(h) ==
    [id \in Ids |-> IF template[id] = "account"
                      THEN [CopyTemplate(EmptyGroup) EXCEPT !.matches = FALSE,
                                !.session = IF ~HasGroup(home, id) \/ home[id].session = None
                                              THEN session ELSE None]
                      ELSE h[id]]

\* process_template_entries on ids that have none yet: they are written to
\* accounts.conf only, and exported by the reload that the write brings about.
WithTemplates(h) ==
    [id \in Ids |-> IF template[id] = "account" /\ ~HasGroup(h, id)
                      THEN CopyTemplate(EmptyGroup) ELSE h[id]]

\* An export of every key of the group.
Exports_Groups(h) == h

\* process_config_entries, update_account_object: the accounts that groups h
\* put on the bus.
Exports(h) ==
    [id \in Ids |-> IF HasGroup(h, id) /\ h[id].provider
                      THEN [temporary |-> h[id].temporary, locked |-> h[id].locked]
                      ELSE None]

\* A reload that leaves the keyring to itself.
Cleared_Never(sec, stale) == {sec}

\* What may be in the keyring after add_config_file has cleared the credentials
\* of stale accounts, of which the keyring may refuse some.
Cleared(sec, stale) ==
    {sec \ cleared : cleared \in IF "keyring" \in Failures THEN SUBSET stale
                                                         ELSE {stale}}

\* What goa_daemon_reload_configuration does to the files in session s, with h
\* in accounts.conf, sec in the keyring and a monitor's event due or not.
\* Credentials of stale accounts are cleared, whether or not that succeeds
\* their groups go.  The file is written if anything changed; a file that could
\* not be read counts as an empty one.
Rewrite(h, sec, s, due) ==
    LET file == WithTemplates(Enforced(ReadGroups(h, disk, s)))
        written == CASE disk = "ok" -> file # h
                     [] disk = "broken" -> file # NoGroups
                     [] disk = "full" -> FALSE
        stale == {id \in Ids : /\ disk # "broken" /\ HasGroup(h, id)
                               /\ Stale(h[id], s) /\ h[id].provider}
    IN  /\ home' = IF written THEN file ELSE h
        /\ disk' = IF written THEN "ok" ELSE disk
        /\ secrets' \in Cleared(sec, stale)
        /\ changed' = (due \/ written)

\* goa_daemon_reload_configuration.
Reload(h, sec, s, due) ==
    /\ Rewrite(h, sec, s, due)
    /\ exported' = Exports(Enforced(ReadGroups(h, disk, s)))

-----------------------------------------------------------------------------
(* The daemon. *)

\* goa_daemon_init, goa_daemon_constructed: monitors first, then a reload.
Start(s) ==
    /\ up' = TRUE
    /\ session' = s
    /\ Reload(home, secrets, s, FALSE)
    /\ reloadTimer' = FALSE
    /\ removing' = {}
    /\ UNCHANGED template

\* The process is gone, and with it what it had on the bus and under way.
Gone ==
    /\ up' = FALSE
    /\ exported' = NoGroups
    /\ changed' = FALSE
    /\ reloadTimer' = FALSE
    /\ removing' = {}

\* A monitor callback that hears one event per reload and loses the others.
FileMonitorChanged_Deaf ==
    /\ up /\ changed
    /\ changed' = FALSE
    /\ reloadTimer' = ~reloadTimer
    /\ UNCHANGED <<files, up, exported, removing>>

\* on_file_monitor_changed.
FileMonitorChanged ==
    /\ up /\ changed
    /\ changed' = FALSE
    /\ reloadTimer' = TRUE
    /\ UNCHANGED <<files, up, exported, removing>>

\* on_config_file_monitor_timeout.
ReloadTimeout ==
    /\ up /\ reloadTimer
    /\ reloadTimer' = FALSE
    /\ Reload(home, secrets, session, changed)
    /\ UNCHANGED <<template, session, up, removing>>

\* The group that AddAccount writes: IsTemporary "true", "false", or absent
\* from the details, which keeps what an account of that id had.
AddedGroup(g, temporary) ==
    LET named == [g EXCEPT !.provider = TRUE, !.matches = FALSE]
    IN  CASE temporary = "true" -> [named EXCEPT !.temporary = TRUE, !.session = session]
          [] temporary = "false" -> [named EXCEPT !.temporary = FALSE, !.session = None]
          [] temporary = "absent" -> named

\* An AddAccount that takes a file it cannot parse for an empty one.
AddAccount_Overwrites(id, temporary, stored) ==
    /\ up
    /\ disk # "full"
    /\ LET h == IF disk = "broken" THEN NoGroups ELSE home
           base == IF HasGroup(h, id) THEN h[id] ELSE EmptyGroup
           written == [h EXCEPT ![id] = AddedGroup(base, temporary)]
       IN  /\ home' = written
           /\ disk' = "ok"
           /\ exported' = Exports(Enforced(ReadGroups(written, "ok", session)))
    /\ secrets' = IF stored THEN secrets \cup {id} ELSE secrets
    /\ changed' = TRUE
    /\ UNCHANGED <<template, session, up, reloadTimer, removing>>

\* on_manager_handle_add_account, get_all_providers_cb, for a provider that
\* exists: the file is written, credentials are stored if there are any and the
\* keyring takes them, and the reload exports the account.  A file that cannot
\* be parsed or written is an error, which changes nothing.
AddAccount(id, temporary, stored) ==
    /\ up
    /\ disk = "ok"
    /\ Reload([home EXCEPT ![id] = AddedGroup(GroupOf(id), temporary)],
              IF stored THEN secrets \cup {id} ELSE secrets, session, TRUE)
    /\ UNCHANGED <<template, session, up, reloadTimer, removing>>

\* on_account_handle_remove: the group is taken out of the file first, then the
\* credentials out of the keyring, then the provider's part starts.  A keyring
\* that fails ends the call with an error.  One Remove per id is under way.
Remove(id) ==
    /\ up
    /\ OnBus(id) /\ ~exported[id].locked
    /\ disk = "ok" /\ HasGroup(home, id)
    /\ id \notin removing
    /\ home' = [home EXCEPT ![id] = None]
    /\ changed' = TRUE
    /\ \/ secrets' = secrets \ {id} /\ removing' = removing \cup {id}
       \/ "keyring" \in Failures /\ UNCHANGED <<secrets, removing>>
    /\ UNCHANGED <<disk, template, session, up, exported, reloadTimer>>

\* An answer that waits for no reload.
RemoveCompletes_NoReload(id) ==
    /\ up /\ id \in removing
    /\ removing' = removing \ {id}
    /\ UNCHANGED <<files, up, exported, changed, reloadTimer>>

\* remove_account_cb: reload, then answer, whatever the provider said.
RemoveCompletes(id) ==
    /\ up /\ id \in removing
    /\ Reload(home, secrets, session, changed)
    /\ removing' = removing \ {id}
    /\ UNCHANGED <<template, session, up, reloadTimer>>

\* A client toggles a feature of account id: goa_util_account_notify_property_cb,
\* goa_utils_keyfile_set_boolean.  Setting a key creates the group it is in.
WriteProperty(id) ==
    /\ up /\ OnBus(id)
    /\ disk = "ok"
    /\ \E matches \in {TRUE, FALSE} :
          /\ matches => HasGroup(home, id) /\ home[id].matches
          /\ home' = [home EXCEPT ![id] =
                        [GroupOf(id) EXCEPT !.matches = matches]]
    /\ changed' = TRUE
    /\ UNCHANGED <<disk, template, secrets, session, up, exported, reloadTimer, removing>>

\* What notify_is_temporary_cb has written of account id: IsTemporary first,
\* and then, in a second write, SessionId.
IsTemporaryWritten(id, value) ==
    [GroupOf(id) EXCEPT !.temporary = value]
SessionIdWritten(id, value) ==
    [IsTemporaryWritten(id, value) EXCEPT !.session = IF value THEN session ELSE None]

\* A callback that does not store the session.
WriteIsTemporary_NoSession(id, value) ==
    /\ up /\ OnBus(id) /\ exported[id].temporary # value
    /\ exported' = [exported EXCEPT ![id].temporary = value]
    /\ home' = [home EXCEPT ![id] = IsTemporaryWritten(id, value)]
    /\ changed' = TRUE
    /\ UNCHANGED <<disk, template, secrets, session, up, reloadTimer, removing>>

\* A client writes IsTemporary.  Only Kerberos accounts store it.
WriteIsTemporary(id, value) ==
    /\ up /\ OnBus(id) /\ exported[id].temporary # value
    /\ exported' = [exported EXCEPT ![id].temporary = value]
    /\ \/ /\ id \in Ticketing /\ disk = "ok"
          /\ home' = [home EXCEPT ![id] = SessionIdWritten(id, value)]
          /\ changed' = TRUE
       \/ /\ id \notin Ticketing \/ disk # "ok"
          /\ UNCHANGED <<home, changed>>
    /\ UNCHANGED <<disk, template, secrets, session, up, reloadTimer, removing>>

\* The process is killed at rest, after the first write of AddAccount, Remove
\* or notify_is_temporary_cb, or quits: nothing it does on exit is persistent.
Killed ==
    /\ up
    /\ \/ UNCHANGED home
       \/ /\ "kill" \in Failures /\ disk = "ok"
          /\ \E id \in Ids :
                \/ \E temporary \in {"true", "false", "absent"} :
                      home' = [home EXCEPT ![id] = AddedGroup(GroupOf(id), temporary)]
                \/ /\ OnBus(id) /\ ~exported[id].locked /\ HasGroup(home, id)
                   /\ home' = [home EXCEPT ![id] = None]
                \/ /\ OnBus(id) /\ id \in Ticketing
                   /\ home' = [home EXCEPT ![id] =
                                 IsTemporaryWritten(id, ~exported[id].temporary)]
    /\ Gone
    /\ UNCHANGED <<disk, template, secrets, session>>

\* D-Bus starts the daemon for the next call.
Restart == ~up /\ Start(session)

\* A second daemon reads the configuration, and may write it, before it learns
\* that the bus name is taken and exits.  With --replace it takes the name and
\* the first one exits, as in Killed and Restart.
SecondInstance ==
    /\ up
    /\ Rewrite(home, secrets, session, changed)
    /\ UNCHANGED <<template, session, up, exported, reloadTimer, removing>>

\* The user logs out and in again.
Login == session < MaxSession /\ Start(session + 1)

-----------------------------------------------------------------------------
(* The user and the administrator. *)

\* The user deletes an account from the file.
EditHome(id) ==
    /\ disk = "ok" /\ HasGroup(home, id)
    /\ home' = [home EXCEPT ![id] = None]
    /\ changed' = up
    /\ UNCHANGED <<disk, template, secrets, session, up, exported, reloadTimer, removing>>

\* The user breaks the syntax of the file or repairs it; the disk fills up or
\* has room again, of which no monitor tells.
DiskChanges ==
    /\ "disk" \in Failures
    /\ \/ /\ disk \in {"ok", "broken"}
          /\ disk' \in {"ok", "broken"} \ {disk}
          /\ changed' = up
       \/ /\ disk \in {"ok", "full"}
          /\ disk' \in {"ok", "full"} \ {disk}
          /\ UNCHANGED changed
    /\ UNCHANGED <<home, template, secrets, session, up, exported, reloadTimer, removing>>

\* The administrator changes what the template says of id.  Its keys may be
\* those that an account of that id has already.
EditTemplate(id) ==
    /\ \E kind \in (TemplateKinds \cup {None}) \ {template[id]} :
          template' = [template EXCEPT ![id] = kind]
    /\ \/ /\ HasGroup(home, id)
          /\ \E matches \in BOOLEAN :
                home' = [home EXCEPT ![id].matches = (matches /\ home[id].provider)]
       \/ ~HasGroup(home, id) /\ UNCHANGED home
    /\ changed' = up
    /\ UNCHANGED <<disk, secrets, session, up, exported, reloadTimer, removing>>

-----------------------------------------------------------------------------

Init ==
    /\ home = NoGroups
    /\ disk = "ok"
    /\ template = NoGroups
    /\ secrets = {}
    /\ session = 1
    /\ up = FALSE
    /\ exported = NoGroups
    /\ changed = FALSE
    /\ reloadTimer = FALSE
    /\ removing = {}

\* Steps of clients, users and the administrator.
Surroundings ==
    \/ \E id \in Ids, temporary \in {"true", "false", "absent"}, stored \in BOOLEAN :
          AddAccount(id, temporary, stored)
    \/ \E id \in Ids : \/ Remove(id)
                       \/ WriteProperty(id)
                       \/ \E value \in BOOLEAN : WriteIsTemporary(id, value)
                       \/ EditHome(id)
                       \/ EditTemplate(id)
    \/ DiskChanges
    \/ Killed
    \/ Restart \/ SecondInstance
    \/ Login

MainLoop ==
    \/ FileMonitorChanged
    \/ ReloadTimeout
    \/ \E id \in Ids : RemoveCompletes(id)

Next == Surroundings \/ MainLoop

Spec == Init /\ [][Next]_vars

\* The main loop dispatches events, timers and results.
FairSpec == Spec /\ WF_vars(FileMonitorChanged) /\ WF_vars(ReloadTimeout)
                 /\ \A id \in Ids : WF_vars(RemoveCompletes(id))

-----------------------------------------------------------------------------
(* Properties. *)

ConfigTypeOK ==
    /\ home \in [Ids -> Group \cup {None}]
    /\ disk \in {"ok", "broken", "full"}
    /\ template \in [Ids -> TemplateKinds \cup {None}]
    /\ secrets \subseteq Ids
    /\ session \in 1..MaxSession
    /\ up \in BOOLEAN
    /\ exported \in [Ids -> Account \cup {None}]
    /\ changed \in BOOLEAN
    /\ reloadTimer \in BOOLEAN
    /\ removing \subseteq Ids

\* No reload is due.
Settled == up /\ ~changed /\ ~reloadTimer

\* Whatever clients, users and crashes did to the files: once no reload is due,
\* the accounts on the bus are those that the files describe.
BusFollowsFiles ==
    Settled => \A id \in Ids :
        LET described == Exports(Enforced(ReadGroups(home, disk, session)))[id]
        IN  /\ OnBus(id) <=> described # None
            /\ OnBus(id) => exported[id].locked = described.locked

\* Once no reload is due and the file can be written, an account that the
\* template provides is on the bus and one it bans is not, although the reload
\* that first reads a template exports nothing from it.
TemplateEnforced ==
    Settled /\ disk = "ok" => \A id \in Ids :
        /\ template[id] = "account" => OnBus(id)
        /\ template[id] = "remove" => ~OnBus(id) /\ ~HasGroup(home, id)

\* When Remove is answered the account is off the bus, unless something wrote
\* it to the file again: clients do not see an account they have removed.
RemovedIsGone ==
    [][\A id \in removing : (up' /\ id \notin removing') =>
          (HasGroup(home', id) \/ exported'[id] = None)]_vars

\* An account that is not temporary is still there after the next login, even
\* if it was temporary once and the daemon was killed while that changed.
PermanentSurvivesLogin ==
    [][\A id \in Ids :
        (/\ session' # session
         /\ HasGroup(home, id) /\ ~home[id].temporary
         /\ template[id] # "remove") => HasGroup(home', id)]_vars

\* IsTemporary: "They are specific to the machine/session and are silently
\* disregarded after logout" (data/dbus-interfaces.xml), unless the template
\* provides an account of the same id, or a reload is due that would find one
\* that it provided.
TemporaryEndsAtLogout ==
    [][\A id \in Ids : (/\ session' # session /\ Settled
                        /\ OnBus(id) /\ exported[id].temporary
                        /\ template[id] # "account") => exported'[id] = None]_vars

\* "Ensure temporary accounts are really removed from the keyring" (NEWS): a
\* session starts with no credentials of accounts that ended with the last, as
\* long as their groups name a provider to look for.
TemporarySecretsCleared ==
    [][\A id \in Ids : (session' # session /\ HasGroup(home, id) /\ ~HasGroup(home', id)
                        /\ home[id].temporary /\ home[id].provider)
                      => id \notin secrets']_vars

\* A file the daemon could not read keeps its accounts: whoever makes it
\* readable again finds them in it.
UnreadableFileKept == [][disk = "broken" /\ disk' = "ok" => home' = home]_vars

\* The daemon's own writes bring about reloads, and reloads write: once clients
\* and users leave the files alone, that comes to an end.
ReloadsEnd == <>[][~Surroundings]_vars => <>[](~changed /\ ~reloadTimer)
=============================================================================
