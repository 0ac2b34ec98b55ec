------------------------ MODULE AccountsConfigProofs ------------------------
(***************************************************************************)
(* Theorems about AccountsConfig, for any ids, templates and failures.     *)
(***************************************************************************)
EXTENDS AccountsConfig, TLAPS

Groups == [Ids -> Group \cup {None}]
Exported == [Ids -> Account \cup {None}]

-----------------------------------------------------------------------------
(* What the parts of a reload return. *)

\* The empty group is a group.
LEMMA EmptyGroupType == EmptyGroup \in Group
BY SMT DEF EmptyGroup, Group

\* Setting a key of a group gives a group.
LEMMA SetKeyType ==
    ASSUME NEW g \in Group, NEW v \in BOOLEAN, NEW s \in 1..MaxSession \cup {None}
    PROVE  /\ [g EXCEPT !.provider = v] \in Group
           /\ [g EXCEPT !.temporary = v] \in Group
           /\ [g EXCEPT !.session = s] \in Group
           /\ [g EXCEPT !.locked = v] \in Group
           /\ [g EXCEPT !.matches = v] \in Group
BY SMT DEF Group

\* A copy of the template over a group is a group.
LEMMA CopyTemplateType ==
    ASSUME NEW g \in Group
    PROVE  CopyTemplate(g) \in Group
<1> DEFINE named == [g EXCEPT !.provider = TRUE]
<1> DEFINE matching == [named EXCEPT !.matches = TRUE]
<1>1. named \in Group
  BY SetKeyType
<1>2. matching \in Group
  <2> HIDE DEF named
  <2> QED  BY <1>1, SetKeyType
<1>3. [matching EXCEPT !.locked = TRUE] \in Group
  <2> HIDE DEF matching
  <2> QED  BY <1>2, SetKeyType
<1>4. QED
  BY <1>3 DEF CopyTemplate

\* Reading the file gives groups.
LEMMA ReadGroupsType ==
    ASSUME NEW h \in Groups, NEW d, NEW s
    PROVE  ReadGroups(h, d, s) \in Groups
<1>1. ASSUME NEW id \in Ids, h[id] # None
      PROVE  h[id] \in Group /\ [h[id] EXCEPT !.session = None] \in Group
  BY <1>1, SMT DEF Groups, Group
<1>2. QED
  BY <1>1 DEF ReadGroups, HasGroup, Groups

\* Enforcing the template on them gives groups.
LEMMA EnforcedType ==
    ASSUME NEW h \in Groups
    PROVE  Enforced(h) \in Groups
<1>1. ASSUME NEW id \in Ids, h[id] # None
      PROVE  h[id] \in Group /\ CopyTemplate(h[id]) \in Group
  BY <1>1, CopyTemplateType DEF Groups
<1>2. QED
  BY <1>1 DEF Enforced, HasGroup, Groups

\* And so does adding the accounts that are new in the template.
LEMMA WithTemplatesType ==
    ASSUME NEW h \in Groups
    PROVE  WithTemplates(h) \in Groups
BY CopyTemplateType, EmptyGroupType DEF WithTemplates, Groups

\* The accounts that groups put on the bus.
LEMMA ExportsType ==
    ASSUME NEW h \in Groups
    PROVE  Exports(h) \in Exported
<1>1. ASSUME NEW id \in Ids, h[id] # None
      PROVE  [temporary |-> h[id].temporary, locked |-> h[id].locked] \in Account
  <2>1. h[id] \in Group
    BY <1>1 DEF Groups
  <2>2. QED
    BY <2>1, SMT DEF Group, Account
<1>2. QED
  BY <1>1 DEF Exports, HasGroup, Groups, Exported

\* A reload of well-typed files leaves well-typed files.
LEMMA RewriteType ==
    ASSUME NEW h \in Groups, NEW sec \in SUBSET Ids, NEW s, NEW due \in BOOLEAN,
           disk \in {"ok", "broken", "full"},
           Rewrite(h, sec, s, due)
    PROVE  /\ home' \in Groups
           /\ disk' \in {"ok", "broken", "full"}
           /\ secrets' \subseteq Ids
           /\ changed' \in BOOLEAN
<1> DEFINE file == WithTemplates(Enforced(ReadGroups(h, disk, s)))
<1>1. file \in Groups
  BY ReadGroupsType, EnforcedType, WithTemplatesType
<1> HIDE DEF file
<1>2. /\ home' \in {file, h}
      /\ disk' \in {"ok", disk}
      /\ \E stale : secrets' \in Cleared(sec, stale)
      /\ changed' \in BOOLEAN
  BY Zenon DEF Rewrite, file
<1>3. secrets' \subseteq Ids
  BY <1>2 DEF Cleared
<1>4. QED
  BY <1>1, <1>2, <1>3

\* And well-typed accounts.
LEMMA ReloadType ==
    ASSUME NEW h \in Groups, NEW sec \in SUBSET Ids, NEW s, NEW due \in BOOLEAN,
           disk \in {"ok", "broken", "full"},
           Reload(h, sec, s, due)
    PROVE  /\ home' \in Groups
           /\ disk' \in {"ok", "broken", "full"}
           /\ secrets' \subseteq Ids
           /\ exported' \in Exported
           /\ changed' \in BOOLEAN
<1>1. exported' \in Exported
  <2>1. Enforced(ReadGroups(h, disk, s)) \in Groups
    BY ReadGroupsType, EnforcedType
  <2>2. QED
    BY <2>1, ExportsType DEF Reload
<1>2. QED
  BY <1>1, RewriteType DEF Reload

-----------------------------------------------------------------------------
(* Type correctness. *)

\* What a write starts from is a group.
LEMMA GroupOfType ==
    ASSUME ConfigTypeOK, NEW id \in Ids
    PROVE  GroupOf(id) \in Group
BY EmptyGroupType DEF ConfigTypeOK, GroupOf, HasGroup

\* AddAccount and the Kerberos provider write groups.
LEMMA AddedGroupType ==
    ASSUME ConfigTypeOK, NEW g \in Group, NEW temporary \in {"true", "false", "absent"}
    PROVE  AddedGroup(g, temporary) \in Group
<1> DEFINE provided == [g EXCEPT !.provider = TRUE]
<1> DEFINE named == [provided EXCEPT !.matches = FALSE]
<1>1. provided \in Group
  BY SetKeyType
<1>2. named \in Group
  <2> HIDE DEF provided
  <2> QED  BY <1>1, SetKeyType
<1>3. named = [g EXCEPT !.provider = TRUE, !.matches = FALSE]
  OBVIOUS
<1> HIDE DEF named
<1>4. /\ [[named EXCEPT !.temporary = TRUE] EXCEPT !.session = session] \in Group
      /\ [[named EXCEPT !.temporary = FALSE] EXCEPT !.session = None] \in Group
  <2>1. [named EXCEPT !.temporary = TRUE] \in Group /\ [named EXCEPT !.temporary = FALSE] \in Group
    BY <1>2, SetKeyType
  <2>2. session \in 1..MaxSession \cup {None} /\ None \in 1..MaxSession \cup {None}
    BY DEF ConfigTypeOK
  <2>3. QED
    BY <2>1, <2>2, SetKeyType
<1>5. QED
  BY <1>2, <1>3, <1>4, Zenon DEF AddedGroup

\* What notify_is_temporary_cb writes is a group, after each of its two writes.
LEMMA IsTemporaryWrittenType ==
    ASSUME ConfigTypeOK, NEW id \in Ids, NEW value \in BOOLEAN
    PROVE  /\ IsTemporaryWritten(id, value) \in Group
           /\ SessionIdWritten(id, value) \in Group
<1>1. IsTemporaryWritten(id, value) \in Group
  BY GroupOfType, SetKeyType DEF IsTemporaryWritten
<1>2. (IF value THEN session ELSE None) \in 1..MaxSession \cup {None}
  BY DEF ConfigTypeOK
<1>3. QED
  BY <1>1, <1>2, SetKeyType DEF SessionIdWritten

\* A file with one group replaced is a file.
LEMMA ReplaceType ==
    ASSUME ConfigTypeOK, NEW id \in Ids, NEW g \in Group \cup {None}
    PROVE  [home EXCEPT ![id] = g] \in Groups
BY DEF ConfigTypeOK, Groups

\* A reload leaves the type invariant to what is left alone.
LEMMA ReloadTypeOK ==
    ASSUME ConfigTypeOK, NEW h \in Groups, NEW sec \in SUBSET Ids,
           NEW due \in BOOLEAN, Reload(h, sec, session', due),
           session' \in 1..MaxSession, template' = template,
           up' \in BOOLEAN, reloadTimer' \in BOOLEAN, removing' \subseteq Ids
    PROVE  ConfigTypeOK'
<1>1. disk \in {"ok", "broken", "full"}
  BY DEF ConfigTypeOK
<1>2. /\ home' \in Groups
      /\ disk' \in {"ok", "broken", "full"}
      /\ secrets' \subseteq Ids
      /\ exported' \in Exported
      /\ changed' \in BOOLEAN
  BY <1>1, ReloadType
<1>3. QED
  BY <1>2 DEF ConfigTypeOK, Groups, Exported

\* The initial state is well typed.
LEMMA TypeInit == Init => ConfigTypeOK
<1>1. 1 \in 1..MaxSession
  BY SessionAssumption, SMT
<1>2. QED
  BY <1>1 DEF Init, ConfigTypeOK, NoGroups

\* The daemon comes up and runs a reload.
LEMMA StartType ==
    ASSUME ConfigTypeOK, NEW s \in 1..MaxSession, Start(s)
    PROVE  ConfigTypeOK'
<1>1. home \in Groups /\ secrets \in SUBSET Ids
  BY DEF ConfigTypeOK, Groups
<1>2. /\ Reload(home, secrets, session', FALSE)
      /\ session' \in 1..MaxSession /\ template' = template
      /\ up' \in BOOLEAN /\ reloadTimer' \in BOOLEAN /\ removing' \subseteq Ids
  BY DEF Start
<1>3. QED
  BY <1>1, <1>2, ReloadTypeOK

\* Steps of clients, users and the administrator keep the type invariant.
LEMMA SurroundingsType ==
    ASSUME ConfigTypeOK, Surroundings
    PROVE  ConfigTypeOK'
<1>1. ASSUME NEW id \in Ids, NEW temporary \in {"true", "false", "absent"},
             NEW stored \in BOOLEAN, AddAccount(id, temporary, stored)
      PROVE  ConfigTypeOK'
  <2> DEFINE h == [home EXCEPT ![id] = AddedGroup(GroupOf(id), temporary)]
  <2> DEFINE sec == IF stored THEN secrets \cup {id} ELSE secrets
  <2>1. h \in Groups
    BY GroupOfType, AddedGroupType, ReplaceType
  <2>2. sec \in SUBSET Ids
    BY DEF ConfigTypeOK
  <2>3. Reload(h, sec, session', TRUE)
    BY <1>1 DEF AddAccount
  <2>4. /\ session' \in 1..MaxSession /\ template' = template
        /\ up' \in BOOLEAN /\ reloadTimer' \in BOOLEAN /\ removing' \subseteq Ids
    BY <1>1 DEF AddAccount, ConfigTypeOK
  <2> HIDE DEF h, sec
  <2>5. QED
    BY <2>1, <2>2, <2>3, <2>4, ReloadTypeOK
<1>2. ASSUME NEW id \in Ids, Remove(id)
      PROVE  ConfigTypeOK'
  <2>1. home' \in Groups
    BY <1>2, ReplaceType DEF Remove
  <2>2. secrets' \subseteq Ids /\ removing' \subseteq Ids
    BY <1>2 DEF Remove, ConfigTypeOK
  <2>3. QED
    BY <1>2, <2>1, <2>2 DEF Remove, ConfigTypeOK, Groups
<1>3. ASSUME NEW id \in Ids, WriteProperty(id)
      PROVE  ConfigTypeOK'
  <2>1. home' \in Groups
    <3>1. PICK matches \in {TRUE, FALSE} :
              home' = [home EXCEPT ![id] = [GroupOf(id) EXCEPT !.matches = matches]]
      BY <1>3 DEF WriteProperty
    <3>2. [GroupOf(id) EXCEPT !.matches = matches] \in Group
      BY GroupOfType, SetKeyType
    <3>3. QED
      BY <3>1, <3>2, ReplaceType
  <2>2. QED
    BY <1>3, <2>1 DEF WriteProperty, ConfigTypeOK, Groups
<1>4. ASSUME NEW id \in Ids, NEW value \in BOOLEAN, WriteIsTemporary(id, value)
      PROVE  ConfigTypeOK'
  <2>1. home' \in Groups /\ changed' \in BOOLEAN
    <3>1. [home EXCEPT ![id] = SessionIdWritten(id, value)] \in Groups
      BY IsTemporaryWrittenType, ReplaceType
    <3>2. home \in Groups /\ changed \in BOOLEAN
      BY DEF ConfigTypeOK, Groups
    <3>3. QED
      BY <1>4, <3>1, <3>2, Zenon DEF WriteIsTemporary
  <2>2. exported' \in Exported
    <3>1. exported[id] \in Account
      BY <1>4 DEF WriteIsTemporary, OnBus, ConfigTypeOK
    <3>2. [exported[id] EXCEPT !.temporary = value] \in Account
      BY <3>1, SMT DEF Account
    <3>3. exported' = [exported EXCEPT ![id] = [exported[id] EXCEPT !.temporary = value]]
      BY <1>4 DEF WriteIsTemporary, ConfigTypeOK
    <3>4. \A account \in Account : [exported EXCEPT ![id] = account] \in Exported
      BY DEF ConfigTypeOK, Exported
    <3>5. QED
      BY <3>2, <3>3, <3>4, Zenon
  <2>3. QED
    BY <1>4, <2>1, <2>2 DEF WriteIsTemporary, ConfigTypeOK, Groups, Exported
<1>5. ASSUME NEW id \in Ids, EditHome(id)
      PROVE  ConfigTypeOK'
  BY <1>5, ReplaceType DEF EditHome, ConfigTypeOK, Groups
<1>6. ASSUME NEW id \in Ids, EditTemplate(id)
      PROVE  ConfigTypeOK'
  <2>1. home' \in Groups
    <3>1. CASE home' = home
      BY <3>1 DEF ConfigTypeOK, Groups
    <3>2. CASE HasGroup(home, id) /\ home' # home
      <4>1. PICK matches \in BOOLEAN :
               home' = [home EXCEPT ![id].matches = (matches /\ home[id].provider)]
        BY <1>6, <3>2 DEF EditTemplate
      <4>2. home[id] \in Group /\ home[id].provider \in BOOLEAN
        BY <3>2 DEF ConfigTypeOK, HasGroup, Group
      <4>3. [home[id] EXCEPT !.matches = (matches /\ home[id].provider)] \in Group
        <5>1. (matches /\ home[id].provider) \in BOOLEAN
          OBVIOUS
        <5>2. QED
          BY <4>2, <5>1, SetKeyType
      <4>4. QED
        BY <4>1, <4>3, ReplaceType DEF ConfigTypeOK, Groups
    <3>3. QED
      BY <1>6, <3>1, <3>2 DEF EditTemplate
  <2>2. template' \in [Ids -> TemplateKinds \cup {None}]
    BY <1>6 DEF EditTemplate, ConfigTypeOK
  <2>3. QED
    BY <1>6, <2>1, <2>2 DEF EditTemplate, ConfigTypeOK, Groups
<1>7. ASSUME DiskChanges
      PROVE  ConfigTypeOK'
  BY <1>7 DEF DiskChanges, ConfigTypeOK
<1>8. ASSUME Killed
      PROVE  ConfigTypeOK'
  <2>1. home' \in Groups
    <3>1. ASSUME NEW id \in Ids, NEW temporary \in {"true", "false", "absent"},
                 home' = [home EXCEPT ![id] = AddedGroup(GroupOf(id), temporary)]
          PROVE  home' \in Groups
      BY <3>1, GroupOfType, AddedGroupType, ReplaceType
    <3>2. ASSUME NEW id \in Ids, home' = [home EXCEPT ![id] = None]
          PROVE  home' \in Groups
      BY <3>2, ReplaceType
    <3>3. ASSUME NEW id \in Ids, OnBus(id),
                 home' = [home EXCEPT ![id] =
                             IsTemporaryWritten(id, ~exported[id].temporary)]
          PROVE  home' \in Groups
      <4>1. (~exported[id].temporary) \in BOOLEAN
        OBVIOUS
      <4>2. QED
        BY <3>3, <4>1, IsTemporaryWrittenType, ReplaceType
    <3>4. CASE home' = home
      BY <3>4 DEF ConfigTypeOK, Groups
    <3>5. QED
      BY <1>8, <3>1, <3>2, <3>3, <3>4 DEF Killed
  <2>2. QED
    BY <1>8, <2>1 DEF Killed, Gone, ConfigTypeOK, Groups, NoGroups
<1>9. ASSUME Restart
      PROVE  ConfigTypeOK'
  BY <1>9, StartType DEF Restart, ConfigTypeOK
<1>10. ASSUME Login
       PROVE  ConfigTypeOK'
  <2>1. session + 1 \in 1..MaxSession
    BY <1>10, SessionAssumption, SMT DEF Login, ConfigTypeOK
  <2>2. QED
    BY <1>10, <2>1, StartType DEF Login
<1>11. ASSUME SecondInstance
       PROVE  ConfigTypeOK'
  <2>1. /\ home \in Groups /\ secrets \in SUBSET Ids /\ changed \in BOOLEAN
        /\ disk \in {"ok", "broken", "full"}
    BY DEF ConfigTypeOK, Groups
  <2>2. /\ home' \in Groups /\ disk' \in {"ok", "broken", "full"}
        /\ secrets' \subseteq Ids /\ changed' \in BOOLEAN
    BY <1>11, <2>1, RewriteType DEF SecondInstance
  <2>3. QED
    BY <1>11, <2>2 DEF SecondInstance, ConfigTypeOK, Groups
<1>12. QED
  BY <1>1, <1>2, <1>3, <1>4, <1>5, <1>6, <1>7, <1>8, <1>9, <1>10, <1>11, Zenon DEF Surroundings

\* Steps of the main loop keep it too.
LEMMA MainLoopType ==
    ASSUME ConfigTypeOK, MainLoop
    PROVE  ConfigTypeOK'
<1>1. home \in Groups /\ secrets \in SUBSET Ids /\ changed \in BOOLEAN
  BY DEF ConfigTypeOK, Groups
<1>2. ASSUME FileMonitorChanged
      PROVE  ConfigTypeOK'
  BY <1>2 DEF FileMonitorChanged, files, ConfigTypeOK
<1>3. ASSUME ReloadTimeout
      PROVE  ConfigTypeOK'
  <2>1. /\ Reload(home, secrets, session', changed)
        /\ session' \in 1..MaxSession /\ template' = template
        /\ up' \in BOOLEAN /\ reloadTimer' \in BOOLEAN /\ removing' \subseteq Ids
    BY <1>3 DEF ReloadTimeout, ConfigTypeOK
  <2>2. QED
    BY <1>1, <2>1, ReloadTypeOK
<1>4. ASSUME NEW id \in Ids, RemoveCompletes(id)
      PROVE  ConfigTypeOK'
  <2>1. /\ Reload(home, secrets, session', changed)
        /\ session' \in 1..MaxSession /\ template' = template
        /\ up' \in BOOLEAN /\ reloadTimer' \in BOOLEAN /\ removing' \subseteq Ids
    BY <1>4 DEF RemoveCompletes, ConfigTypeOK
  <2>2. QED
    BY <1>1, <2>1, ReloadTypeOK
<1>5. QED
  BY <1>2, <1>3, <1>4 DEF MainLoop

\* The store is well typed, whatever the ids, templates and failures.
THEOREM ConfigTypeCorrect == Spec => []ConfigTypeOK
<1>1. ConfigTypeOK /\ [Next]_vars => ConfigTypeOK'
  <2>1. ASSUME ConfigTypeOK, UNCHANGED vars
        PROVE  ConfigTypeOK'
    BY <2>1 DEF vars, files, daemon, ConfigTypeOK
  <2>2. QED
    BY <2>1, SurroundingsType, MainLoopType DEF Next
<1>2. QED
  BY <1>1, TypeInit, PTL DEF Spec

-----------------------------------------------------------------------------
(* The bus follows the files. *)

\* The accounts that the files describe.
Described == Exports(Enforced(ReadGroups(home, disk, session)))

\* The groups in the file are the same as long as nobody touches them and the
\* file stays readable.
LEMMA ReadUnchanged ==
    ASSUME UNCHANGED <<home, session>>,
           disk' = disk \/ (disk # "broken" /\ disk' # "broken")
    PROVE  ReadGroups(home, disk, session)' = ReadGroups(home, disk, session)
BY Zenon DEF ReadGroups, HasGroup, Stale

\* And so are the accounts that they describe, with the same template.
LEMMA DescribedUnchanged ==
    ASSUME UNCHANGED <<home, template, session>>,
           disk' = disk \/ (disk # "broken" /\ disk' # "broken")
    PROVE  Described' = Described
<1> DEFINE read == ReadGroups(home, disk, session)
<1>1. read' = read
  BY ReadUnchanged
<1> HIDE DEF read
<1>2. Enforced(read)' = Enforced(read)
  BY <1>1, Zenon DEF Enforced, HasGroup, CopyTemplate
<1> DEFINE kept == Enforced(read)
<1>3. kept' = kept
  BY <1>2
<1> HIDE DEF kept
<1>4. Exports(kept)' = Exports(kept)
  BY <1>3, Zenon DEF Exports, HasGroup
<1>5. QED
  BY <1>4 DEF Described, kept, read

\* A reload that leaves nothing due has written nothing.
LEMMA QuietRewrite ==
    ASSUME ConfigTypeOK, NEW sec, NEW s, NEW due, Rewrite(home, sec, s, due), ~changed'
    PROVE  /\ home' = home /\ disk' = disk /\ ~due
           /\ disk = "ok" => home = WithTemplates(Enforced(ReadGroups(home, disk, s)))
<1> DEFINE file == WithTemplates(Enforced(ReadGroups(home, disk, s)))
<1> HIDE DEF file
<1>1. PICK written \in BOOLEAN :
         /\ home' = IF written THEN file ELSE home
         /\ disk' = IF written THEN "ok" ELSE disk
         /\ changed' = (due \/ written)
         /\ disk = "ok" => written = (file # home)
  <2> DEFINE w == CASE disk = "ok" -> file # home
                    [] disk = "broken" -> file # NoGroups
                    [] disk = "full" -> FALSE
  <2>1. /\ home' = IF w THEN file ELSE home
        /\ disk' = IF w THEN "ok" ELSE disk
        /\ changed' = (due \/ w)
    BY Zenon DEF Rewrite, file
  <2>2. w \in BOOLEAN /\ (disk = "ok" => w = (file # home))
    BY DEF ConfigTypeOK
  <2> HIDE DEF w
  <2>3. QED
    BY <2>1, <2>2
<1>2. QED
  BY <1>1 DEF file

\* A reload that writes nothing has exported what the files describe.
LEMMA ReloadFollows ==
    ASSUME ConfigTypeOK, NEW sec, NEW due, Reload(home, sec, session', due),
           template' = template, ~changed'
    PROVE  exported' = Described'
<1> DEFINE kept == Enforced(ReadGroups(home, disk, session'))
<1>1. /\ home' = home /\ disk' = disk
      /\ exported' = Exports(kept)
  <2>1. Rewrite(home, sec, session', due) /\ exported' = Exports(kept)
    BY Zenon DEF Reload, kept
  <2>2. QED
    BY <2>1, QuietRewrite
<1>2. Described' = Exports(kept)
  <2> DEFINE read == ReadGroups(home, disk, session')
  <2>1. ReadGroups(home, disk, session)' = read
    BY <1>1, Zenon DEF ReadGroups, HasGroup, Stale
  <2> DEFINE now == ReadGroups(home, disk, session)
  <2> HIDE DEF read
  <2>2. Enforced(now)' = Enforced(read)
    <3>1. now' = read
      BY <2>1
    <3> HIDE DEF now
    <3>2. QED
      BY <3>1, Zenon DEF Enforced, HasGroup, CopyTemplate
  <2> DEFINE keptnow == Enforced(now)
  <2>3. Exports(keptnow)' = Exports(kept)
    <3>1. keptnow' = kept
      BY <2>2 DEF read
    <3> HIDE DEF keptnow, kept
    <3>2. QED
      BY <3>1, Zenon DEF Exports, HasGroup
  <2>4. QED
    BY <2>3 DEF Described
<1>3. QED
  BY <1>1, <1>2

\* The accounts on the bus are those that the files describe.
Follows ==
    \A id \in Ids : /\ OnBus(id) <=> Described[id] # None
                    /\ OnBus(id) => exported[id].locked = Described[id].locked

\* What BusFollowsFiles says, in these terms.
LEMMA BusFollowsFilesIs == BusFollowsFiles <=> (Settled => Follows)
BY Zenon DEF BusFollowsFiles, Follows, Described

\* A client that writes IsTemporary of an account that does not store it
\* changes no more than that on the bus.
LEMMA FollowsTemporary ==
    ASSUME ConfigTypeOK, Follows, NEW id \in Ids, NEW value \in BOOLEAN, OnBus(id),
           exported' = [exported EXCEPT ![id].temporary = value], Described' = Described
    PROVE  Follows'
<1>2. exported[id] \in Account
  BY DEF ConfigTypeOK, OnBus
<1> DEFINE written == [exported[id] EXCEPT !.temporary = value]
<1>3. written \in Account /\ written.locked = exported[id].locked
  BY <1>2 DEF Account
<1>4. written # None
  BY <1>3, NoneIsNoRecord
<1>5. exported' = [exported EXCEPT ![id] = written]
  OBVIOUS
<1> HIDE DEF written
<1>6. ASSUME NEW other \in Ids
      PROVE  /\ exported'[other] # None <=> exported[other] # None
             /\ exported[other] # None => exported'[other].locked = exported[other].locked
  BY <1>3, <1>4, <1>5 DEF ConfigTypeOK, OnBus
<1>7. QED
  BY <1>6 DEF Follows, OnBus

\* A step after which no reload is due followed a state in which none was, and
\* left what the bus follows alone; or it was a reload that found the files as
\* it would have written them.
FilesAlone ==
    /\ UNCHANGED <<home, template, session>>
    /\ disk' = disk \/ ("disk" \in Failures /\ disk # "broken" /\ disk' # "broken")
BusAlone ==
    \/ exported' = exported
    \/ \E id \in Ids, value \in BOOLEAN :
          /\ id \notin Ticketing \/ disk # "ok"
          /\ OnBus(id) /\ exported' = [exported EXCEPT ![id].temporary = value]
Reloaded ==
    /\ UNCHANGED <<home, disk, template>>
    /\ exported' = Described'
    /\ disk = "ok" => home = WithTemplates(Enforced(ReadGroups(home, disk, session')))

LEMMA QuietSteps ==
    ASSUME ConfigTypeOK, [Next]_vars, Settled'
    PROVE  (Settled /\ FilesAlone /\ BusAlone) \/ Reloaded
<1>1. ASSUME NEW id \in Ids, NEW temporary, NEW stored, AddAccount(id, temporary, stored)
      PROVE  FALSE
  BY <1>1, Zenon DEF AddAccount, Reload, Rewrite, Settled
<1>2. ASSUME NEW id \in Ids, Remove(id) \/ WriteProperty(id)
      PROVE  FALSE
  BY <1>2 DEF Remove, WriteProperty, Settled
<1>3. ASSUME NEW id \in Ids, NEW value \in BOOLEAN, WriteIsTemporary(id, value)
      PROVE  Settled /\ FilesAlone /\ BusAlone
  <2>1. UNCHANGED <<home, disk, template, session, up, changed, reloadTimer>>
    BY <1>3 DEF WriteIsTemporary, Settled
  <2>2. id \notin Ticketing \/ disk # "ok"
    BY <1>3, <2>1 DEF WriteIsTemporary, Settled
  <2>3. OnBus(id) /\ exported' = [exported EXCEPT ![id].temporary = value]
    BY <1>3 DEF WriteIsTemporary
  <2>4. QED
    BY <2>1, <2>2, <2>3 DEF Settled, FilesAlone, BusAlone
<1>4. ASSUME NEW id \in Ids, EditHome(id) \/ EditTemplate(id)
      PROVE  FALSE
  <2>1. changed' = up /\ up' = up
    <3>1. CASE EditHome(id)
      BY <3>1, Zenon DEF EditHome
    <3>2. CASE EditTemplate(id)
      BY <3>2, Zenon DEF EditTemplate
    <3>3. QED
      BY <1>4, <3>1, <3>2
  <2>2. QED
    BY <2>1 DEF Settled
<1>5. CASE DiskChanges
  BY <1>5 DEF DiskChanges, Settled, FilesAlone, BusAlone
<1>6. ~Killed /\ ~FileMonitorChanged
  BY DEF Killed, Gone, FileMonitorChanged, Settled
<1>7. ASSUME NEW sec, NEW due, Reload(home, sec, session', due), template' = template
      PROVE  Reloaded
  <2>1. exported' = Described'
    BY <1>7, ReloadFollows DEF Settled
  <2>2. Rewrite(home, sec, session', due)
    BY <1>7, Zenon DEF Reload
  <2>3. QED
    BY <1>7, <2>1, <2>2, QuietRewrite DEF Settled, Reloaded
<1>8. CASE Restart \/ Login
  BY <1>7, <1>8, Zenon DEF Restart, Login, Start
<1>9. CASE ReloadTimeout \/ \E id \in Ids : RemoveCompletes(id)
  BY <1>7, <1>9, Zenon DEF ReloadTimeout, RemoveCompletes
<1>10. CASE SecondInstance
  <2>1. /\ Rewrite(home, secrets, session, changed)
        /\ UNCHANGED <<template, session, up, exported, reloadTimer>>
    BY <1>10 DEF SecondInstance
  <2>2. home' = home /\ disk' = disk /\ ~changed
    BY <2>1, QuietRewrite DEF Settled
  <2>3. QED
    BY <2>1, <2>2 DEF Settled, FilesAlone, BusAlone
<1>11. CASE UNCHANGED vars
  BY <1>11 DEF vars, files, daemon, Settled, FilesAlone, BusAlone
<1>12. QED
  BY <1>1, <1>2, <1>3, <1>4, <1>5, <1>6, <1>8, <1>9, <1>10, <1>11 DEF Next, Surroundings, MainLoop

\* Whatever clients, users and crashes did to the files: once no reload is due,
\* the accounts on the bus are those that the files describe.
THEOREM BusFollows == Spec => []BusFollowsFiles
<1>1. Init => BusFollowsFiles
  BY BusFollowsFilesIs DEF Init, Settled
<1>2. ASSUME ConfigTypeOK, BusFollowsFiles, [Next]_vars
      PROVE  BusFollowsFiles'
  <2>1. Settled => Follows
    BY <1>2, BusFollowsFilesIs
  <2>2. SUFFICES ASSUME Settled' PROVE Follows'
    BY BusFollowsFilesIs, Zenon DEF BusFollowsFiles, Follows, Described
  <2>3. CASE Settled /\ FilesAlone /\ BusAlone
    <3>1. Described' = Described
      BY <2>3, DescribedUnchanged DEF FilesAlone
    <3>2. CASE exported' = exported
      BY <2>1, <2>3, <3>1, <3>2 DEF Follows, OnBus
    <3>3. ASSUME NEW id \in Ids, NEW value \in BOOLEAN, OnBus(id),
                 exported' = [exported EXCEPT ![id].temporary = value]
          PROVE  Follows'
      BY <1>2, <2>1, <2>3, <3>1, <3>3, FollowsTemporary
    <3>4. QED
      BY <2>3, <3>2, <3>3 DEF BusAlone
  <2>4. CASE Reloaded
    BY <2>4 DEF Reloaded, Follows, OnBus
  <2>5. QED
    BY <1>2, <2>2, <2>3, <2>4, QuietSteps
<1>3. QED
  BY <1>1, <1>2, ConfigTypeCorrect, PTL DEF Spec

-----------------------------------------------------------------------------
(* Removed accounts are gone. *)

\* A reload exports nothing without a group in the file, or leaves one in it.
LEMMA ReloadDrops ==
    ASSUME NEW h, NEW sec, NEW s, NEW due, Reload(h, sec, s, due), NEW id \in Ids
    PROVE  HasGroup(home', id) \/ exported'[id] = None
<1> DEFINE read == ReadGroups(h, disk, s)
<1> DEFINE kept == Enforced(read)
<1> DEFINE file == WithTemplates(kept)
<1>1. read[id] # None => h[id] # None
  BY DEF ReadGroups, HasGroup
<1>2. kept[id] # None => read[id] # None
  <2> HIDE DEF read
  <2> QED  BY DEF Enforced, HasGroup
<1> HIDE DEF read
<1>3. kept[id] # None => file[id] = kept[id]
  <2> HIDE DEF kept
  <2> QED  BY DEF WithTemplates, HasGroup
<1> HIDE DEF kept, file
<1>4. home' \in {file, h} /\ exported' = Exports(kept)
  BY Zenon DEF Reload, Rewrite, kept, file, read
<1>5. exported'[id] # None => kept[id] # None
  BY <1>4 DEF Exports, HasGroup
<1>6. QED
  BY <1>1, <1>2, <1>3, <1>4, <1>5 DEF HasGroup

\* When Remove is answered the account is off the bus, unless something wrote
\* it to the file again.
THEOREM RemovedStaysGone == Spec => RemovedIsGone
<1> DEFINE Answered == \A id \in removing : (up' /\ id \notin removing') =>
                          (HasGroup(home', id) \/ exported'[id] = None)
<1>1. ASSUME ConfigTypeOK, [Next]_vars
      PROVE  Answered
  <2>1. SUFFICES ASSUME NEW id \in removing, up', id \notin removing'
                 PROVE  HasGroup(home', id) \/ exported'[id] = None
    OBVIOUS
  <2>2. id \in Ids
    BY <1>1, <2>1 DEF ConfigTypeOK
  <2>3. \/ \E s : Start(s)
        \/ \E other \in Ids : RemoveCompletes(other)
    BY <1>1, <2>1, Zenon
       DEF Next, Surroundings, MainLoop, vars, daemon, AddAccount, Remove, WriteProperty,
           WriteIsTemporary, EditHome, EditTemplate, DiskChanges, Killed, Gone, Restart,
           SecondInstance, Login, FileMonitorChanged, ReloadTimeout
  <2>4. \E h, sec, s, due : Reload(h, sec, s, due)
    BY <2>3, Zenon DEF Start, RemoveCompletes
  <2>5. QED
    BY <2>2, <2>4, ReloadDrops
<1>2. QED
  BY <1>1, ConfigTypeCorrect, PTL DEF Spec, RemovedIsGone

-----------------------------------------------------------------------------
(* A file that cannot be read. *)

\* Without a template, a reload of a file that cannot be read writes nothing.
LEMMA RewriteSpares ==
    ASSUME ConfigTypeOK, TemplateKinds = {}, disk = "broken",
           NEW sec, NEW s, NEW due, Rewrite(home, sec, s, due)
    PROVE  disk' = "broken"
<1> DEFINE read == ReadGroups(home, disk, s)
<1> DEFINE kept == Enforced(read)
<1> DEFINE file == WithTemplates(kept)
<1>1. template \in [Ids -> {None}]
  BY DEF ConfigTypeOK
<1>2. \A id \in Ids : template[id] # "account" /\ template[id] # "remove"
  BY <1>1, NoneIsNothing
<1>3. read = NoGroups
  BY DEF ReadGroups, NoGroups
<1>4. kept = NoGroups
  <2> HIDE DEF read
  <2> QED  BY <1>2, <1>3 DEF Enforced, NoGroups, HasGroup
<1> HIDE DEF read
<1>5. file = NoGroups
  <2> HIDE DEF kept
  <2> QED  BY <1>2, <1>4 DEF WithTemplates, NoGroups, HasGroup
<1> HIDE DEF kept, file
<1> DEFINE w == CASE disk = "ok" -> file # home
                  [] disk = "broken" -> file # NoGroups
                  [] disk = "full" -> FALSE
<1>6. disk' = IF w THEN "ok" ELSE disk
  BY Zenon DEF Rewrite, kept, file, read
<1>7. ~w
  BY <1>5
<1> HIDE DEF w
<1>8. QED
  BY <1>6, <1>7

\* A file the daemon could not read keeps its accounts, unless a template has
\* accounts of its own to write: whoever repairs the file finds them in it.
THEOREM UnreadableStaysKept == TemplateKinds = {} => (Spec => UnreadableFileKept)
<1> SUFFICES ASSUME TemplateKinds = {} PROVE Spec => UnreadableFileKept
  OBVIOUS
<1>1. ASSUME ConfigTypeOK, [Next]_vars, disk = "broken", disk' = "ok"
      PROVE  home' = home
  <2>1. ASSUME NEW sec, NEW s, NEW due, Rewrite(home, sec, s, due)
        PROVE  FALSE
    BY <1>1, <2>1, RewriteSpares
  <2>2. ~Restart /\ ~Login /\ ~SecondInstance
    BY <2>1, Zenon DEF Restart, Login, Start, Reload, SecondInstance
  <2>3. ~ReloadTimeout /\ \A id \in Ids : ~RemoveCompletes(id)
    BY <2>1, Zenon DEF ReloadTimeout, RemoveCompletes, Reload
  <2>4. ASSUME NEW id \in Ids
        PROVE  /\ \A temporary, stored : ~AddAccount(id, temporary, stored)
               /\ ~Remove(id) /\ ~WriteProperty(id) /\ ~EditHome(id)
               /\ EditTemplate(id) => disk' = disk
               /\ \A value : WriteIsTemporary(id, value) => disk' = disk
    BY <1>1 DEF AddAccount, Remove, WriteProperty, EditHome, EditTemplate, WriteIsTemporary
  <2>5. DiskChanges => home' = home
    BY DEF DiskChanges
  <2>6. (Killed \/ FileMonitorChanged \/ UNCHANGED vars) => disk' = disk
    BY DEF Killed, FileMonitorChanged, vars, files
  <2>7. QED
    BY <1>1, <2>2, <2>3, <2>4, <2>5, <2>6 DEF Next, Surroundings, MainLoop
<1>2. QED
  BY <1>1, ConfigTypeCorrect, PTL DEF Spec, UnreadableFileKept

-----------------------------------------------------------------------------
(* Permanent accounts. *)

\* A reload of a readable file keeps every account that is not temporary and
\* not banned by the template.
LEMMA ReloadKeeps ==
    ASSUME ConfigTypeOK, disk # "broken", NEW sec, NEW s, NEW due,
           Reload(home, sec, s, due), NEW id \in Ids, template[id] # "remove",
           HasGroup(home, id), ~home[id].temporary
    PROVE  HasGroup(home', id)
<1> DEFINE read == ReadGroups(home, disk, s)
<1> DEFINE kept == Enforced(read)
<1> DEFINE file == WithTemplates(kept)
<1>1. home \in Groups /\ read \in Groups
  BY ReadGroupsType DEF ConfigTypeOK, Groups
<1>2. read[id] # None
  <2>1. home[id] \in Group
    BY <1>1 DEF Groups, HasGroup
  <2>2. [home[id] EXCEPT !.session = None] \in Group
    BY <2>1, SMT DEF Group
  <2>3. read[id] = [home[id] EXCEPT !.session = None]
    BY Zenon DEF ReadGroups, Stale
  <2>4. QED
    BY <2>2, <2>3, NoneIsNoRecord
<1> HIDE DEF read
<1>3. kept[id] # None
  <2>1. CopyTemplate(read[id]) \in Group
    BY <1>1, <1>2, CopyTemplateType DEF Groups
  <2>2. QED
    BY <1>2, <2>1, NoneIsNoRecord DEF Enforced, HasGroup
<1> HIDE DEF kept
<1>4. file[id] = kept[id]
  BY <1>3 DEF WithTemplates, HasGroup
<1> HIDE DEF file
<1>5. home' \in {file, home}
  BY Zenon DEF Reload, Rewrite, kept, file, read
<1>6. QED
  BY <1>3, <1>4, <1>5 DEF HasGroup

\* Without failures of the disk the file can be read and written all the time.
Readable == "disk" \in Failures \/ disk = "ok"

LEMMA ReadableStep ==
    ASSUME Readable, [Next]_vars
    PROVE  Readable'
<1>1. ASSUME NEW h, NEW sec, NEW s, NEW due, Rewrite(h, sec, s, due), disk = "ok"
      PROVE  disk' = "ok"
  BY <1>1, Zenon DEF Rewrite
<1>2. CASE "disk" \in Failures
  BY <1>2 DEF Readable
<1>3. CASE disk = "ok" /\ "disk" \notin Failures
  <2>1. ASSUME NEW id \in Ids
        PROVE  /\ \A temporary, stored : AddAccount(id, temporary, stored) => disk' = "ok"
               /\ RemoveCompletes(id) => disk' = "ok"
    BY <1>1, <1>3, Zenon DEF AddAccount, RemoveCompletes, Reload
  <2>2. (ReloadTimeout \/ Restart \/ SecondInstance \/ Login) => disk' = "ok"
    BY <1>1, <1>3, Zenon DEF ReloadTimeout, Restart, SecondInstance, Login, Start, Reload
  <2>3. ASSUME NEW id \in Ids
        PROVE  /\ Remove(id) \/ WriteProperty(id) \/ EditHome(id) \/ EditTemplate(id)
                    => disk' = "ok"
               /\ \A value : WriteIsTemporary(id, value) => disk' = "ok"
    BY <1>3 DEF Remove, WriteProperty, EditHome, EditTemplate, WriteIsTemporary
  <2>4. (Killed \/ FileMonitorChanged \/ UNCHANGED vars) => disk' = "ok"
    BY <1>3 DEF Killed, FileMonitorChanged, vars, files
  <2>5. ~DiskChanges
    BY <1>3 DEF DiskChanges
  <2>6. QED
    BY <2>1, <2>2, <2>3, <2>4, <2>5 DEF Next, Surroundings, MainLoop, Readable
<1>4. QED
  BY <1>2, <1>3 DEF Readable

LEMMA ReadableInit == Init => Readable
BY DEF Init, Readable

\* Only a login begins a session.
LEMMA SessionSteps ==
    ASSUME [Next]_vars, session' # session
    PROVE  Login
<1>1. /\ ~Restart /\ ~SecondInstance /\ ~DiskChanges /\ ~Killed /\ ~FileMonitorChanged
      /\ ~ReloadTimeout /\ ~UNCHANGED vars
  BY Zenon DEF Restart, Start, SecondInstance, DiskChanges, Killed, FileMonitorChanged,
               ReloadTimeout, vars, files
<1>2. ASSUME NEW id \in Ids
      PROVE  /\ ~Remove(id) /\ ~WriteProperty(id) /\ ~EditHome(id)
             /\ ~EditTemplate(id) /\ ~RemoveCompletes(id)
             /\ \A value : ~WriteIsTemporary(id, value)
             /\ \A temporary, stored : ~AddAccount(id, temporary, stored)
  BY Zenon DEF Remove, WriteProperty, EditHome, EditTemplate, RemoveCompletes,
               WriteIsTemporary, AddAccount
<1>3. QED
  BY <1>1, <1>2 DEF Next, Surroundings, MainLoop

\* An account that is not temporary is still there after the next login, even
\* if it was temporary once and the daemon was killed while that changed,
\* unless the file was unreadable and a template overwrote it.
THEOREM PermanentStays ==
    TemplateKinds = {} \/ "disk" \notin Failures => (Spec => PermanentSurvivesLogin)
<1> SUFFICES ASSUME TemplateKinds = {} \/ "disk" \notin Failures
             PROVE  Spec => PermanentSurvivesLogin
  OBVIOUS
<1> DEFINE Survives == \A id \in Ids :
        (/\ session' # session
         /\ HasGroup(home, id) /\ ~home[id].temporary
         /\ template[id] # "remove") => HasGroup(home', id)
<1>3. ASSUME ConfigTypeOK, Readable, [Next]_vars
      PROVE  Survives
  <2>1. SUFFICES ASSUME NEW id \in Ids, session' # session, HasGroup(home, id),
                        ~home[id].temporary, template[id] # "remove"
                 PROVE  HasGroup(home', id)
    OBVIOUS
  <2>2. Login
    BY <1>3, <2>1, SessionSteps
  <2>3. PICK due : Reload(home, secrets, session + 1, due)
    BY <2>2, Zenon DEF Login, Start
  <2>4. CASE disk = "broken"
    <3>1. TemplateKinds = {}
      BY <1>3, <2>4 DEF Readable
    <3>2. disk' = "broken"
      BY <1>3, <2>3, <2>4, <3>1, RewriteSpares DEF Reload
    <3>3. home' = home
      BY <2>3, <2>4, <3>2, Zenon DEF Reload, Rewrite
    <3>4. QED
      BY <2>1, <3>3
  <2>5. CASE disk # "broken"
    BY <1>3, <2>1, <2>3, <2>5, ReloadKeeps
  <2>6. QED
    BY <2>4, <2>5
<1>4. QED
  BY <1>3, ReadableInit, ReadableStep, ConfigTypeCorrect, PTL DEF Spec, PermanentSurvivesLogin
-----------------------------------------------------------------------------
(* What is in the file. *)

\* The groups that clients, users, the administrator and crashes leave of id.
Written(id, g) ==
    \/ g = None
    \/ \E temporary \in {"true", "false", "absent"} : g = AddedGroup(GroupOf(id), temporary)
    \/ \E matches \in BOOLEAN :
          /\ matches => HasGroup(home, id) /\ (home[id].matches \/ home[id].provider)
          /\ g = [GroupOf(id) EXCEPT !.matches = matches]
    \/ \E value \in BOOLEAN : g = SessionIdWritten(id, value)
    \/ "kill" \in Failures /\ \E value \in BOOLEAN : g = IsTemporaryWritten(id, value)

\* A step writes at most one group itself, and a reload what follows from it.
LEMMA HomeSteps ==
    ASSUME ConfigTypeOK, [Next]_vars
    PROVE  \E h : /\ \/ h = home
                     \/ \E id \in Ids : \E g : Written(id, g) /\ h = [home EXCEPT ![id] = g]
                  /\ \/ home' = h
                     \/ \E sec, due : Rewrite(h, sec, session', due)
<1> DEFINE Steps ==
       \E h : /\ \/ h = home
                 \/ \E id \in Ids : \E g : Written(id, g) /\ h = [home EXCEPT ![id] = g]
              /\ \/ home' = h
                 \/ \E sec, due : Rewrite(h, sec, session', due)
<1>1. ASSUME NEW id \in Ids, NEW g, Written(id, g), home' = [home EXCEPT ![id] = g]
      PROVE  Steps
  BY <1>1
<1>2. ASSUME home' = home PROVE Steps
  BY <1>2
<1>3. ASSUME NEW sec, NEW due, Rewrite(home, sec, session', due) PROVE Steps
  BY <1>3
<1>4. ASSUME NEW id \in Ids, NEW temporary \in {"true", "false", "absent"}, NEW stored,
             AddAccount(id, temporary, stored)
      PROVE  Steps
  <2> DEFINE g == AddedGroup(GroupOf(id), temporary)
             h == [home EXCEPT ![id] = g]
  <2>1. Written(id, g)
    BY DEF Written
  <2>2. \E sec, due : Rewrite(h, sec, session', due)
    BY <1>4, Zenon DEF AddAccount, Reload
  <2> HIDE DEF g
  <2>3. QED
    BY <2>1, <2>2
<1> HIDE DEF Steps
<1>5. ASSUME NEW id \in Ids, Remove(id) \/ EditHome(id) PROVE Steps
  <2>1. home' = [home EXCEPT ![id] = None]
    BY <1>5 DEF Remove, EditHome
  <2>2. QED
    BY <1>1, <2>1 DEF Written
<1>6. ASSUME NEW id \in Ids, WriteProperty(id) PROVE Steps
  <2>1. PICK matches \in BOOLEAN :
           /\ matches => HasGroup(home, id) /\ home[id].matches
           /\ home' = [home EXCEPT ![id] = [GroupOf(id) EXCEPT !.matches = matches]]
    BY <1>6 DEF WriteProperty
  <2>2. Written(id, [GroupOf(id) EXCEPT !.matches = matches])
    BY <2>1 DEF Written
  <2>3. QED
    BY <1>1, <2>1, <2>2
<1>7. ASSUME NEW id \in Ids, EditTemplate(id) PROVE Steps
  <2>1. CASE HasGroup(home, id)
    <3>1. PICK matches \in BOOLEAN :
             home' = [home EXCEPT ![id].matches = (matches /\ home[id].provider)]
      BY <1>7, <2>1 DEF EditTemplate
    <3> DEFINE m == matches /\ home[id].provider
               g == [GroupOf(id) EXCEPT !.matches = m]
    <3>2. home' = [home EXCEPT ![id] = g]
      BY <2>1, <3>1 DEF GroupOf
    <3>3. m \in BOOLEAN /\ (m => home[id].provider)
      OBVIOUS
    <3> HIDE DEF m
    <3>4. Written(id, g)
      BY <2>1, <3>3 DEF Written
    <3> HIDE DEF g
    <3>5. QED
      BY <1>1, <3>2, <3>4
  <2>2. CASE ~HasGroup(home, id)
    BY <1>2, <1>7, <2>2 DEF EditTemplate
  <2>3. QED
    BY <2>1, <2>2
<1>8. ASSUME NEW id \in Ids, NEW value \in BOOLEAN, WriteIsTemporary(id, value) PROVE Steps
  <2>1. Written(id, SessionIdWritten(id, value))
    BY DEF Written
  <2>2. home' = home \/ home' = [home EXCEPT ![id] = SessionIdWritten(id, value)]
    BY <1>8, Zenon DEF WriteIsTemporary
  <2>3. QED
    BY <1>1, <1>2, <2>1, <2>2
<1>9. ASSUME Killed PROVE Steps
  <2>1. ASSUME NEW id \in Ids, NEW temporary \in {"true", "false", "absent"},
               home' = [home EXCEPT ![id] = AddedGroup(GroupOf(id), temporary)]
        PROVE  Steps
    BY <1>1, <2>1 DEF Written
  <2>2. ASSUME NEW id \in Ids, home' = [home EXCEPT ![id] = None]
        PROVE  Steps
    BY <1>1, <2>2 DEF Written
  <2>3. ASSUME NEW id \in Ids, "kill" \in Failures,
               home' = [home EXCEPT ![id] = IsTemporaryWritten(id, ~exported[id].temporary)]
        PROVE  Steps
    <3>1. PICK value \in BOOLEAN : value = ~exported[id].temporary
      OBVIOUS
    <3>2. Written(id, IsTemporaryWritten(id, value))
      BY <2>3 DEF Written
    <3>3. QED
      BY <1>1, <2>3, <3>1, <3>2
  <2>4. QED
    BY <1>2, <1>9, <2>1, <2>2, <2>3 DEF Killed
<1>10. (DiskChanges \/ FileMonitorChanged \/ UNCHANGED vars) => home' = home
  BY DEF DiskChanges, FileMonitorChanged, vars, files
<1>11. \/ Restart \/ Login \/ SecondInstance \/ ReloadTimeout
       \/ \E id \in Ids : RemoveCompletes(id)
       => \E sec, due : Rewrite(home, sec, session', due)
  BY Zenon DEF Restart, Login, Start, SecondInstance, ReloadTimeout, RemoveCompletes, Reload
<1>12. Steps
  BY <1>2, <1>3, <1>4, <1>5, <1>6, <1>7, <1>8, <1>9, <1>10, <1>11
     DEF Next, Surroundings, MainLoop
<1>13. QED
  BY <1>12 DEF Steps

\* A group that a reload leaves is one it found, without the session if it is
\* not temporary, or an empty one, and perhaps the template copied over it.
LEMMA RewrittenGroup ==
    ASSUME NEW h \in Groups, NEW sec, NEW s, NEW due, Rewrite(h, sec, s, due),
           NEW id \in Ids, home'[id] # None
    PROVE  \E g \in Group :
              /\ \/ g = EmptyGroup
                 \/ h[id] # None /\ g = h[id]
                 \/ h[id] # None /\ ~h[id].temporary /\ g = [h[id] EXCEPT !.session = None]
              /\ home'[id] \in {g, CopyTemplate(g)}
<1> DEFINE read == ReadGroups(h, disk, s)
           kept == Enforced(read)
           file == WithTemplates(kept)
           Found(g) == \/ h[id] # None /\ g = h[id]
                       \/ h[id] # None /\ ~h[id].temporary /\ g = [h[id] EXCEPT !.session = None]
<1>1. home' \in {file, h}
  BY Zenon DEF Rewrite, kept, file, read
<1>2. read \in Groups
  BY ReadGroupsType
<1>3. read[id] # None => read[id] \in Group /\ Found(read[id])
  <2>1. read[id] \in {None, h[id], [h[id] EXCEPT !.session = None]}
    BY DEF ReadGroups
  <2>2. read[id] # None => h[id] # None
    BY DEF ReadGroups, HasGroup
  <2>3. read[id] # None => read[id] = h[id] \/ ~h[id].temporary
    BY DEF ReadGroups
  <2>4. read[id] # None => read[id] \in Group
    BY <1>2 DEF Groups
  <2> HIDE DEF read
  <2>5. QED
    BY <2>1, <2>2, <2>3, <2>4
<1> HIDE DEF read
<1>4. kept[id] \in {None, read[id], CopyTemplate(read[id])} /\ (kept[id] # None => read[id] # None)
  BY DEF Enforced, HasGroup
<1> HIDE DEF kept
<1>5. file[id] \in {kept[id], CopyTemplate(EmptyGroup)}
  BY DEF WithTemplates
<1> HIDE DEF file
<1>6. CASE home'[id] = h[id]
  <2>1. h[id] \in Group
    BY <1>6 DEF Groups
  <2>2. QED
    BY <1>6, <2>1
<1>7. CASE home'[id] = CopyTemplate(EmptyGroup)
  BY <1>7, EmptyGroupType
<1>8. CASE home'[id] = kept[id]
  <2>1. read[id] # None /\ home'[id] \in {read[id], CopyTemplate(read[id])}
    BY <1>4, <1>8
  <2>2. QED
    BY <1>3, <2>1
<1>9. QED
  BY <1>1, <1>5, <1>6, <1>7, <1>8

\* A group has the keys of the template only if it names a provider.
MatchesOK(h) == \A id \in Ids : HasGroup(h, id) /\ h[id].matches => h[id].provider

\* A temporary account names a session that has begun.
SessionsOK(h, s) == \A id \in Ids : HasGroup(h, id) /\ h[id].temporary => h[id].session \in 1..s

\* The copy of the template leaves the keys alone that templates do not have.
LEMMA CopiedKeys ==
    ASSUME NEW g \in Group
    PROVE  /\ CopyTemplate(g).temporary = g.temporary
           /\ CopyTemplate(g).session = g.session
           /\ (g.matches => g.provider) => CopyTemplate(g).provider
BY DEF CopyTemplate, Group

\* What a reload writes keeps both invariants.
LEMMA MatchesRewritten ==
    ASSUME NEW h \in Groups, NEW sec, NEW s, NEW due, Rewrite(h, sec, s, due), MatchesOK(h)
    PROVE  MatchesOK(home')
<1>1. SUFFICES ASSUME NEW id \in Ids, home'[id] # None
               PROVE  home'[id].matches => home'[id].provider
  BY DEF MatchesOK, HasGroup
<1>2. PICK g \in Group :
         /\ \/ g = EmptyGroup
            \/ h[id] # None /\ g = h[id]
            \/ h[id] # None /\ ~h[id].temporary /\ g = [h[id] EXCEPT !.session = None]
         /\ home'[id] \in {g, CopyTemplate(g)}
  BY <1>1, RewrittenGroup
<1>3. h[id] # None => h[id] \in Group /\ (h[id].matches => h[id].provider)
  BY DEF MatchesOK, HasGroup, Groups
<1>4. ASSUME NEW f \in Group
      PROVE  /\ [f EXCEPT !.session = None].matches = f.matches
             /\ [f EXCEPT !.session = None].provider = f.provider
  BY DEF Group
<1>5. g.matches => g.provider
  BY <1>2, <1>3, <1>4 DEF EmptyGroup
<1>6. QED
  BY <1>2, <1>5, CopiedKeys

LEMMA SessionsRewritten ==
    ASSUME NEW h \in Groups, NEW sec, NEW s, NEW due, Rewrite(h, sec, s, due),
           NEW n, SessionsOK(h, n)
    PROVE  SessionsOK(home', n)
<1>1. SUFFICES ASSUME NEW id \in Ids, home'[id] # None, home'[id].temporary
               PROVE  home'[id].session \in 1..n
  BY DEF SessionsOK, HasGroup
<1>2. PICK g \in Group :
         /\ \/ g = EmptyGroup
            \/ h[id] # None /\ g = h[id]
            \/ h[id] # None /\ ~h[id].temporary /\ g = [h[id] EXCEPT !.session = None]
         /\ home'[id] \in {g, CopyTemplate(g)}
  BY <1>1, RewrittenGroup
<1>3. h[id] # None => h[id] \in Group /\ (h[id].temporary => h[id].session \in 1..n)
  BY DEF SessionsOK, HasGroup, Groups
<1>4. ASSUME NEW f \in Group PROVE [f EXCEPT !.session = None].temporary = f.temporary
  BY DEF Group
<1>5. g.temporary => g.session \in 1..n
  BY <1>2, <1>3, <1>4 DEF EmptyGroup
<1>6. QED
  BY <1>1, <1>2, <1>5, CopiedKeys

\* And so does what is written otherwise, unless a kill came between the two
\* writes of notify_is_temporary_cb.
LEMMA WrittenKeys ==
    ASSUME ConfigTypeOK, NEW id \in Ids, NEW g, Written(id, g), g # None
    PROVE  /\ g \in Group
           /\ MatchesOK(home) => (g.matches => g.provider)
           /\ "kill" \notin Failures /\ SessionsOK(home, session)
                => (g.temporary => g.session \in 1..session)
<1> DEFINE f == GroupOf(id)
<1>1. f \in Group
  BY GroupOfType
<1>2. /\ MatchesOK(home) => (f.matches => f.provider)
      /\ SessionsOK(home, session) => (f.temporary => f.session \in 1..session)
      /\ HasGroup(home, id) => f = home[id]
  BY DEF GroupOf, EmptyGroup, MatchesOK, SessionsOK
<1>3. session \in 1..session
  BY SessionAssumption DEF ConfigTypeOK
<1>4. ASSUME NEW temporary \in {"true", "false", "absent"}, g = AddedGroup(f, temporary)
      PROVE  /\ g \in Group
             /\ ~g.matches
             /\ SessionsOK(home, session) => (g.temporary => g.session \in 1..session)
  <2>1. g \in Group
    BY <1>1, <1>4, AddedGroupType
  <2> HIDE DEF f
  <2>2. QED
    BY <1>1, <1>2, <1>3, <1>4, <2>1 DEF AddedGroup, Group
<1>5. ASSUME NEW matches \in BOOLEAN,
             matches => HasGroup(home, id) /\ (home[id].matches \/ home[id].provider),
             g = [f EXCEPT !.matches = matches]
      PROVE  /\ g \in Group
             /\ MatchesOK(home) => (g.matches => g.provider)
             /\ SessionsOK(home, session) => (g.temporary => g.session \in 1..session)
  <2>1. g \in Group
    BY <1>1, <1>5, SetKeyType
  <2> HIDE DEF f
  <2>2. /\ g.matches = matches /\ g.provider = f.provider /\ g.temporary = f.temporary
        /\ g.session = f.session
    BY <1>1, <1>5 DEF Group
  <2>3. QED
    BY <1>2, <1>5, <2>1, <2>2
<1>6. ASSUME NEW value \in BOOLEAN
      PROVE  LET w == IsTemporaryWritten(id, value)
             IN  /\ w \in Group
                 /\ w.matches = f.matches /\ w.provider = f.provider /\ w.temporary = value
  <2>1. IsTemporaryWritten(id, value) \in Group
    BY IsTemporaryWrittenType
  <2>2. QED
    BY <1>1, <2>1 DEF IsTemporaryWritten, Group
<1>7. ASSUME NEW value \in BOOLEAN, g = SessionIdWritten(id, value)
      PROVE  /\ g \in Group
             /\ MatchesOK(home) => (g.matches => g.provider)
             /\ g.temporary => g.session \in 1..session
  <2> DEFINE w == IsTemporaryWritten(id, value)
  <2>1. w \in Group /\ w.matches = f.matches /\ w.provider = f.provider /\ w.temporary = value
    BY <1>6
  <2>2. g \in Group
    BY <1>7, IsTemporaryWrittenType
  <2>3. g = [w EXCEPT !.session = IF value THEN session ELSE None]
    BY <1>7 DEF SessionIdWritten
  <2> HIDE DEF w, f
  <2>4. /\ g.matches = w.matches /\ g.provider = w.provider /\ g.temporary = w.temporary
        /\ g.session = IF value THEN session ELSE None
    BY <2>1, <2>3 DEF Group
  <2>5. QED
    BY <1>2, <1>3, <2>1, <2>2, <2>4
<1>8. CASE "kill" \in Failures /\ \E value \in BOOLEAN : g = IsTemporaryWritten(id, value)
  BY <1>2, <1>6, <1>8
<1>9. QED
  BY <1>4, <1>5, <1>7, <1>8 DEF Written

LEMMA MatchesStep ==
    ASSUME ConfigTypeOK, MatchesOK(home), [Next]_vars
    PROVE  MatchesOK(home')
<1>1. PICK h : /\ \/ h = home
                  \/ \E id \in Ids : \E g : Written(id, g) /\ h = [home EXCEPT ![id] = g]
               /\ \/ home' = h
                  \/ \E sec, due : Rewrite(h, sec, session', due)
  BY HomeSteps
<1>2. h \in Groups /\ MatchesOK(h)
  <2>1. CASE h = home
    BY <2>1 DEF ConfigTypeOK, Groups
  <2>2. ASSUME NEW id \in Ids, NEW g, Written(id, g), h = [home EXCEPT ![id] = g]
        PROVE  h \in Groups /\ MatchesOK(h)
    <3>1. g # None => g \in Group /\ (g.matches => g.provider)
      BY <2>2, WrittenKeys
    <3>2. QED
      BY <2>2, <3>1 DEF MatchesOK, HasGroup, ConfigTypeOK, Groups
  <2>3. QED
    BY <1>1, <2>1, <2>2
<1>3. CASE home' = h
  BY <1>2, <1>3
<1>4. ASSUME NEW sec, NEW due, Rewrite(h, sec, session', due) PROVE MatchesOK(home')
  BY <1>2, <1>4, MatchesRewritten
<1>5. QED
  BY <1>1, <1>3, <1>4

LEMMA SessionsStep ==
    ASSUME ConfigTypeOK, "kill" \notin Failures, SessionsOK(home, session), [Next]_vars
    PROVE  SessionsOK(home', session')
<1>1. PICK h : /\ \/ h = home
                  \/ \E id \in Ids : \E g : Written(id, g) /\ h = [home EXCEPT ![id] = g]
               /\ \/ home' = h
                  \/ \E sec, due : Rewrite(h, sec, session', due)
  BY HomeSteps
<1>2. h \in Groups /\ SessionsOK(h, session)
  <2>1. CASE h = home
    BY <2>1 DEF ConfigTypeOK, Groups
  <2>2. ASSUME NEW id \in Ids, NEW g, Written(id, g), h = [home EXCEPT ![id] = g]
        PROVE  h \in Groups /\ SessionsOK(h, session)
    <3>1. g # None => g \in Group /\ (g.temporary => g.session \in 1..session)
      BY <2>2, WrittenKeys
    <3>2. QED
      BY <2>2, <3>1 DEF SessionsOK, HasGroup, ConfigTypeOK, Groups
  <2>3. QED
    BY <1>1, <2>1, <2>2
<1>3. SessionsOK(home', session)
  <2>1. CASE home' = h
    BY <1>2, <2>1
  <2>2. ASSUME NEW sec, NEW due, Rewrite(h, sec, session', due)
        PROVE  SessionsOK(home', session)
    BY <1>2, <2>2, SessionsRewritten
  <2>3. QED
    BY <1>1, <2>1, <2>2
<1>4. 1..session \subseteq 1..session'
  <2>1. session \in Nat
    BY SessionAssumption DEF ConfigTypeOK
  <2>2. session' = session \/ session' = session + 1
    BY SessionSteps, Zenon DEF Login, Start
  <2>3. QED
    BY <2>1, <2>2
<1>5. QED
  BY <1>3, <1>4 DEF SessionsOK

-----------------------------------------------------------------------------
(* The template. *)

\* What a reload would write.
Rewritten == WithTemplates(Enforced(ReadGroups(home, disk, session)))

LEMMA RewrittenNext ==
    ASSUME UNCHANGED <<home, disk, template>>
    PROVE  Rewritten' = WithTemplates(Enforced(ReadGroups(home, disk, session')))
<1> DEFINE read == ReadGroups(home, disk, session')
           now == ReadGroups(home, disk, session)
<1>1. now' = read
  BY Zenon DEF ReadGroups, HasGroup, Stale
<1> HIDE DEF read, now
<1> DEFINE kept == Enforced(read)
           keptnow == Enforced(now)
<1>2. keptnow' = kept
  BY <1>1, Zenon DEF Enforced, HasGroup, CopyTemplate
<1> HIDE DEF kept, keptnow
<1>3. WithTemplates(keptnow)' = WithTemplates(kept)
  BY <1>2, Zenon DEF WithTemplates, HasGroup, CopyTemplate
<1>4. QED
  BY <1>3 DEF Rewritten, kept, keptnow, read, now

\* Once no reload is due, the file is as a reload would write it.
FileSettles == Settled => home = Rewritten

LEMMA FileSettlesStep ==
    ASSUME ConfigTypeOK, "disk" \notin Failures, disk = "ok", FileSettles, [Next]_vars
    PROVE  FileSettles'
<1>1. SUFFICES ASSUME Settled' PROVE home' = Rewritten'
  BY DEF FileSettles
<1>2. CASE Settled /\ FilesAlone
  <2>1. UNCHANGED <<home, disk, template, session>>
    BY <1>2 DEF FilesAlone
  <2>2. Rewritten' = WithTemplates(Enforced(ReadGroups(home, disk, session')))
    BY <2>1, RewrittenNext
  <2>3. QED
    BY <1>2, <2>1, <2>2 DEF FileSettles, Rewritten
<1>3. CASE Reloaded
  <2>1. UNCHANGED <<home, disk, template>>
    BY <1>3 DEF Reloaded
  <2>2. Rewritten' = WithTemplates(Enforced(ReadGroups(home, disk, session')))
    BY <2>1, RewrittenNext
  <2>3. QED
    BY <1>3, <2>1, <2>2 DEF Reloaded
<1>4. QED
  BY <1>1, <1>2, <1>3, QuietSteps

\* Such a file describes what the template provides and nothing that it bans.
LEMMA SettledIsEnforced ==
    ASSUME ConfigTypeOK, disk = "ok", MatchesOK(home), home = Rewritten, NEW id \in Ids
    PROVE  /\ template[id] = "account" => Described[id] # None
           /\ template[id] = "remove" => Described[id] = None /\ ~HasGroup(home, id)
<1> DEFINE read == ReadGroups(home, disk, session)
           kept == Enforced(read)
           file == WithTemplates(kept)
<1>1. home = file /\ Described = Exports(kept)
  BY DEF Rewritten, Described
<1>2. home \in Groups /\ read \in Groups /\ kept \in Groups
  BY ReadGroupsType, EnforcedType DEF ConfigTypeOK, Groups
<1>3. /\ home[id] # None /\ ~home[id].temporary => read[id] # None
      /\ read[id] # None =>
            home[id] # None /\ read[id] \in {home[id], [home[id] EXCEPT !.session = None]}
  <2>1. home[id] # None => home[id] \in Group /\ [home[id] EXCEPT !.session = None] \in Group
    BY <1>2, SMT DEF Groups, Group
  <2>2. home[id] # None => [home[id] EXCEPT !.session = None] # None
    BY <2>1, NoneIsNoRecord
  <2>3. QED
    BY <2>2 DEF ReadGroups, HasGroup, Stale
<1> HIDE DEF read
<1>4. CASE template[id] = "remove"
  <2>1. kept[id] = None
    BY <1>4 DEF Enforced
  <2>2. Exports(kept)[id] = None
    <3> HIDE DEF kept
    <3> QED  BY <2>1 DEF Exports, HasGroup
  <2>3. file[id] = None
    <3> HIDE DEF kept
    <3> QED  BY <1>4, <2>1 DEF WithTemplates
  <2>4. QED
    BY <1>1, <1>4, <2>2, <2>3 DEF HasGroup
<1>5. CASE template[id] = "account"
  <2>1. kept[id] = IF read[id] # None THEN CopyTemplate(read[id]) ELSE None
    BY <1>5 DEF Enforced, HasGroup
  <2>2. read[id] # None => CopyTemplate(read[id]) \in Group
    BY <1>2, CopyTemplateType DEF Groups
  <2>3. read[id] # None
    <3>1. SUFFICES ASSUME read[id] = None PROVE FALSE
      OBVIOUS
    <3>2. kept[id] = None
      BY <2>1, <3>1
    <3> HIDE DEF kept
    <3>3. file[id] = CopyTemplate(EmptyGroup)
      BY <1>5, <3>2 DEF WithTemplates, HasGroup
    <3>4. CopyTemplate(EmptyGroup) # None /\ ~CopyTemplate(EmptyGroup).temporary
      <4>1. CopyTemplate(EmptyGroup) \in Group
        BY CopyTemplateType, EmptyGroupType
      <4>2. CopyTemplate(EmptyGroup).temporary = EmptyGroup.temporary
        BY CopiedKeys, EmptyGroupType
      <4>3. QED
        BY <4>1, <4>2, NoneIsNoRecord DEF EmptyGroup
    <3>5. QED
      BY <1>1, <1>3, <3>1, <3>3, <3>4
  <2>4. read[id].matches => read[id].provider
    <3>1. home[id] \in Group /\ (home[id].matches => home[id].provider)
      BY <1>2, <1>3, <2>3 DEF Groups, MatchesOK, HasGroup
    <3>2. /\ [home[id] EXCEPT !.session = None].matches = home[id].matches
          /\ [home[id] EXCEPT !.session = None].provider = home[id].provider
      BY <3>1 DEF Group
    <3>3. QED
      BY <1>3, <2>3, <3>1, <3>2
  <2>5. CopyTemplate(read[id]).provider
    BY <1>2, <2>3, <2>4, CopiedKeys DEF Groups
  <2>6. kept[id] \in Group /\ kept[id].provider
    BY <2>1, <2>2, <2>3, <2>5
  <2> HIDE DEF kept
  <2>7. [temporary |-> kept[id].temporary, locked |-> kept[id].locked] \in Account
    BY <2>6 DEF Account, Group
  <2>8. Exports(kept)[id] # None
    BY <2>6, <2>7, NoneIsNoRecord DEF Exports, HasGroup
  <2>9. QED
    BY <1>1, <1>5, <2>8, NoneIsNothing
<1>6. QED
  BY <1>4, <1>5

\* As long as the disk does not fail: once no reload is due, an account that the
\* template provides is on the bus and one that it bans is not, although the
\* reload that first reads a template exports nothing from it.
THEOREM TemplatesHold == "disk" \notin Failures => (Spec => []TemplateEnforced)
<1> SUFFICES ASSUME "disk" \notin Failures PROVE Spec => []TemplateEnforced
  OBVIOUS
<1> DEFINE Inv == Readable /\ MatchesOK(home) /\ FileSettles
<1>1. Init => Inv
  BY ReadableInit DEF Init, MatchesOK, HasGroup, NoGroups, FileSettles, Settled
<1>2. ASSUME ConfigTypeOK, Inv, [Next]_vars
      PROVE  Inv'
  <2>1. disk = "ok"
    BY <1>2 DEF Readable
  <2>2. Readable' /\ FileSettles'
    BY <1>2, <2>1, ReadableStep, FileSettlesStep
  <2>3. MatchesOK(home')
    BY <1>2, MatchesStep
  <2>4. MatchesOK(home)'
    BY <2>3 DEF MatchesOK, HasGroup
  <2>5. QED
    BY <2>2, <2>4
<1>3. ASSUME ConfigTypeOK, Inv, BusFollowsFiles
      PROVE  TemplateEnforced
  <2>1. SUFFICES ASSUME Settled, NEW id \in Ids
                 PROVE  /\ template[id] = "account" => OnBus(id)
                        /\ template[id] = "remove" => ~OnBus(id) /\ ~HasGroup(home, id)
    BY DEF TemplateEnforced
  <2>2. disk = "ok" /\ home = Rewritten
    BY <1>3, <2>1 DEF Readable, FileSettles
  <2>3. OnBus(id) <=> Described[id] # None
    BY <1>3, <2>1, BusFollowsFilesIs DEF Follows
  <2>4. QED
    BY <1>3, <2>2, <2>3, SettledIsEnforced
<1> HIDE DEF Inv
<1>4. QED
  BY <1>1, <1>2, <1>3, ConfigTypeCorrect, BusFollows, PTL DEF Spec

-----------------------------------------------------------------------------
(* Temporary accounts. *)

LEMMA SessionsInit == Init => SessionsOK(home, session)
BY DEF Init, SessionsOK, HasGroup, NoGroups

\* An account of the file that is temporary is stale in the next session.
LEMMA StaleAfterLogin ==
    ASSUME ConfigTypeOK, SessionsOK(home, session), NEW id \in Ids,
           HasGroup(home, id), home[id].temporary
    PROVE  Stale(home[id], session + 1)
<1>1. session \in Nat
  BY SessionAssumption DEF ConfigTypeOK
<1>2. home[id].session \in 1..session
  BY DEF SessionsOK
<1>3. home[id].session \in 1..MaxSession
  BY <1>1, <1>2, SessionAssumption DEF ConfigTypeOK
<1>4. home[id].session # None
  BY <1>3, NoneIsNothing
<1>5. home[id].session # session + 1
  BY <1>1, <1>2
<1>6. QED
  BY <1>4, <1>5 DEF Stale

\* The bus shows exactly what the file describes.
BusSettles == Settled => exported = Described

LEMMA BusSettlesStep ==
    ASSUME ConfigTypeOK, Ticketing = Ids, "disk" \notin Failures, disk = "ok",
           BusSettles, [Next]_vars
    PROVE  BusSettles'
<1>1. SUFFICES ASSUME Settled' PROVE exported' = Described'
  BY DEF BusSettles
<1>2. CASE Settled /\ FilesAlone /\ BusAlone
  <2>1. Described' = Described
    BY <1>2, DescribedUnchanged DEF FilesAlone
  <2>2. exported' = exported
    BY <1>2 DEF BusAlone
  <2>3. QED
    BY <1>2, <2>1, <2>2 DEF BusSettles
<1>3. CASE Reloaded
  BY <1>3 DEF Reloaded
<1>4. QED
  BY <1>1, <1>2, <1>3, QuietSteps

\* A temporary account on the bus, unless the template provides it, is one of
\* the file.
LEMMA TemporaryDescribed ==
    ASSUME ConfigTypeOK, NEW id \in Ids, template[id] # "account",
           Described[id] # None, Described[id].temporary
    PROVE  HasGroup(home, id) /\ home[id].temporary
<1> DEFINE read == ReadGroups(home, disk, session)
           kept == Enforced(read)
<1>1. Described = Exports(kept)
  BY DEF Described
<1>2. kept[id] \in {None, read[id]}
  BY DEF Enforced
<1>3. kept[id] # None /\ kept[id].temporary
  <2> HIDE DEF kept
  <2>1. Exports(kept)[id] # None /\ Exports(kept)[id].temporary
    BY <1>1
  <2>2. QED
    BY <2>1 DEF Exports, HasGroup
<1> HIDE DEF kept
<1>4. read[id] # None /\ read[id].temporary
  BY <1>2, <1>3
<1>5. home[id] # None /\ read[id] \in {home[id], [home[id] EXCEPT !.session = None]}
  BY <1>4 DEF ReadGroups, HasGroup
<1>6. home[id] \in Group
  BY <1>5 DEF ConfigTypeOK
<1>7. [home[id] EXCEPT !.session = None].temporary = home[id].temporary
  BY <1>6 DEF Group
<1>8. QED
  BY <1>4, <1>5, <1>7 DEF HasGroup

\* A reload exports no account whose group is stale.
LEMMA StaleIsDropped ==
    ASSUME NEW h, NEW sec, NEW s, NEW due, Reload(h, sec, s, due),
           NEW id \in Ids, Stale(h[id], s)
    PROVE  exported'[id] = None
<1> DEFINE read == ReadGroups(h, disk, s)
           kept == Enforced(read)
<1>1. read[id] = None
  BY DEF ReadGroups
<1> HIDE DEF read
<1>2. kept[id] = None
  BY <1>1 DEF Enforced, HasGroup
<1> HIDE DEF kept
<1>3. exported' = Exports(kept)
  BY Zenon DEF Reload, kept, read
<1>4. QED
  BY <1>2, <1>3 DEF Exports, HasGroup

\* If every account stores IsTemporary, the disk does not fail and nothing
\* kills the daemon between two writes: an account that is temporary on the bus
\* is not there in the next session, unless the template provides it.
THEOREM TemporaryEnds ==
    Ticketing = Ids /\ Failures \subseteq {"keyring"} => (Spec => TemporaryEndsAtLogout)
<1> SUFFICES ASSUME Ticketing = Ids, Failures \subseteq {"keyring"}
             PROVE  Spec => TemporaryEndsAtLogout
  OBVIOUS
<1>1. "disk" \notin Failures /\ "kill" \notin Failures
  OBVIOUS
<1> DEFINE Inv == Readable /\ SessionsOK(home, session) /\ BusSettles
<1>2. Init => Inv
  BY ReadableInit, SessionsInit DEF Init, BusSettles, Settled
<1>3. ASSUME ConfigTypeOK, Inv, [Next]_vars
      PROVE  Inv'
  <2>1. disk = "ok"
    BY <1>1, <1>3 DEF Readable
  <2>2. Readable' /\ BusSettles' /\ SessionsOK(home', session')
    BY <1>1, <1>3, <2>1, ReadableStep, BusSettlesStep, SessionsStep
  <2>3. SessionsOK(home, session)'
    BY <2>2 DEF SessionsOK, HasGroup
  <2>4. QED
    BY <2>2, <2>3
<1> DEFINE Ends == \A id \in Ids : (/\ session' # session /\ Settled
                                    /\ OnBus(id) /\ exported[id].temporary
                                    /\ template[id] # "account") => exported'[id] = None
<1>4. ASSUME ConfigTypeOK, Inv, [Next]_vars
      PROVE  Ends
  <2>1. SUFFICES ASSUME NEW id \in Ids, session' # session, Settled, OnBus(id),
                        exported[id].temporary, template[id] # "account"
                 PROVE  exported'[id] = None
    OBVIOUS
  <2>2. HasGroup(home, id) /\ home[id].temporary
    BY <1>4, <2>1, TemporaryDescribed DEF BusSettles, OnBus
  <2>3. Stale(home[id], session + 1)
    BY <1>4, <2>2, StaleAfterLogin
  <2>4. PICK due : Reload(home, secrets, session + 1, due)
    BY <1>4, <2>1, SessionSteps, Zenon DEF Login, Start
  <2>5. QED
    BY <2>3, <2>4, StaleIsDropped
<1> HIDE DEF Inv
<1>5. QED
  BY <1>2, <1>3, <1>4, ConfigTypeCorrect, PTL DEF Spec, TemporaryEndsAtLogout

\* A reload that the keyring obeys clears the credentials of stale accounts.
LEMMA StaleIsCleared ==
    ASSUME "keyring" \notin Failures, NEW h, NEW sec, NEW s, NEW due, Rewrite(h, sec, s, due),
           NEW id \in Ids, disk # "broken", HasGroup(h, id), Stale(h[id], s), h[id].provider
    PROVE  id \notin secrets'
<1> DEFINE stale == {i \in Ids : /\ disk # "broken" /\ HasGroup(h, i)
                                 /\ Stale(h[i], s) /\ h[i].provider}
<1>1. secrets' \in Cleared(sec, stale)
  BY Zenon DEF Rewrite, stale
<1>2. id \in stale
  OBVIOUS
<1> HIDE DEF stale
<1>3. QED
  BY <1>1, <1>2 DEF Cleared

\* Without a template a reload takes only stale groups out of the file.
LEMMA OnlyStaleIsDropped ==
    ASSUME ConfigTypeOK, TemplateKinds = {}, NEW sec, NEW s, NEW due, Rewrite(home, sec, s, due),
           NEW id \in Ids, HasGroup(home, id), ~HasGroup(home', id)
    PROVE  disk # "broken" /\ Stale(home[id], s)
<1> DEFINE read == ReadGroups(home, disk, s)
           kept == Enforced(read)
           file == WithTemplates(kept)
<1>1. disk # "broken"
  <2>1. disk = "broken" => disk' = "broken"
    BY RewriteSpares
  <2>2. disk = "broken" /\ disk' = "broken" => home' = home
    BY Zenon DEF Rewrite
  <2>3. QED
    BY <2>1, <2>2
<1>2. template \in [Ids -> {None}]
  BY DEF ConfigTypeOK
<1>3. template[id] # "account" /\ template[id] # "remove"
  BY <1>2, NoneIsNothing
<1>4. read[id] # None \/ Stale(home[id], s)
  <2>1. home[id] \in Group
    BY DEF ConfigTypeOK, HasGroup
  <2>2. [home[id] EXCEPT !.session = None] \in Group
    BY <2>1, SMT DEF Group
  <2>3. QED
    BY <1>1, <2>1, <2>2, NoneIsNoRecord DEF ReadGroups
<1> HIDE DEF read
<1>5. kept[id] = read[id]
  BY <1>3 DEF Enforced
<1> HIDE DEF kept
<1>6. file[id] = kept[id]
  BY <1>3 DEF WithTemplates
<1> HIDE DEF file
<1>7. home' \in {file, home}
  BY Zenon DEF Rewrite, kept, file, read
<1>8. QED
  BY <1>1, <1>4, <1>5, <1>6, <1>7 DEF HasGroup

\* If the keyring does not fail, and neither does anything else where a
\* template may take accounts away: a session starts with no credentials of
\* temporary accounts that ended with the last.
THEOREM SecretsCleared ==
    "keyring" \notin Failures /\ (TemplateKinds = {} \/ Failures = {})
        => (Spec => TemporarySecretsCleared)
<1> SUFFICES ASSUME "keyring" \notin Failures, TemplateKinds = {} \/ Failures = {}
             PROVE  Spec => TemporarySecretsCleared
  OBVIOUS
<1> DEFINE Inv == Readable /\ (Failures = {} => SessionsOK(home, session))
<1>1. Init => Inv
  BY ReadableInit, SessionsInit
<1>2. ASSUME ConfigTypeOK, Inv, [Next]_vars
      PROVE  Inv'
  <2>1. Readable'
    BY <1>2, ReadableStep
  <2>2. ASSUME Failures = {} PROVE SessionsOK(home, session)'
    <3>1. SessionsOK(home', session')
      BY <1>2, <2>2, SessionsStep
    <3>2. QED
      BY <3>1 DEF SessionsOK, HasGroup
  <2>3. QED
    BY <2>1, <2>2
<1> DEFINE Clears == \A id \in Ids :
        (session' # session /\ HasGroup(home, id) /\ ~HasGroup(home', id)
         /\ home[id].temporary /\ home[id].provider) => id \notin secrets'
<1>3. ASSUME ConfigTypeOK, Inv, [Next]_vars
      PROVE  Clears
  <2>1. SUFFICES ASSUME NEW id \in Ids, session' # session, HasGroup(home, id),
                        ~HasGroup(home', id), home[id].temporary, home[id].provider
                 PROVE  id \notin secrets'
    OBVIOUS
  <2>2. PICK due : Rewrite(home, secrets, session + 1, due)
    BY <1>3, <2>1, SessionSteps, Zenon DEF Login, Start, Reload
  <2>3. disk # "broken" /\ Stale(home[id], session + 1)
    <3>1. CASE TemplateKinds = {}
      BY <1>3, <2>1, <2>2, <3>1, OnlyStaleIsDropped
    <3>2. CASE Failures = {}
      BY <1>3, <2>1, <3>2, StaleAfterLogin DEF Readable
    <3>3. QED
      BY <3>1, <3>2
  <2>4. QED
    BY <2>1, <2>2, <2>3, StaleIsCleared
<1> HIDE DEF Inv
<1>4. QED
  BY <1>1, <1>2, <1>3, ConfigTypeCorrect, PTL DEF Spec, TemporarySecretsCleared
=============================================================================
