-------------------------- MODULE IdentityLifetime --------------------------
(***************************************************************************)
(* A GoaKerberosIdentity and its alarms: the pool thread reads its         *)
(* credential caches, records the times of the ticket it finds best and    *)
(* arms alarms for them, which fire in the main loop while the clock goes  *)
(* on, or is set.                                                          *)
(*                                                                         *)
(* A unit of time is longer than the ten seconds after which an alarm that *)
(* polls looks at the clock.  The identity is one that a refresh finds;    *)
(* what the main loop and the thread do for other identities is left out.  *)
(* A cache without a principal is one that cannot be read.                 *)
(***************************************************************************)
EXTENDS Integers, FiniteSets

CONSTANTS
    Names,       \* credential caches of the identity's principal
    Tickets,     \* [start, end, renewable]
    NoCache, Broken, None,
    MaxTime,     \* bound: the time at which the clock stops
    MaxChanges   \* bound: how often caches change or the clock is set

ASSUME BoundsAssumption == MaxTime \in Nat /\ MaxChanges \in Nat
ASSUME TicketsAssumption ==
    Tickets \subseteq [start : 0 .. MaxTime, end : 0 .. MaxTime, renewable : BOOLEAN]

\* None is neither a time, nor an alarm, nor what an alarm has seen.
ASSUME NoneAssumption ==
    /\ None \notin Int /\ None \notin {"past", "before"}
    /\ None \notin [time : Int, armed : BOOLEAN, before : {None, "past", "before"},
                    ready : BOOLEAN, heard : BOOLEAN]

VARIABLES
    now,
    polling,   \* there is no timerfd
    caches,    \* per name: a ticket, NoCache, or Broken while it cannot be read
    own,       \* credentials_caches
    active,    \* active_credentials_cache_name
    times,     \* the ticket whose times are recorded
    level,     \* cached_verification_level, ABSENT without an identity
    watched,   \* the manager has connected to the signals of the identity
    alarms,    \* per kind: the alarm, or None
    refresh,   \* a refresh of all identities is due
    thread,    \* what the thread is at, and the level it has found
    asked,     \* the kinds whose alarm has been announced
    lost,      \* history: the kinds whose alarm will not be announced
    changes    \* history

vars == <<now, polling, caches, own, active, times, level, watched, alarms, refresh, thread,
          asked, lost, changes>>

Kinds == {"renewal", "expiring", "expiration"}

\* VerificationLevel.
ABSENT == -2
ERROR == -1
UNVERIFIED == 0
EXISTS == 1
SIGNED_IN == 2

NoAlarms == [k \in Kinds |-> None]
Idle == [at |-> "idle", found |-> UNVERIFIED, fresh |-> FALSE, known |-> FALSE]

Init ==
    /\ now = 0 /\ polling \in BOOLEAN
    /\ caches \in [Names -> Tickets \cup {NoCache}]
    /\ own = {} /\ active = None /\ times = None /\ level = ABSENT
    /\ watched = FALSE
    /\ alarms = NoAlarms
    /\ refresh = TRUE /\ thread = Idle
    /\ asked = {} /\ lost = {} /\ changes = 0

-----------------------------------------------------------------------------
(* Reading the caches. *)

Holds(n) == caches[n] \in Tickets

\* verify_identity_in_credentials_cache, examine_credentials.
Read(n) ==
    IF caches[n] = Broken THEN ERROR
    ELSE IF caches[n] = NoCache THEN UNVERIFIED
    ELSE IF caches[n].start <= now /\ now < caches[n].end THEN SIGNED_IN ELSE EXISTS

\* Whether verify_identity prefers the credentials of n to those of m that it
\* read before.  Of two that expire together it takes the one that started
\* first, or else lasts longer when renewed.
Better(n, m) ==
    \/ Read(n) > Read(m)
    \/ /\ Read(n) = Read(m)
       /\ \/ caches[n].end > caches[m].end
          \/ /\ caches[n].end = caches[m].end
             /\ \/ caches[n].start < caches[m].start
                \/ caches[n].renewable /\ ~caches[m].renewable

Candidates == {n \in own : Read(n) >= EXISTS}

\* The active cache stays while it is signed in; it is compared first.  The
\* order of the others is that of a hash table.
Best ==
    IF active # None /\ Read(active) = SIGNED_IN THEN {active}
    ELSE {n \in Candidates : \A m \in Candidates \ {n} :
             IF m = active THEN Better(n, m)
             ELSE IF n = active THEN ~Better(m, n)
             ELSE Better(n, m) \/ ~Better(m, n)}

\* The level without a candidate.
LevelOfNone == IF active = None THEN UNVERIFIED ELSE Read(active)

-----------------------------------------------------------------------------
(* Alarms. *)

\* Ten minutes, the time in which users can sign in anew, are one unit.
\* No renewal is tried for a ticket that cannot be renewed.
AlarmTime(k, t) ==
    CASE k = "expiration" -> t.end
      [] k = "expiring" -> t.end - 1
      [] k = "renewal" -> IF t.renewable THEN t.start + (t.end - t.start) \div 2 ELSE None

\* goa_alarm_new: a timer that expires the second after, and a look at once.
NewAlarm(time) ==
    [time |-> time, armed |-> now <= time, before |-> None, ready |-> TRUE, heard |-> FALSE]

\* Mutant: an alarm there is stays, whatever its time.
ResetAlarm_Kept(k, t) ==
    IF AlarmTime(k, t) = None THEN None
    ELSE IF alarms[k] # None THEN [alarms[k] EXCEPT !.heard = FALSE]
    ELSE NewAlarm(AlarmTime(k, t))

\* reset_alarm.
ResetAlarm(k, t) ==
    IF AlarmTime(k, t) = None THEN None
    ELSE IF alarms[k] # None /\ alarms[k].time = AlarmTime(k, t)
    THEN [alarms[k] EXCEPT !.heard = FALSE]
    ELSE NewAlarm(AlarmTime(k, t))

Heard(b) == [k \in Kinds |-> IF alarms[k] = None THEN None ELSE [alarms[k] EXCEPT !.heard = b]]

\* Mutant: an alarm that polls is not scheduled again after its first look.
AlarmsAt_Once(t, set) ==
    [k \in Kinds |->
        IF alarms[k] = None THEN None
        ELSE [alarms[k] EXCEPT
                !.armed = @ /\ t <= alarms[k].time,
                !.ready = @ \/ set \/ (~polling /\ alarms[k].armed /\ t > alarms[k].time)]]

\* The alarms when the clock becomes t.  An alarm that polls looks at it; a
\* timer that expires is spent, and it is ready as well when the clock is set.
AlarmsAt(t, set) ==
    [k \in Kinds |->
        IF alarms[k] = None THEN None
        ELSE [alarms[k] EXCEPT
                !.armed = @ /\ t <= alarms[k].time,
                !.ready = @ \/ set \/ polling \/ (alarms[k].armed /\ t > alarms[k].time)]]

-----------------------------------------------------------------------------
(* The thread. *)

\* goa_kerberos_identity_new for the first cache the cursor comes across.  The
\* others are imported afterwards.
Create(n) ==
    /\ refresh /\ thread.at = "idle" /\ level = ABSENT
    /\ Holds(n)
    /\ own' = {n} /\ active' = n /\ level' = UNVERIFIED
    /\ thread' = [Idle EXCEPT !.at = "verify", !.fresh = TRUE, !.known = TRUE]
    /\ UNCHANGED <<now, polling, caches, times, watched, alarms, refresh, asked, lost, changes>>

\* import_credentials_cache of every cache that can be read.
Import ==
    /\ refresh /\ refresh' = FALSE
    /\ thread.at = "idle"
    /\ LET readable == {n \in Names : Holds(n)} IN
       \/ /\ level = ABSENT /\ readable = {}
          /\ UNCHANGED <<own, active, thread>>
       \/ /\ level # ABSENT
          /\ own' = own \cup readable
          /\ active' \in IF active # None \/ readable \subseteq own THEN {active}
                         ELSE readable \ own
          /\ thread' = [Idle EXCEPT !.at = "verify", !.known = readable # {}]
    /\ UNCHANGED <<now, polling, caches, times, level, watched, alarms, asked, lost, changes>>

\* verify_identity up to what it does to the alarms.  Alarms stay as they are
\* when times do; a ticket that is not valid now has none, unless the identity
\* is a new one.
Verify ==
    /\ thread.at = "verify"
    /\ IF Best = {}
       THEN /\ own' = {} /\ active' = None
            /\ thread' = [thread EXCEPT !.at = "level", !.found = LevelOfNone]
            /\ alarms' = NoAlarms
            /\ UNCHANGED <<times, lost>>
       ELSE \E best \in Best :
            LET ticket == caches[best]
                found == Read(best)
                changed == ticket # times
            IN
            /\ own' = IF best = active /\ found = SIGNED_IN THEN own ELSE Candidates
            /\ active' = best /\ times' = ticket
            /\ alarms' = IF ~changed THEN alarms
                         ELSE IF found = SIGNED_IN THEN Heard(FALSE) ELSE NoAlarms
            /\ thread' = [thread EXCEPT !.found = found,
                             !.at = IF changed /\ found = SIGNED_IN THEN "disconnected"
                                                                    ELSE "level"]
            /\ lost' = IF ~changed /\ found = SIGNED_IN /\ alarms = NoAlarms THEN Kinds ELSE lost
    /\ UNCHANGED <<now, polling, caches, level, watched, refresh, asked, changes>>

\* reset_alarms, between its first call and its last one.
ResetAlarms ==
    /\ thread.at = "disconnected" /\ thread' = [thread EXCEPT !.at = "reset"]
    /\ alarms' = [k \in Kinds |-> ResetAlarm(k, times)]
    /\ LET replaced == {k \in Kinds : alarms'[k] = None
                            \/ alarms[k] = None \/ alarms'[k].time # alarms[k].time}
       IN  asked' = asked \ replaced /\ lost' = lost \ replaced
    /\ UNCHANGED <<now, polling, caches, own, active, times, level, watched, refresh, changes>>

ConnectAlarms ==
    /\ thread.at = "reset" /\ thread' = [thread EXCEPT !.at = "level"]
    /\ alarms' = Heard(TRUE)
    /\ UNCHANGED <<now, polling, caches, own, active, times, level, watched, refresh, asked, lost,
                   changes>>

\* The rest of verify_identity: the level, and "unexpired", for which the
\* manager refreshes; which cache is the default one is left out.
\* initable_init resets the alarms again, or fails; drop_stale_identities drops
\* an identity that no cache was found of; add_identity announces a new one and
\* waits.
SetLevel ==
    LET found == thread.found
        reset == thread.fresh /\ found >= EXISTS
    IN
    /\ thread.at = "level"
    /\ refresh' = (refresh \/ (watched /\ level = EXISTS /\ found = SIGNED_IN))
    /\ IF thread.known /\ ~(thread.fresh /\ found = ERROR)
       THEN /\ level' = found
            /\ alarms' = IF reset THEN Heard(FALSE) ELSE alarms
            /\ thread' = IF reset THEN [thread EXCEPT !.at = "disconnected", !.fresh = FALSE]
                         ELSE IF watched THEN Idle ELSE [thread EXCEPT !.at = "adding"]
            /\ UNCHANGED <<own, active, times, watched>>
       ELSE /\ level' = ABSENT /\ alarms' = NoAlarms /\ thread' = Idle
            /\ own' = {} /\ active' = None /\ times' = None /\ watched' = FALSE
    /\ UNCHANGED <<now, polling, caches, asked, lost, changes>>

-----------------------------------------------------------------------------
(* The main loop. *)

\* do_identity_signal_added_work, watch_for_identity_expiration.
Watch ==
    /\ thread.at = "adding" /\ thread' = Idle
    /\ watched' = TRUE
    /\ UNCHANGED <<now, polling, caches, own, active, times, level, alarms, refresh, asked, lost,
                   changes>>

\* fire_or_rearm_alarm, the handlers of "fired" and "rearmed", and those of the
\* signals that these emit, if the manager is there to hear them.  A timer that
\* has expired is not set again.  When nobody hears of the expiration of an
\* identity that is not watched yet, nothing is lost: a refresh is due.
WakeUp(k) ==
    LET a == alarms[k]
        past == a.time <= now
        fires == past /\ a.before # "past"
        rearms == ~past /\ a.before = "past"
        announced == fires /\ a.heard /\ watched /\ (k = "expiration" \/ level = SIGNED_IN)
        missed == fires /\ ~announced /\ (k = "expiration" => watched)
    IN
    /\ a # None /\ a.ready
    /\ alarms' = [alarms EXCEPT ![k].ready = FALSE,
                                ![k].before = IF past THEN "past" ELSE "before"]
    /\ refresh' = (refresh \/ (k = "expiration" /\ a.heard /\ watched /\ (fires \/ rearms)))
    /\ asked' = IF announced THEN asked \cup {k} ELSE asked
    /\ lost' = IF missed \/ (rearms /\ ~a.armed /\ ~polling) THEN lost \cup {k} ELSE lost
    /\ UNCHANGED <<now, polling, caches, own, active, times, level, watched, thread, changes>>

-----------------------------------------------------------------------------
(* The clock and the caches. *)

LoopIdle == \A k \in Kinds : alarms[k] # None => ~alarms[k].ready

\* Alarms that are ready do not wait for a unit of time, nor until the clock is
\* set.
Tick ==
    /\ LoopIdle
    /\ now < MaxTime /\ now' = now + 1
    /\ alarms' = AlarmsAt(now + 1, FALSE)
    /\ UNCHANGED <<polling, caches, own, active, times, level, watched, refresh, thread, asked,
                   lost, changes>>

ClockSet ==
    /\ LoopIdle
    /\ changes < MaxChanges /\ changes' = changes + 1
    /\ \E t \in 0 .. MaxTime : t # now /\ now' = t /\ alarms' = AlarmsAt(t, TRUE)
    /\ UNCHANGED <<polling, caches, own, active, times, level, watched, refresh, thread, asked,
                   lost>>

\* kinit, kdestroy, and the renewals and sign-ins of the service itself; the
\* monitor notices.
CacheChanges(n) ==
    /\ changes < MaxChanges /\ changes' = changes + 1
    /\ \E c \in (Tickets \cup {NoCache, Broken}) \ {caches[n]} :
          caches' = [caches EXCEPT ![n] = c]
    /\ refresh' = TRUE
    /\ UNCHANGED <<now, polling, own, active, times, level, watched, alarms, thread, asked, lost>>

-----------------------------------------------------------------------------

Thread == (\E n \in Names : Create(n)) \/ Import \/ Verify \/ ResetAlarms \/ ConnectAlarms
          \/ SetLevel

MainLoop == Watch \/ \E k \in Kinds : WakeUp(k)

Outside == Tick \/ ClockSet \/ \E n \in Names : CacheChanges(n)

Next == Thread \/ MainLoop \/ Outside

Spec == Init /\ [][Next]_vars

-----------------------------------------------------------------------------
(* Properties. *)

AtRest == thread.at = "idle" /\ ~refresh /\ LoopIdle

\* At rest nobody is taken for signed in whose ticket has run out, however
\* tickets were replaced and the clock was set, while the alarm was not lost:
\* it is when it goes off while the thread has its signals disconnected, when
\* the clock is set back after its timer has expired, which is not set again, and when a ticket is
\* found valid whose times were recorded before, as its alarms were cleared.
ExpiryNoticed ==
    AtRest /\ level = SIGNED_IN /\ "expiration" \notin lost => now <= times.end

\* At rest, the users and the service have heard of every ticket that runs out
\* soon and that should be renewed, while the alarm was not lost: here it is
\* also when it goes off before the thread has set the level, and before the
\* manager has connected to the signals of a new identity.
RenewalAnnounced ==
    AtRest /\ level = SIGNED_IN =>
        \A k \in {"renewal", "expiring"} \ lost :
            AlarmTime(k, times) # None /\ now > AlarmTime(k, times) => k \in asked
=============================================================================
