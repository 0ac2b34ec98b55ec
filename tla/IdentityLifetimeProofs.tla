----------------------- MODULE IdentityLifetimeProofs -----------------------
(***************************************************************************)
(* What holds of the alarms of an identity for any caches, tickets and     *)
(* times: a ticket that runs out is noticed, and the alarms of users and   *)
(* of the service are announced, unless the alarm is among the lost ones.  *)
(*                                                                         *)
(* The argument follows one alarm through a reset.  Between the two calls  *)
(* that disconnect and connect its signals it may go off unheard, which    *)
(* makes it a lost one; otherwise it has either not looked at the clock    *)
(* since the clock changed, or what it saw last is still true.  The alarms *)
(* of an identity that the manager does not listen to yet may go off       *)
(* unheard too, but while it does not, a refresh is due.                   *)
(***************************************************************************)
EXTENDS IdentityLifetime, TLAPS

-----------------------------------------------------------------------------
(* The inductive invariant. *)

Alarms == [time : Int, armed : BOOLEAN, before : {None, "past", "before"},
           ready : BOOLEAN, heard : BOOLEAN]

\* What the thread may find.
Levels == {ERROR, UNVERIFIED, EXISTS, SIGNED_IN}

Threads == [at : {"idle", "verify", "disconnected", "reset", "level", "adding"}, found : Levels,
            fresh : BOOLEAN, known : BOOLEAN]

LifetimeTypeOK ==
    /\ now \in Int /\ polling \in BOOLEAN
    /\ caches \in [Names -> Tickets \cup {NoCache, Broken}]
    /\ own \subseteq Names /\ active \in Names \cup {None}
    /\ times \in Tickets \cup {None}
    /\ level \in Levels \cup {ABSENT} /\ watched \in BOOLEAN
    /\ alarms \in [Kinds -> Alarms \cup {None}]
    /\ refresh \in BOOLEAN
    /\ thread \in Threads
    /\ asked \subseteq Kinds /\ lost \subseteq Kinds

\* An alarm that is not ready has seen on which side of its time the clock is,
\* or will be made ready when the clock gets to the other side.
Looks(k) ==
    LET a == alarms[k] IN
    /\ ~a.ready => \/ a.before = "past" /\ a.time <= now
                   \/ a.before = "before" /\ (now <= a.time \/ k \in lost)
    /\ a.before = None => a.ready /\ (a.armed <=> now <= a.time)
    /\ a.before = "before" /\ k \notin lost => polling \/ a.armed \/ (a.ready /\ a.time < now)
    /\ a.before = "past" /\ k # "expiration" => k \in asked \cup lost
    /\ a.armed => now <= a.time

AlarmsLook == \A k \in Kinds : alarms[k] # None => Looks(k)

\* The alarms are those of the recorded times, with their signals connected
\* or not.
Follow(b) ==
    /\ times \in Tickets
    /\ \A k \in Kinds :
        /\ AlarmTime(k, times) = None => alarms[k] = None
        /\ AlarmTime(k, times) # None =>
              alarms[k] # None /\ alarms[k].time = AlarmTime(k, times) /\ alarms[k].heard = b

\* The thread has found a valid ticket, and the level says so or will.
SignedIn == \/ thread.at = "idle" /\ level = SIGNED_IN
            \/ thread.at # "idle" /\ thread.found = SIGNED_IN

\* Where the thread is, and what it has made of the alarms so far.
StageInv ==
    /\ thread.at \in {"idle", "verify", "level", "adding"} => alarms = NoAlarms \/ Follow(TRUE)
    /\ thread.at = "disconnected" =>
          times \in Tickets /\ \A k \in Kinds : alarms[k] # None => ~alarms[k].heard
    /\ thread.at = "reset" => Follow(FALSE)
    /\ level = ABSENT /\ thread.at = "idle" => alarms = NoAlarms /\ times = None
    /\ thread.at = "verify" => thread.found = UNVERIFIED /\ level # ABSENT
    /\ thread.at = "verify" /\ thread.fresh => own = {active}
    /\ thread.at = "level" /\ thread.fresh /\ thread.found >= EXISTS => times \in Tickets
    /\ thread.at = "adding" => level = thread.found
    /\ thread.at \in {"idle", "level", "adding"} /\ SignedIn => Follow(TRUE) \/ lost = Kinds

\* The alarm of the expiration will go off, or has and brought a refresh about.
Expected ==
    LET a == alarms["expiration"] IN
    \/ refresh
    \/ a.before # "past" /\ (a.ready \/ now <= a.time)
    \/ a.ready /\ now < a.time

\* The expiration of a valid ticket is expected, or its alarm is lost or about
\* to be replaced.
ExpirationInv ==
    LET a == alarms["expiration"] IN
    SignedIn /\ "expiration" \notin lost /\ a # None /\ a.time = times.end => Expected

Inv == LifetimeTypeOK /\ AlarmsLook /\ StageInv /\ ExpirationInv

\* Until the manager hears of an identity a refresh is due.
WatchInv ==
    /\ level = ABSENT => thread.at = "idle"
    /\ thread.at = "idle" => watched \/ level = ABSENT
    /\ watched \/ refresh \/ level = ABSENT

-----------------------------------------------------------------------------
(* Times and alarms. *)

\* Every ticket has its times, and every ticket expires.
LEMMA TicketTimes ==
    ASSUME NEW t \in Tickets
    PROVE  /\ t.start \in Int /\ t.end \in Int
           /\ AlarmTime("expiration", t) = t.end /\ t.end # None
           /\ \A k \in Kinds : AlarmTime(k, t) \in Int \cup {None}
<1>1. t.start \in Int /\ t.end \in Int
  BY TicketsAssumption, BoundsAssumption
<1>2. (t.end - t.start) \div 2 \in Int
  BY <1>1
<1>3. t.end # None
  BY <1>1, NoneAssumption
<1>4. AlarmTime("expiration", t) = t.end /\ AlarmTime("expiring", t) = t.end - 1
  BY DEF AlarmTime
<1>5. AlarmTime("renewal", t) \in {t.start + (t.end - t.start) \div 2, None}
  BY DEF AlarmTime
<1> QED
  BY <1>1, <1>2, <1>3, <1>4, <1>5 DEF Kinds

\* No alarm is None.
LEMMA AlarmIsNotNone == None \notin Alarms
  BY NoneAssumption DEF Alarms

\* A new alarm is ready and has not looked at the clock.
LEMMA NewAlarmIs ==
    ASSUME LifetimeTypeOK, NEW time \in Int
    PROVE  /\ NewAlarm(time) \in Alarms /\ NewAlarm(time) # None
           /\ NewAlarm(time).time = time /\ (NewAlarm(time).armed <=> now <= time)
           /\ NewAlarm(time).before = None
           /\ NewAlarm(time).ready /\ ~NewAlarm(time).heard
<1>1. now \in Int
  BY DEF LifetimeTypeOK
<1>2. NewAlarm(time) \in Alarms
  BY <1>1 DEF NewAlarm, Alarms
<1>3. NewAlarm(time) # None
  BY <1>2, AlarmIsNotNone
<1> QED
  BY <1>2, <1>3 DEF NewAlarm

\* An alarm whose signals are connected or not is the same one otherwise.
LEMMA HeardIs ==
    ASSUME NEW a \in Alarms, NEW b \in BOOLEAN
    PROVE  LET h == [a EXCEPT !.heard = b] IN
           /\ h \in Alarms /\ h # None /\ h.heard = b
           /\ h.time = a.time /\ h.armed = a.armed /\ h.before = a.before /\ h.ready = a.ready
  BY AlarmIsNotNone DEF Alarms

\* The same for all of them.
LEMMA AllHeard ==
    ASSUME LifetimeTypeOK, NEW b \in BOOLEAN
    PROVE  /\ Heard(b) \in [Kinds -> Alarms \cup {None}]
           /\ \A k \in Kinds :
                 /\ alarms[k] = None => Heard(b)[k] = None
                 /\ alarms[k] # None =>
                       /\ Heard(b)[k] # None /\ Heard(b)[k].heard = b
                       /\ Heard(b)[k].time = alarms[k].time /\ Heard(b)[k].armed = alarms[k].armed
                       /\ Heard(b)[k].before = alarms[k].before
                       /\ Heard(b)[k].ready = alarms[k].ready
<1>1. \A k \in Kinds : alarms[k] \in Alarms \cup {None}
  BY DEF LifetimeTypeOK
<1>2. ASSUME NEW k \in Kinds
      PROVE  /\ Heard(b)[k] \in Alarms \cup {None}
             /\ alarms[k] = None => Heard(b)[k] = None
             /\ alarms[k] # None =>
                   /\ Heard(b)[k] # None /\ Heard(b)[k].heard = b
                   /\ Heard(b)[k].time = alarms[k].time /\ Heard(b)[k].armed = alarms[k].armed
                   /\ Heard(b)[k].before = alarms[k].before
                   /\ Heard(b)[k].ready = alarms[k].ready
  <2>1. Heard(b)[k] = IF alarms[k] = None THEN None ELSE [alarms[k] EXCEPT !.heard = b]
    BY DEF Heard
  <2>2. CASE alarms[k] = None
    BY <2>1, <2>2
  <2>3. CASE alarms[k] \in Alarms
    BY <2>1, <2>3, HeardIs, AlarmIsNotNone
  <2> QED
    BY <1>1, <2>2, <2>3
<1>3. Heard(b) = [k \in Kinds |-> Heard(b)[k]]
  BY DEF Heard
<1> QED
  BY <1>2, <1>3

\* What a reset makes of one alarm.
LEMMA ResetIs ==
    ASSUME LifetimeTypeOK, NEW k \in Kinds, NEW t \in Tickets
    PROVE  LET r == ResetAlarm(k, t) IN
           /\ r \in Alarms \cup {None}
           /\ AlarmTime(k, t) = None => r = None
           /\ AlarmTime(k, t) # None => r # None /\ r.time = AlarmTime(k, t)
           /\ AlarmTime(k, t) # None /\ alarms[k] # None /\ alarms[k].time = AlarmTime(k, t) =>
                 /\ r.armed = alarms[k].armed /\ r.before = alarms[k].before
                 /\ r.ready = alarms[k].ready /\ ~r.heard
           /\ AlarmTime(k, t) # None /\ ~(alarms[k] # None /\ alarms[k].time = AlarmTime(k, t)) =>
                 /\ r.before = None /\ r.ready /\ ~r.heard /\ (r.armed <=> now <= r.time)
<1>1. alarms[k] \in Alarms \cup {None}
  BY DEF LifetimeTypeOK
<1>2. CASE AlarmTime(k, t) = None
  BY <1>2 DEF ResetAlarm
<1>3. CASE AlarmTime(k, t) # None /\ alarms[k] # None /\ alarms[k].time = AlarmTime(k, t)
  <2>1. ResetAlarm(k, t) = [alarms[k] EXCEPT !.heard = FALSE]
    BY <1>3 DEF ResetAlarm
  <2>2. alarms[k] \in Alarms
    BY <1>1, <1>3
  <2> QED
    BY <1>3, <2>1, <2>2, HeardIs
<1>4. CASE AlarmTime(k, t) # None /\ ~(alarms[k] # None /\ alarms[k].time = AlarmTime(k, t))
  <2>1. ResetAlarm(k, t) = NewAlarm(AlarmTime(k, t))
    BY <1>4 DEF ResetAlarm
  <2>2. AlarmTime(k, t) \in Int
    BY <1>4, TicketTimes
  <2> QED
    BY <1>4, <2>1, <2>2, NewAlarmIs
<1> QED
  BY <1>2, <1>3, <1>4

\* What the clock makes of one alarm.
LEMMA AlarmsAtIs ==
    ASSUME LifetimeTypeOK, NEW t \in Int, NEW set \in BOOLEAN
    PROVE  /\ AlarmsAt(t, set) \in [Kinds -> Alarms \cup {None}]
           /\ \A k \in Kinds :
                 LET a == alarms[k]
                     c == AlarmsAt(t, set)[k]
                 IN
                 /\ a = None => c = None
                 /\ a # None =>
                       /\ c # None /\ c.time = a.time /\ c.before = a.before /\ c.heard = a.heard
                       /\ c.armed <=> a.armed /\ t <= a.time
                       /\ c.ready <=> a.ready \/ set \/ polling \/ (a.armed /\ t > a.time)
<1>1. (\A k \in Kinds : alarms[k] \in Alarms \cup {None}) /\ polling \in BOOLEAN
  BY DEF LifetimeTypeOK
<1> DEFINE At(a) == [a EXCEPT !.armed = @ /\ t <= a.time,
                              !.ready = @ \/ set \/ polling \/ (a.armed /\ t > a.time)]
<1>2. ASSUME NEW a \in Alarms
      PROVE  /\ At(a) \in Alarms /\ At(a) # None
             /\ At(a).time = a.time /\ At(a).before = a.before /\ At(a).heard = a.heard
             /\ At(a).armed <=> a.armed /\ t <= a.time
             /\ At(a).ready <=> a.ready \/ set \/ polling \/ (a.armed /\ t > a.time)
  BY <1>1, AlarmIsNotNone DEF Alarms
<1>3. \A k \in Kinds : AlarmsAt(t, set)[k] = IF alarms[k] = None THEN None ELSE At(alarms[k])
  BY DEF AlarmsAt
<1>4. AlarmsAt(t, set) = [k \in Kinds |-> AlarmsAt(t, set)[k]]
  BY DEF AlarmsAt
<1> HIDE DEF At
<1>5. \A k \in Kinds : AlarmsAt(t, set)[k] \in Alarms \cup {None}
  BY <1>1, <1>2, <1>3
<1> QED
  BY <1>1, <1>2, <1>3, <1>4, <1>5, AlarmIsNotNone

-----------------------------------------------------------------------------
(* The steps of the thread. *)

LEMMA InitInv == Init => Inv
<1> SUFFICES ASSUME Init
             PROVE  Inv
  OBVIOUS
<1>1. \A k \in Kinds : alarms[k] = None
  BY DEF Init, NoAlarms
<1>2. alarms \in [Kinds -> Alarms \cup {None}]
  BY DEF Init, NoAlarms
<1>3. LifetimeTypeOK
  <2>1. thread \in Threads /\ level = ABSENT
    BY DEF Init, Levels, Threads, Idle, UNVERIFIED
  <2>2. now \in Int /\ polling \in BOOLEAN /\ refresh \in BOOLEAN /\ watched \in BOOLEAN
    <3>1. now \in Int
      BY DEF Init
    <3>2. polling \in BOOLEAN /\ refresh \in BOOLEAN /\ watched \in BOOLEAN
      BY Zenon DEF Init
    <3> QED
      BY <3>1, <3>2, Zenon
  <2>3. caches \in [Names -> Tickets \cup {NoCache, Broken}]
    <3>1. caches \in [Names -> Tickets \cup {NoCache}]
      BY DEF Init
    <3> QED
      BY <3>1
  <2>4. /\ own \subseteq Names /\ active \in Names \cup {None} /\ times \in Tickets \cup {None}
        /\ asked \subseteq Kinds /\ lost \subseteq Kinds
    BY DEF Init
  <2> QED
    BY <1>2, <2>1, <2>2, <2>3, <2>4 DEF LifetimeTypeOK
<1>4. AlarmsLook
  BY <1>1 DEF AlarmsLook
<1>5. level # SIGNED_IN /\ thread.at = "idle" /\ thread.found = UNVERIFIED /\ alarms = NoAlarms
      /\ times = None
  BY DEF Init, Idle, ABSENT, SIGNED_IN
<1>6. ~SignedIn
  BY <1>5 DEF SignedIn
<1> QED
  BY <1>3, <1>4, <1>5, <1>6 DEF Inv, StageInv, ExpirationInv

\* An alarm that has not looked at the clock has seen nothing.
LEMMA NoneIsNoWord == None # "past" /\ None # "before"
  BY NoneAssumption

\* Steps that do not touch the clock, the alarms and what is said of them.
LEMMA LooksKept ==
    AlarmsLook /\ UNCHANGED <<now, polling, alarms, asked, lost>> => AlarmsLook'
  BY DEF AlarmsLook, Looks

LEMMA FollowKept ==
    ASSUME UNCHANGED <<times, alarms>>, NEW b \in BOOLEAN, Follow(b)
    PROVE  Follow(b)'
  BY DEF Follow

\* The first cache makes an identity, which has no alarms.
LEMMA CreateKeeps ==
    ASSUME Inv, NEW n \in Names, Create(n)
    PROVE  Inv'
<1>1. /\ thread.at = "idle" /\ level = ABSENT
      /\ thread' = [at |-> "verify", found |-> UNVERIFIED, fresh |-> TRUE, known |-> TRUE]
      /\ level' = UNVERIFIED /\ own' = {n} /\ active' = n
      /\ UNCHANGED <<now, polling, caches, times, watched, alarms, refresh, asked, lost>>
  BY DEF Create, Idle
<1>2. LifetimeTypeOK'
  BY <1>1 DEF Inv, LifetimeTypeOK, Levels, Threads, UNVERIFIED
<1>3. AlarmsLook'
  BY <1>1, LooksKept DEF Inv
<1>4. alarms = NoAlarms
  BY <1>1 DEF Inv, StageInv
<1>5. ~SignedIn'
  BY <1>1 DEF SignedIn, UNVERIFIED, SIGNED_IN
<1>6. StageInv'
  BY <1>1, <1>4, <1>5 DEF StageInv, UNVERIFIED, ABSENT, NoAlarms
<1> QED
  BY <1>2, <1>3, <1>5, <1>6 DEF Inv, ExpirationInv

\* From here on nothing rests on what was found before.
LEMMA ImportKeeps ==
    ASSUME Inv, Import
    PROVE  Inv'
<1>1. /\ thread.at = "idle" /\ refresh' = FALSE
      /\ UNCHANGED <<now, polling, caches, times, level, watched, alarms, asked, lost>>
  BY DEF Import
<1>2. AlarmsLook'
  BY <1>1, LooksKept DEF Inv
<1>3. CASE level = ABSENT
  <2>1. UNCHANGED <<own, active, thread>>
    BY <1>3 DEF Import
  <2>2. LifetimeTypeOK'
    BY <1>1, <2>1 DEF Inv, LifetimeTypeOK
  <2>3. alarms = NoAlarms /\ times = None
    BY <1>1, <1>3 DEF Inv, StageInv
  <2>4. ~SignedIn'
    BY <1>1, <1>3, <2>1 DEF SignedIn, ABSENT, SIGNED_IN
  <2>5. StageInv'
    BY <1>1, <2>1, <2>3, <2>4 DEF StageInv, NoAlarms
  <2> QED
    BY <1>2, <2>2, <2>4, <2>5 DEF Inv, ExpirationInv
<1>4. CASE level # ABSENT
  <2>1. PICK known \in BOOLEAN :
           thread' = [at |-> "verify", found |-> UNVERIFIED, fresh |-> FALSE, known |-> known]
    BY <1>4 DEF Import, Idle
  <2>2. thread'.at = "verify" /\ thread'.found = UNVERIFIED /\ ~thread'.fresh
    BY <2>1
  <2>3. own' \subseteq Names /\ active' \in Names \cup {None}
    BY <1>4 DEF Import, Inv, LifetimeTypeOK
  <2>4. thread' \in Threads
    BY <2>1 DEF Threads, Levels, UNVERIFIED
  <2>5. LifetimeTypeOK'
    BY <1>1, <2>4, <2>3 DEF Inv, LifetimeTypeOK
  <2>6. ~SignedIn'
    BY <2>2 DEF SignedIn, UNVERIFIED, SIGNED_IN
  <2>7. alarms = NoAlarms \/ Follow(TRUE)
    BY <1>1 DEF Inv, StageInv
  <2>8. alarms' = NoAlarms \/ Follow(TRUE)'
    BY <1>1, <2>7, FollowKept
  <2>9. StageInv'
    BY <1>1, <1>4, <2>2, <2>6, <2>8 DEF StageInv, NoAlarms
  <2> QED
    BY <1>2, <2>5, <2>6, <2>9 DEF Inv, ExpirationInv
<1> QED
  BY <1>3, <1>4

\* The caches that are chosen have a ticket of the identity, and the level
\* without any is not that of a valid one.
LEMMA BestIsTicket ==
    ASSUME LifetimeTypeOK, NEW best \in Best
    PROVE  /\ best \in Names /\ caches[best] \in Tickets
           /\ Read(best) \in {EXISTS, SIGNED_IN}
           /\ Read(best) = SIGNED_IN => now < caches[best].end
<1> USE DEF ERROR, UNVERIFIED, EXISTS, SIGNED_IN
<1>1. CASE active # None /\ Read(active) = SIGNED_IN
  <2>1. best = active /\ active \in Names
    BY <1>1 DEF Best, LifetimeTypeOK
  <2>2. Read(best) = SIGNED_IN
    BY <1>1, <2>1
  <2>3. caches[best] \notin {Broken, NoCache} /\ now < caches[best].end
    BY <2>2 DEF Read
  <2>4. caches[best] \in Tickets \cup {NoCache, Broken}
    BY <2>1 DEF LifetimeTypeOK
  <2> QED
    BY <2>1, <2>2, <2>3, <2>4
<1>2. CASE ~(active # None /\ Read(active) = SIGNED_IN)
  <2>1. best \in Candidates
    BY <1>2 DEF Best
  <2>2. best \in Names /\ Read(best) >= EXISTS
    BY <2>1 DEF Candidates, LifetimeTypeOK
  <2>3. caches[best] \notin {Broken, NoCache}
    BY <2>2 DEF Read
  <2>4. caches[best] \in Tickets \cup {NoCache, Broken}
    BY <2>2 DEF LifetimeTypeOK
  <2>5. Read(best) = IF caches[best].start <= now /\ now < caches[best].end
                     THEN SIGNED_IN ELSE EXISTS
    BY <2>3 DEF Read
  <2> QED
    BY <2>2, <2>3, <2>4, <2>5
<1> QED
  BY <1>1, <1>2

LEMMA NoneIsNotValid ==
    ASSUME LifetimeTypeOK, Best = {}
    PROVE  LevelOfNone \in Levels /\ LevelOfNone # SIGNED_IN
<1> USE DEF ERROR, UNVERIFIED, EXISTS, SIGNED_IN, Levels
<1>1. CASE active = None
  BY <1>1 DEF LevelOfNone
<1>2. CASE active # None
  <2>1. Read(active) # SIGNED_IN
    BY <1>2 DEF Best
  <2>2. Read(active) \in {ERROR, UNVERIFIED, SIGNED_IN, EXISTS}
    BY DEF Read
  <2> QED
    BY <1>2, <2>1, <2>2 DEF LevelOfNone
<1> QED
  BY <1>1, <1>2

\* An alarm that looks at the clock still does when only its signals, or what
\* was announced or lost, change.
LEMMA LooksSame ==
    ASSUME NEW k \in Kinds, Looks(k), UNCHANGED <<now, polling>>,
           k \in asked => k \in asked', k \in lost => k \in lost',
           alarms'[k].time = alarms[k].time, alarms'[k].armed = alarms[k].armed,
           alarms'[k].before = alarms[k].before, alarms'[k].ready = alarms[k].ready
    PROVE  Looks(k)'
  BY DEF Looks

\* As long as the ticket is valid its alarm has not seen that it ran out, or
\* will look again.
LEMMA ValidIsExpected ==
    ASSUME LifetimeTypeOK, AlarmsLook, alarms["expiration"] # None,
           now < alarms["expiration"].time
    PROVE  Expected
<1>1. alarms["expiration"] \in Alarms /\ now \in Int
  BY DEF LifetimeTypeOK, Kinds
<1>2. Looks("expiration")
  BY DEF AlarmsLook, Kinds
<1>3. alarms["expiration"].ready \in BOOLEAN /\ alarms["expiration"].time \in Int
  BY <1>1 DEF Alarms
<1>4. CASE alarms["expiration"].ready
  BY <1>4 DEF Expected
<1>5. CASE ~alarms["expiration"].ready
  <2>1. alarms["expiration"].before = "before"
    BY <1>1, <1>2, <1>3, <1>5 DEF Looks
  <2> QED
    BY <2>1, <1>1, <1>3 DEF Expected
<1> QED
  BY <1>3, <1>4, <1>5

\* A new identity has one cache: without a ticket in it there is none.
LEMMA FreshIsFound ==
    ASSUME LifetimeTypeOK, own = {active}, Best = {}
    PROVE  ~(LevelOfNone >= EXISTS)
<1> USE DEF ERROR, UNVERIFIED, EXISTS, SIGNED_IN
<1>1. CASE active = None
  BY <1>1 DEF LevelOfNone
<1>2. CASE active # None
  <2>1. Read(active) # SIGNED_IN
    BY <1>2 DEF Best
  <2>2. active \notin Candidates
    <3>1. Candidates \subseteq {active}
      BY DEF Candidates
    <3>2. active \in Candidates => active \in Best
      BY <2>1, <3>1 DEF Best
    <3> QED
      BY <3>2
  <2>3. ~(Read(active) >= EXISTS)
    BY <2>2 DEF Candidates
  <2> QED
    BY <1>2, <2>3 DEF LevelOfNone
<1> QED
  BY <1>1, <1>2

LEMMA VerifyTypes ==
    ASSUME LifetimeTypeOK, Verify
    PROVE  LifetimeTypeOK' /\ lost \subseteq lost'
<1>1. UNCHANGED <<now, polling, caches, level, watched, refresh, asked>>
  BY DEF Verify
<1>2. NoAlarms \in [Kinds -> Alarms \cup {None}]
  BY DEF NoAlarms
<1>3. thread \in Threads
  BY DEF LifetimeTypeOK
<1>4. CASE Best = {}
  <2>1. /\ own' = {} /\ active' = None /\ alarms' = NoAlarms /\ UNCHANGED <<times, lost>>
        /\ thread' = [thread EXCEPT !.at = "level", !.found = LevelOfNone]
    BY <1>4 DEF Verify
  <2>2. thread' \in Threads
    BY <2>1, <1>3, <1>4, NoneIsNotValid DEF Threads
  <2> QED
    BY <1>1, <1>2, <2>1, <2>2 DEF LifetimeTypeOK
<1>5. CASE Best # {}
  <2>1. PICK best \in Best :
           /\ own' \in {own, Candidates} /\ active' = best /\ times' = caches[best]
           /\ alarms' \in {alarms, Heard(FALSE), NoAlarms}
           /\ \E at \in {"disconnected", "level"} :
                 thread' = [thread EXCEPT !.found = Read(best), !.at = at]
           /\ lost' \in {Kinds, lost}
    BY <1>5 DEF Verify
  <2>2. best \in Names /\ caches[best] \in Tickets /\ Read(best) \in {EXISTS, SIGNED_IN}
    BY BestIsTicket
  <2>3. thread' \in Threads
    BY <2>1, <2>2, <1>3 DEF Threads, Levels
  <2>4. alarms' \in [Kinds -> Alarms \cup {None}]
    BY <2>1, <1>2, AllHeard DEF LifetimeTypeOK
  <2>5. own' \subseteq Names /\ lost' \subseteq Kinds /\ lost \subseteq lost'
    BY <2>1 DEF LifetimeTypeOK, Candidates
  <2> QED
    BY <1>1, <2>1, <2>2, <2>3, <2>4, <2>5 DEF LifetimeTypeOK
<1> QED
  BY <1>4, <1>5

\* Whatever the thread finds: a valid ticket has alarms that are yet to go
\* off, or alarms that were cleared and count as lost.
LEMMA VerifyKeeps ==
    ASSUME Inv, Verify
    PROVE  Inv'
<1> USE DEF Inv
<1>1. thread.at = "verify" /\ UNCHANGED <<now, polling, level, refresh, asked>>
  BY DEF Verify
<1>2. LifetimeTypeOK' /\ lost \subseteq lost'
  BY VerifyTypes
<1>3. level # ABSENT /\ (alarms = NoAlarms \/ Follow(TRUE))
  BY <1>1 DEF StageInv
<1>4. thread \in Threads
  BY DEF LifetimeTypeOK
<1>5. CASE Best = {}
  <2>1. alarms' = NoAlarms /\ thread' = [thread EXCEPT !.at = "level", !.found = LevelOfNone]
    BY <1>5 DEF Verify
  <2>2. thread'.at = "level" /\ thread'.found = LevelOfNone /\ thread'.fresh = thread.fresh
    BY <2>1, <1>4 DEF Threads
  <2>3. ~SignedIn'
    BY <2>2, <1>5, NoneIsNotValid DEF SignedIn
  <2>4. AlarmsLook'
    BY <2>1 DEF AlarmsLook, NoAlarms
  <2>5. ~(thread'.fresh /\ thread'.found >= EXISTS)
    BY <1>1, <1>5, <2>2, FreshIsFound DEF StageInv
  <2>6. StageInv'
    BY <2>1, <2>2, <2>3, <2>5 DEF StageInv, NoAlarms
  <2> QED
    BY <1>2, <2>3, <2>4, <2>6 DEF ExpirationInv
<1>6. CASE Best # {}
  <2>1. PICK best \in Best :
           LET found == Read(best)
               changed == caches[best] # times
           IN
           /\ times' = caches[best]
           /\ alarms' = IF ~changed THEN alarms
                        ELSE IF found = SIGNED_IN THEN Heard(FALSE) ELSE NoAlarms
           /\ thread' = [thread EXCEPT !.found = found,
                            !.at = IF changed /\ found = SIGNED_IN THEN "disconnected"
                                                                   ELSE "level"]
           /\ lost' = IF ~changed /\ found = SIGNED_IN /\ alarms = NoAlarms THEN Kinds ELSE lost
    BY <1>6 DEF Verify
  <2>2. /\ caches[best] \in Tickets /\ Read(best) \in {EXISTS, SIGNED_IN}
        /\ Read(best) = SIGNED_IN => now < caches[best].end
    BY BestIsTicket
  <2>3. CASE caches[best] # times /\ Read(best) = SIGNED_IN
    <3>1. /\ times' = caches[best] /\ alarms' = Heard(FALSE) /\ lost' = lost
          /\ thread' = [thread EXCEPT !.found = SIGNED_IN, !.at = "disconnected"]
      BY <2>1, <2>3
    <3>2. thread'.at = "disconnected"
      BY <3>1, <1>4 DEF Threads
    <3>3. \A k \in Kinds :
             /\ alarms[k] = None => alarms'[k] = None
             /\ alarms[k] # None =>
                   /\ alarms'[k] # None /\ ~alarms'[k].heard
                   /\ alarms'[k].time = alarms[k].time /\ alarms'[k].armed = alarms[k].armed
                   /\ alarms'[k].before = alarms[k].before
                   /\ alarms'[k].ready = alarms[k].ready
      BY <3>1, AllHeard
    <3>4. AlarmsLook'
      BY <1>1, <3>1, <3>3, LooksSame DEF AlarmsLook
    <3>5. \A k \in Kinds : alarms'[k] # None => ~alarms'[k].heard
      BY <3>3
    <3>6. StageInv'
      BY <2>2, <3>1, <3>2, <3>5 DEF StageInv
    <3>7. ASSUME alarms'["expiration"] # None, alarms'["expiration"].time = times'.end
          PROVE  Expected'
      <4>1. /\ alarms["expiration"] # None
            /\ alarms'["expiration"].time = alarms["expiration"].time
            /\ alarms'["expiration"].before = alarms["expiration"].before
            /\ alarms'["expiration"].ready = alarms["expiration"].ready
        BY <3>3, <3>7 DEF Kinds
      <4>2. now < alarms["expiration"].time
        BY <2>2, <2>3, <3>1, <3>7, <4>1
      <4>3. Expected
        BY <4>1, <4>2, ValidIsExpected
      <4> QED
        BY <1>1, <4>1, <4>3 DEF Expected
    <3> QED
      BY <1>2, <3>4, <3>6, <3>7 DEF ExpirationInv
  <2>4. CASE caches[best] # times /\ Read(best) # SIGNED_IN
    <3>1. alarms' = NoAlarms /\ thread' = [thread EXCEPT !.found = Read(best), !.at = "level"]
      BY <2>1, <2>4
    <3>2. thread'.at = "level" /\ thread'.found # SIGNED_IN
      BY <3>1, <1>4, <2>4 DEF Threads
    <3>3. ~SignedIn'
      BY <3>2 DEF SignedIn
    <3>4. AlarmsLook'
      BY <3>1 DEF AlarmsLook, NoAlarms
    <3>5. StageInv'
      BY <2>1, <2>2, <3>1, <3>2, <3>3 DEF StageInv, NoAlarms
    <3> QED
      BY <1>2, <3>3, <3>4, <3>5 DEF ExpirationInv
  <2>5. CASE caches[best] = times
    <3>1. /\ UNCHANGED <<times, alarms>>
          /\ thread' = [thread EXCEPT !.found = Read(best), !.at = "level"]
          /\ Read(best) = SIGNED_IN /\ alarms = NoAlarms => lost' = Kinds
      BY <2>1, <2>5
    <3>2. thread'.at = "level" /\ thread'.found = Read(best)
      BY <3>1, <1>4 DEF Threads
    <3>3. AlarmsLook'
      BY <1>1, <1>2, <3>1, LooksSame DEF AlarmsLook
    <3>4. alarms' = NoAlarms \/ Follow(TRUE)'
      BY <1>3, <3>1, FollowKept
    <3>5. SignedIn' => Read(best) = SIGNED_IN
      BY <3>2 DEF SignedIn
    <3>6. SignedIn' => Follow(TRUE)' \/ lost' = Kinds
      BY <3>1, <3>4, <3>5
    <3>7. StageInv'
      BY <2>1, <2>2, <3>2, <3>4, <3>6 DEF StageInv, NoAlarms
    <3>8. ASSUME SignedIn', alarms'["expiration"] # None, alarms'["expiration"].time = times'.end
          PROVE  Expected'
      <4>1. alarms["expiration"] # None /\ now < alarms["expiration"].time
        BY <2>2, <2>5, <3>1, <3>5, <3>8
      <4>2. Expected
        BY <4>1, ValidIsExpected
      <4> QED
        BY <1>1, <3>1, <4>2 DEF Expected
    <3> QED
      BY <1>2, <3>3, <3>7, <3>8 DEF ExpirationInv
  <2> QED
    BY <2>3, <2>4, <2>5
<1> QED
  BY <1>5, <1>6

\* An alarm that stays is as lost as it was; one that takes its place has yet
\* to look at the clock.
LEMMA ResetKeeps ==
    ASSUME Inv, ResetAlarms
    PROVE  Inv'
<1> USE DEF Inv
<1> DEFINE Replaced == {k \in Kinds : alarms'[k] = None
                            \/ alarms[k] = None \/ alarms'[k].time # alarms[k].time}
<1>1. /\ thread.at = "disconnected" /\ thread' = [thread EXCEPT !.at = "reset"]
      /\ alarms' = [k \in Kinds |-> ResetAlarm(k, times)]
      /\ asked' = asked \ Replaced /\ lost' = lost \ Replaced
      /\ UNCHANGED <<now, polling, caches, own, active, times, level, watched, refresh>>
  BY DEF ResetAlarms
<1>2. times \in Tickets
  BY <1>1 DEF StageInv
<1>3. thread \in Threads /\ thread' \in Threads
      /\ thread'.at = "reset" /\ thread'.found = thread.found
  BY <1>1 DEF LifetimeTypeOK, Threads
<1>4. alarms' \in [Kinds -> Alarms \cup {None}]
  BY <1>1, <1>2, ResetIs
<1>5. LifetimeTypeOK'
  BY <1>1, <1>3, <1>4 DEF LifetimeTypeOK
<1> DEFINE Kept(k) == AlarmTime(k, times) # None /\ alarms[k] # None
                      /\ alarms[k].time = AlarmTime(k, times)
<1>6. \A k \in Kinds :
         /\ AlarmTime(k, times) = None => alarms'[k] = None
         /\ AlarmTime(k, times) # None =>
               alarms'[k] # None /\ alarms'[k].time = AlarmTime(k, times)
         /\ Kept(k) => /\ alarms'[k].armed = alarms[k].armed /\ alarms'[k].before = alarms[k].before
                       /\ alarms'[k].ready = alarms[k].ready /\ ~alarms'[k].heard
         /\ AlarmTime(k, times) # None /\ ~Kept(k) =>
               /\ alarms'[k].before = None /\ alarms'[k].ready /\ ~alarms'[k].heard
               /\ alarms'[k].armed <=> now <= alarms'[k].time
  BY <1>1, <1>2, ResetIs
<1>7. Follow(FALSE)'
  <2>1. ASSUME NEW k \in Kinds, AlarmTime(k, times) # None
        PROVE  alarms'[k].heard = FALSE
    <3>1. alarms'[k] \in Alarms
      BY <1>4, <1>6, <2>1
    <3>2. ~alarms'[k].heard
      BY <1>6, <2>1
    <3> QED
      BY <3>1, <3>2 DEF Alarms
  <2> QED
    BY <1>1, <1>2, <1>6, <2>1 DEF Follow
<1>8. \A k \in Kinds : Kept(k) => k \notin Replaced
  BY <1>6
<1>9. ASSUME NEW k \in Kinds, alarms'[k] # None
      PROVE  Looks(k)'
  <2>1. AlarmTime(k, times) # None
    BY <1>6, <1>9
  <2>2. CASE Kept(k)
    <3>1. Looks(k)
      BY <2>2 DEF AlarmsLook
    <3>2. (k \in asked => k \in asked') /\ (k \in lost => k \in lost')
      BY <1>1, <1>8, <2>2
    <3>3. /\ alarms'[k].time = alarms[k].time /\ alarms'[k].armed = alarms[k].armed
          /\ alarms'[k].before = alarms[k].before /\ alarms'[k].ready = alarms[k].ready
      BY <1>6, <2>2
    <3> QED
      BY <1>1, <3>1, <3>2, <3>3, LooksSame
  <2>3. CASE ~Kept(k)
    <3>1. /\ alarms'[k].before = None /\ alarms'[k].ready
          /\ alarms'[k].armed <=> now <= alarms'[k].time
      BY <1>6, <2>1, <2>3
    <3>2. None # "before" /\ None # "past"
      BY NoneIsNoWord
    <3> QED
      BY <1>1, <3>1, <3>2 DEF Looks
  <2> QED
    BY <2>2, <2>3
<1>10. ASSUME SignedIn', "expiration" \notin lost'
       PROVE  Expected'
  <2>1. SignedIn
    BY <1>1, <1>3, <1>10 DEF SignedIn
  <2>2. "expiration" \in Kinds /\ AlarmTime("expiration", times) = times.end
        /\ AlarmTime("expiration", times) # None
    BY <1>2, TicketTimes DEF Kinds
  <2>3. CASE Kept("expiration")
    <3>1. "expiration" \notin lost
      BY <1>1, <1>8, <1>10, <2>2, <2>3
    <3>2. Expected
      BY <2>1, <2>2, <2>3, <3>1 DEF ExpirationInv
    <3>3. /\ alarms'["expiration"].time = alarms["expiration"].time
          /\ alarms'["expiration"].before = alarms["expiration"].before
          /\ alarms'["expiration"].ready = alarms["expiration"].ready
      BY <1>6, <2>2, <2>3
    <3> QED
      BY <1>1, <3>2, <3>3 DEF Expected
  <2>4. CASE ~Kept("expiration")
    <3>1. alarms'["expiration"].before = None /\ alarms'["expiration"].ready
      BY <1>6, <2>2, <2>4
    <3> QED
      BY <3>1, NoneIsNoWord DEF Expected
  <2> QED
    BY <2>3, <2>4
<1>11. StageInv'
  BY <1>3, <1>7 DEF StageInv
<1> QED
  BY <1>5, <1>9, <1>10, <1>11 DEF AlarmsLook, ExpirationInv

\* From here on the alarms are heard.
LEMMA ConnectKeeps ==
    ASSUME Inv, ConnectAlarms
    PROVE  Inv'
<1> USE DEF Inv
<1>1. /\ thread.at = "reset" /\ thread' = [thread EXCEPT !.at = "level"]
      /\ alarms' = Heard(TRUE)
      /\ UNCHANGED <<now, polling, caches, own, active, times, level, watched, refresh, asked,
                     lost>>
  BY DEF ConnectAlarms
<1>2. thread \in Threads /\ thread' \in Threads
      /\ thread'.at = "level" /\ thread'.found = thread.found
  BY <1>1 DEF LifetimeTypeOK, Threads
<1>3. /\ alarms' \in [Kinds -> Alarms \cup {None}]
      /\ \A k \in Kinds :
            /\ alarms[k] = None => alarms'[k] = None
            /\ alarms[k] # None =>
                  /\ alarms'[k] # None /\ alarms'[k].heard = TRUE
                  /\ alarms'[k].time = alarms[k].time /\ alarms'[k].armed = alarms[k].armed
                  /\ alarms'[k].before = alarms[k].before
                  /\ alarms'[k].ready = alarms[k].ready
  BY <1>1, AllHeard
<1>4. LifetimeTypeOK'
  BY <1>1, <1>2, <1>3 DEF LifetimeTypeOK
<1>5. AlarmsLook'
  BY <1>1, <1>3, LooksSame DEF AlarmsLook
<1>6. Follow(TRUE)' /\ times' \in Tickets
  <2>1. Follow(FALSE)
    BY <1>1 DEF StageInv
  <2>2. times' \in Tickets
    BY <1>1, <2>1 DEF Follow
  <2> QED
    BY <1>1, <1>3, <2>1, <2>2 DEF Follow
<1>7. StageInv'
  BY <1>2, <1>6 DEF StageInv
<1>8. ExpirationInv'
  <2>1. SignedIn' => SignedIn
    BY <1>1, <1>2 DEF SignedIn
  <2>2. alarms'["expiration"] # None =>
           /\ alarms["expiration"] # None
           /\ alarms'["expiration"].time = alarms["expiration"].time
           /\ alarms'["expiration"].before = alarms["expiration"].before
           /\ alarms'["expiration"].ready = alarms["expiration"].ready
    BY <1>3 DEF Kinds
  <2> QED
    BY <1>1, <2>1, <2>2 DEF ExpirationInv, Expected
<1> QED
  BY <1>4, <1>5, <1>7, <1>8

\* The level becomes what was found, or the identity is dropped.
LEMMA SetLevelKeeps ==
    ASSUME Inv, SetLevel
    PROVE  Inv'
<1> USE DEF Inv
<1> DEFINE Again == thread.fresh /\ thread.found >= EXISTS
<1>1. thread.at = "level" /\ UNCHANGED <<now, polling, caches, asked, lost>>
      /\ (refresh => refresh') /\ refresh' \in BOOLEAN
  BY DEF SetLevel, LifetimeTypeOK
<1>2. thread \in Threads
  BY DEF LifetimeTypeOK
<1>3. Idle \in Threads /\ Idle.at = "idle"
  BY DEF Idle, Threads, Levels
<1>4. NoAlarms \in [Kinds -> Alarms \cup {None}]
  BY DEF NoAlarms
<1> DEFINE Stays == thread.known /\ ~(thread.fresh /\ thread.found = ERROR)
<1>5. CASE ~Stays
  <2>1. /\ level' = ABSENT /\ alarms' = NoAlarms /\ thread' = Idle
        /\ own' = {} /\ active' = None /\ times' = None /\ watched' = FALSE
    BY <1>5 DEF SetLevel
  <2>2. LifetimeTypeOK'
    BY <1>1, <1>3, <1>4, <2>1 DEF LifetimeTypeOK
  <2>3. ~SignedIn'
    BY <1>3, <2>1 DEF SignedIn, ABSENT, SIGNED_IN
  <2>4. AlarmsLook'
    BY <2>1 DEF AlarmsLook, NoAlarms
  <2>5. StageInv'
    BY <1>3, <2>1, <2>3 DEF StageInv, NoAlarms
  <2> QED
    BY <2>2, <2>3, <2>4, <2>5 DEF ExpirationInv
<1>6. CASE Stays /\ Again
  <2>1. /\ level' = thread.found /\ alarms' = Heard(FALSE)
        /\ thread' = [thread EXCEPT !.at = "disconnected", !.fresh = FALSE]
        /\ UNCHANGED <<own, active, times, watched>>
    BY <1>6 DEF SetLevel
  <2>2. thread' \in Threads /\ thread'.at = "disconnected" /\ thread'.found = thread.found
        /\ thread.found \in Levels
    BY <1>2, <2>1 DEF Threads
  <2>3. /\ alarms' \in [Kinds -> Alarms \cup {None}]
        /\ \A k \in Kinds :
              /\ alarms[k] = None => alarms'[k] = None
              /\ alarms[k] # None =>
                    /\ alarms'[k] # None /\ alarms'[k].heard = FALSE
                    /\ alarms'[k].time = alarms[k].time /\ alarms'[k].armed = alarms[k].armed
                    /\ alarms'[k].before = alarms[k].before
                    /\ alarms'[k].ready = alarms[k].ready
    BY <2>1, AllHeard
  <2>4. LifetimeTypeOK'
    BY <1>1, <2>1, <2>2, <2>3 DEF LifetimeTypeOK
  <2>5. AlarmsLook'
    BY <1>1, <2>3, LooksSame DEF AlarmsLook
  <2>6. times \in Tickets
    BY <1>1, <1>2, <1>6 DEF StageInv
  <2>7. StageInv'
    BY <2>1, <2>2, <2>3, <2>6 DEF StageInv
  <2>8. SignedIn' => SignedIn
    BY <1>1, <2>2 DEF SignedIn
  <2>9. alarms'["expiration"] # None =>
           /\ alarms["expiration"] # None
           /\ alarms'["expiration"].time = alarms["expiration"].time
           /\ alarms'["expiration"].before = alarms["expiration"].before
           /\ alarms'["expiration"].ready = alarms["expiration"].ready
    BY <2>3 DEF Kinds
  <2>10. ExpirationInv'
    BY <1>1, <2>1, <2>8, <2>9 DEF ExpirationInv, Expected
  <2> QED
    BY <2>4, <2>5, <2>7, <2>10
<1>7. CASE Stays /\ ~Again
  <2>1. /\ level' = thread.found
        /\ thread' \in {Idle, [thread EXCEPT !.at = "adding"]}
        /\ UNCHANGED <<alarms, own, active, times, watched>>
    BY <1>7 DEF SetLevel
  <2>2. /\ thread' \in Threads /\ thread'.at \in {"idle", "adding"}
        /\ thread'.at = "adding" => thread'.found = thread.found
    BY <1>2, <1>3, <2>1 DEF Threads
  <2>3. LifetimeTypeOK'
    BY <1>1, <1>2, <2>1, <2>2 DEF LifetimeTypeOK, Threads
  <2>4. AlarmsLook'
    BY <1>1, <2>1, LooksKept
  <2>5. SignedIn' => SignedIn
    BY <1>1, <2>1, <2>2 DEF SignedIn
  <2>6. alarms' = NoAlarms \/ Follow(TRUE)'
    BY <1>1, <2>1, FollowKept DEF StageInv
  <2>7. SignedIn' => Follow(TRUE)' \/ lost' = Kinds
    BY <1>1, <2>1, <2>5, FollowKept DEF StageInv
  <2>8. level' # ABSENT
    BY <1>2, <2>1 DEF Threads, Levels, ABSENT, ERROR, UNVERIFIED, EXISTS, SIGNED_IN
  <2>9. StageInv'
    BY <2>1, <2>2, <2>6, <2>7, <2>8 DEF StageInv, NoAlarms
  <2>10. ExpirationInv'
    BY <1>1, <2>1, <2>5 DEF ExpirationInv, Expected
  <2> QED
    BY <2>3, <2>4, <2>9, <2>10
<1> QED
  BY <1>5, <1>6, <1>7

-----------------------------------------------------------------------------
(* The steps of the main loop, of the clock and of the caches. *)

\* What looking at the clock leaves of the stage of the thread, as it changes
\* neither the times of alarms nor whether they are heard.
LEMMA StageKept ==
    ASSUME StageInv, UNCHANGED <<own, active, times, level, thread>>,
           \A k \in Kinds :
              /\ alarms[k] = None <=> alarms'[k] = None
              /\ alarms[k] # None =>
                    alarms'[k].time = alarms[k].time /\ alarms'[k].heard = alarms[k].heard,
           alarms = NoAlarms => alarms' = NoAlarms,
           lost = Kinds => lost' = Kinds
    PROVE  StageInv'
<1>1. ASSUME NEW b \in BOOLEAN, Follow(b)
      PROVE  Follow(b)'
  BY <1>1 DEF Follow
<1>2. SignedIn' <=> SignedIn
  BY DEF SignedIn
<1>3. alarms = NoAlarms \/ Follow(TRUE) => alarms' = NoAlarms \/ Follow(TRUE)'
  BY <1>1
<1>4. Follow(FALSE) => Follow(FALSE)'
  BY <1>1
<1>5. Follow(TRUE) \/ lost = Kinds => Follow(TRUE)' \/ lost' = Kinds
  BY <1>1
<1>6. (\A k \in Kinds : alarms[k] # None => ~alarms[k].heard) =>
         \A k \in Kinds : alarms'[k] # None => ~alarms'[k].heard
  OBVIOUS
<1>7. alarms = NoAlarms => alarms' = NoAlarms
  OBVIOUS
<1>8. UNCHANGED <<own, active, times, level, thread>>
  OBVIOUS
<1> QED
  BY <1>2, <1>3, <1>4, <1>5, <1>6, <1>7, <1>8 DEF StageInv, NoAlarms

\* The manager connects to the signals, and the thread goes on.
LEMMA WatchKeeps ==
    ASSUME Inv, Watch
    PROVE  Inv'
<1> USE DEF Inv
<1>1. /\ thread.at = "adding" /\ thread' = Idle /\ watched' = TRUE
      /\ UNCHANGED <<now, polling, caches, own, active, times, level, alarms, refresh, asked, lost>>
  BY DEF Watch
<1>2. Idle \in Threads /\ Idle.at = "idle"
  BY DEF Idle, Threads, Levels
<1>3. LifetimeTypeOK'
  BY <1>1, <1>2 DEF LifetimeTypeOK
<1>4. AlarmsLook'
  BY <1>1, LooksKept
<1>5. SignedIn' => SignedIn
  BY <1>1, <1>2 DEF SignedIn, StageInv
<1>6. alarms' = NoAlarms \/ Follow(TRUE)'
  BY <1>1, FollowKept DEF StageInv
<1>7. SignedIn' => Follow(TRUE)' \/ lost' = Kinds
  BY <1>1, <1>5, FollowKept DEF StageInv
<1>8. level' # ABSENT
  <2>1. thread.found # ABSENT
    BY DEF LifetimeTypeOK, Threads, Levels, ABSENT, ERROR, UNVERIFIED, EXISTS, SIGNED_IN
  <2> QED
    BY <1>1, <2>1 DEF StageInv
<1>9. StageInv'
  BY <1>1, <1>2, <1>6, <1>7, <1>8 DEF StageInv, NoAlarms
<1>10. ExpirationInv'
  BY <1>1, <1>5 DEF ExpirationInv, Expected
<1> QED
  BY <1>3, <1>4, <1>9, <1>10

\* An alarm that wakes up has seen the clock; when it goes off it is announced
\* or lost, or nobody listens yet and a refresh is due.
LEMMA WakeUpKeeps ==
    ASSUME Inv, WatchInv, NEW k \in Kinds, WakeUp(k)
    PROVE  Inv'
<1> USE DEF Inv
<1> DEFINE a == alarms[k]
           past == a.time <= now
           fires == past /\ a.before # "past"
           rearms == ~past /\ a.before = "past"
           announced == fires /\ a.heard /\ watched /\ (k = "expiration" \/ level = SIGNED_IN)
           missed == fires /\ ~announced /\ (k = "expiration" => watched)
<1>1. /\ a # None /\ a.ready
      /\ alarms' = [alarms EXCEPT ![k].ready = FALSE,
                                  ![k].before = IF past THEN "past" ELSE "before"]
      /\ refresh' = (refresh \/ (k = "expiration" /\ a.heard /\ watched /\ (fires \/ rearms)))
      /\ asked' = IF announced THEN asked \cup {k} ELSE asked
      /\ lost' = IF missed \/ (rearms /\ ~a.armed /\ ~polling) THEN lost \cup {k} ELSE lost
      /\ UNCHANGED <<now, polling, caches, own, active, times, level, watched, thread>>
  BY DEF WakeUp
<1>2. /\ a \in Alarms /\ now \in Int /\ polling \in BOOLEAN /\ refresh \in BOOLEAN
      /\ alarms \in [Kinds -> Alarms \cup {None}]
      /\ lost \subseteq Kinds /\ asked \subseteq Kinds
  BY <1>1 DEF LifetimeTypeOK
<1> DEFINE w == [a EXCEPT !.ready = FALSE, !.before = IF past THEN "past" ELSE "before"]
<1>3. /\ w \in Alarms /\ w # None /\ ~w.ready /\ w.before = (IF past THEN "past" ELSE "before")
      /\ w.time = a.time /\ w.armed = a.armed /\ w.heard = a.heard
  BY <1>2, AlarmIsNotNone DEF Alarms
<1>4. alarms' = [alarms EXCEPT ![k] = w]
  BY <1>1, <1>2
<1>5. alarms'[k] = w /\ \A j \in Kinds \ {k} : alarms'[j] = alarms[j]
  BY <1>2, <1>4
<1>6. alarms' \in [Kinds -> Alarms \cup {None}]
  BY <1>2, <1>3, <1>4
<1>7. /\ asked \subseteq asked' /\ asked' \subseteq Kinds
      /\ lost \subseteq lost' /\ lost' \subseteq Kinds
      /\ refresh => refresh'
      /\ \A j \in Kinds \ {k} : j \in lost' <=> j \in lost
  BY <1>1, <1>2
<1>8. refresh' \in BOOLEAN
  BY <1>1
<1> HIDE DEF w
<1>9. LifetimeTypeOK'
  BY <1>1, <1>6, <1>7, <1>8 DEF LifetimeTypeOK
<1>10. Looks(k)'
  <2>1. Looks(k)
    BY <1>1 DEF AlarmsLook
  <2>2. a.armed => now <= a.time
    BY <2>1 DEF Looks
  <2>3. a.time \in Int /\ a.armed \in BOOLEAN /\ a.before \in {None, "past", "before"}
    BY <1>2 DEF Alarms
  <2>4. CASE past
    <3>1. w.before = "past"
      BY <1>3, <2>4
    <3>2. k # "expiration" => k \in asked' \cup lost'
      <4> SUFFICES ASSUME k # "expiration"
                   PROVE  k \in asked' \cup lost'
        OBVIOUS
      <4>1. CASE a.before = "past"
        BY <1>1, <1>7, <2>1, <4>1 DEF Looks
      <4>2. CASE a.before # "past"
        <5>1. fires
          BY <2>4, <4>2
        <5>2. announced => k \in asked'
          BY <1>1
        <5>3. ~announced => k \in lost'
          BY <1>1, <5>1
        <5> QED
          BY <5>2, <5>3
      <4> QED
        BY <4>1, <4>2
    <3> QED
      BY <1>1, <1>3, <1>5, <2>2, <2>4, <3>1, <3>2, NoneIsNoWord DEF Looks
  <2>5. CASE ~past
    <3>1. w.before = "before" /\ now <= a.time
      BY <1>2, <1>3, <2>3, <2>5
    <3>2. k \notin lost' => polling \/ a.armed
      <4>1. SUFFICES ASSUME k \notin lost'
                     PROVE  polling \/ a.armed
        OBVIOUS
      <4>2. CASE a.before = "past"
        BY <1>1, <2>5, <4>1, <4>2
      <4>3. CASE a.before = None
        BY <2>1, <3>1, <4>3 DEF Looks
      <4>4. CASE a.before = "before"
        <5>1. k \notin lost /\ now \in Int
          BY <1>2, <1>7, <4>1
        <5>2. ~(a.time < now)
          BY <2>3, <2>5, <5>1
        <5> QED
          BY <2>1, <4>4, <5>1, <5>2 DEF Looks
      <4> QED
        BY <2>3, <4>2, <4>3, <4>4
    <3> QED
      BY <1>1, <1>3, <1>5, <2>2, <3>1, <3>2, NoneIsNoWord DEF Looks
  <2> QED
    BY <2>4, <2>5
<1>11. ASSUME NEW j \in Kinds, j # k, alarms'[j] # None
       PROVE  Looks(j)'
  <2>1. alarms'[j] = alarms[j] /\ Looks(j)
    BY <1>5, <1>11 DEF AlarmsLook
  <2> QED
    BY <1>1, <1>7, <2>1, LooksSame
<1>12. AlarmsLook'
  BY <1>10, <1>11 DEF AlarmsLook
<1>13. StageInv'
  <2>1. \A j \in Kinds :
           /\ alarms[j] = None <=> alarms'[j] = None
           /\ alarms[j] # None =>
                 alarms'[j].time = alarms[j].time /\ alarms'[j].heard = alarms[j].heard
    BY <1>1, <1>3, <1>5
  <2>2. alarms # NoAlarms
    BY <1>1 DEF NoAlarms
  <2>3. lost = Kinds => lost' = Kinds
    BY <1>7
  <2>4. UNCHANGED <<own, active, times, level, thread>>
    BY <1>1
  <2> QED
    BY <2>1, <2>2, <2>3, <2>4, StageKept
<1>14. ASSUME SignedIn', "expiration" \notin lost', alarms'["expiration"] # None,
              alarms'["expiration"].time = times'.end
       PROVE  Expected'
  <2>1. SignedIn /\ "expiration" \notin lost
    BY <1>1, <1>7, <1>14 DEF SignedIn
  <2>2. CASE k # "expiration"
    <3>1. alarms'["expiration"] = alarms["expiration"]
      BY <1>5, <2>2 DEF Kinds
    <3>2. Expected
      BY <1>1, <1>14, <2>1, <3>1 DEF ExpirationInv
    <3> QED
      BY <1>1, <1>7, <3>1, <3>2 DEF Expected
  <2>3. CASE k = "expiration"
    <3>1. Expected
      BY <1>1, <1>3, <1>5, <1>14, <2>1, <2>3 DEF ExpirationInv
    <3>2. a.time \in Int
      BY <1>2 DEF Alarms
    <3>3. CASE fires
      <4>1. level # ABSENT
        BY <2>1 DEF WatchInv, SignedIn, SIGNED_IN, ABSENT
      <4>2. refresh'
        <5>1. CASE watched
          <6>1. announced
            BY <1>1, <1>14, <2>3, <3>3, <5>1
          <6> QED
            BY <1>1, <2>3, <3>3, <6>1
        <5>2. CASE ~watched
          BY <1>1, <4>1, <5>2 DEF WatchInv
        <5> QED
          BY <5>1, <5>2
      <4> QED
        BY <4>2 DEF Expected
    <3>4. CASE past /\ a.before = "past"
      <4>1. refresh
        BY <1>2, <2>3, <3>1, <3>2, <3>4 DEF Expected
      <4> QED
        BY <1>7, <4>1 DEF Expected
    <3>5. CASE ~past
      <4>1. w.before = "before" /\ now <= w.time
        BY <1>2, <1>3, <3>2, <3>5
      <4> QED
        BY <1>1, <1>5, <2>3, <4>1 DEF Expected
    <3> QED
      BY <3>3, <3>4, <3>5
  <2> QED
    BY <2>2, <2>3
<1> QED
  BY <1>9, <1>12, <1>13, <1>14 DEF ExpirationInv

\* When the main loop has nothing to do every alarm has looked at the clock;
\* the ones whose side of it changes are made ready.
LEMMA ClockKeeps ==
    ASSUME Inv, LoopIdle, NEW t \in Int, NEW set \in BOOLEAN,
           set \/ t = now + 1,
           now' = t, alarms' = AlarmsAt(t, set),
           UNCHANGED <<polling, caches, own, active, times, level, watched, refresh, thread, asked,
                       lost>>
    PROVE  Inv'
<1> USE DEF Inv
<1>1. /\ alarms' \in [Kinds -> Alarms \cup {None}]
      /\ \A k \in Kinds :
            /\ alarms[k] = None => alarms'[k] = None
            /\ alarms[k] # None =>
                  /\ alarms'[k] # None /\ alarms'[k].time = alarms[k].time
                  /\ alarms'[k].before = alarms[k].before /\ alarms'[k].heard = alarms[k].heard
                  /\ alarms'[k].armed <=> alarms[k].armed /\ t <= alarms[k].time
                  /\ alarms'[k].ready <=> \/ alarms[k].ready \/ set \/ polling
                                          \/ alarms[k].armed /\ t > alarms[k].time
  BY AlarmsAtIs
<1>2. LifetimeTypeOK'
  BY <1>1 DEF LifetimeTypeOK
<1>3. now \in Int /\ polling \in BOOLEAN /\ \A k \in Kinds : alarms[k] \in Alarms \cup {None}
  BY DEF LifetimeTypeOK
<1>4. ASSUME NEW k \in Kinds, alarms[k] # None
      PROVE  Looks(k)'
  <2> DEFINE a == alarms[k]
             c == alarms'[k]
  <2>1. Looks(k) /\ ~a.ready
    BY <1>4 DEF AlarmsLook, LoopIdle
  <2>2. a.time \in Int /\ a.armed \in BOOLEAN /\ a.ready \in BOOLEAN
        /\ a.before \in {None, "past", "before"}
    BY <1>3, <1>4 DEF Alarms
  <2>3. \/ a.before = "past" /\ a.time <= now
        \/ a.before = "before" /\ (now <= a.time \/ k \in lost)
    BY <2>1 DEF Looks
  <2>4. /\ c.time = a.time /\ c.before = a.before
        /\ c.armed <=> a.armed /\ t <= a.time
        /\ c.ready <=> set \/ polling \/ (a.armed /\ t > a.time)
    BY <1>1, <1>4, <2>1
  <2>5. a.before = "past" /\ k # "expiration" => k \in asked \cup lost
    BY <2>1 DEF Looks
  <2>6. a.before = "before" /\ k \notin lost => polling \/ a.armed
    BY <2>1 DEF Looks
  <2>7. ~c.ready => \/ c.before = "past" /\ c.time <= t
                    \/ c.before = "before" /\ (t <= c.time \/ k \in lost)
    <3>1. SUFFICES ASSUME ~c.ready
                   PROVE  \/ a.before = "past" /\ a.time <= t
                          \/ a.before = "before" /\ (t <= a.time \/ k \in lost)
      BY <2>4
    <3>2. t = now + 1 /\ ~polling /\ ~(a.armed /\ t > a.time)
      BY <2>4, <3>1
    <3>3. CASE a.before = "past"
      BY <1>3, <2>2, <2>3, <3>2, <3>3
    <3>4. CASE a.before = "before" /\ k \notin lost
      BY <1>3, <2>2, <2>6, <3>2, <3>4
    <3> QED
      BY <2>3, <3>3, <3>4
  <2>8. c.before # None
    BY <2>3, <2>4, NoneIsNoWord
  <2>9. c.before = "before" /\ k \notin lost => polling \/ c.armed \/ (c.ready /\ c.time < t)
    BY <2>2, <2>4, <2>6
  <2> QED
    BY <2>4, <2>5, <2>7, <2>8, <2>9 DEF Looks
<1>5. AlarmsLook'
  BY <1>1, <1>4 DEF AlarmsLook
<1>6. StageInv'
  <2>1. alarms = NoAlarms => alarms' = NoAlarms
    <3>1. SUFFICES ASSUME alarms = NoAlarms
                   PROVE  alarms' = NoAlarms
      OBVIOUS
    <3>2. \A k \in Kinds : alarms'[k] = None
      BY <1>1, <3>1 DEF NoAlarms
    <3> QED
      BY <1>1, <3>2 DEF NoAlarms
  <2> QED
    BY <1>1, <2>1, StageKept
<1>7. ASSUME SignedIn', "expiration" \notin lost, alarms'["expiration"] # None,
             alarms'["expiration"].time = times'.end
      PROVE  Expected'
  <2> DEFINE a == alarms["expiration"]
             c == alarms'["expiration"]
  <2>1. "expiration" \in Kinds
    BY DEF Kinds
  <2>2. a # None /\ SignedIn
    BY <1>1, <1>7, <2>1 DEF SignedIn
  <2>3. a \in Alarms
    BY <1>3, <2>1, <2>2
  <2>4. /\ c.time = a.time /\ c.before = a.before
        /\ c.ready <=> a.ready \/ set \/ polling \/ (a.armed /\ t > a.time)
    BY <1>1, <2>1, <2>2
  <2>5. Expected
    BY <1>7, <2>2, <2>4 DEF ExpirationInv
  <2>6. ~a.ready /\ Looks("expiration")
    BY <2>1, <2>2 DEF AlarmsLook, LoopIdle
  <2>7. CASE refresh
    BY <2>7 DEF Expected
  <2>8. CASE ~refresh
    <3>1. a.before # "past"
      BY <2>5, <2>6, <2>8 DEF Expected
    <3>2. a.before \in {None, "past", "before"} /\ a.time \in Int /\ a.armed \in BOOLEAN
      BY <2>3 DEF Alarms
    <3>3. polling \/ a.armed
      BY <1>7, <2>6, <3>1, <3>2 DEF Looks
    <3>4. c.ready \/ t <= c.time
      BY <2>4, <3>2, <3>3
    <3> QED
      BY <2>4, <3>1, <3>4 DEF Expected
  <2> QED
    BY <2>7, <2>8
<1> QED
  BY <1>2, <1>5, <1>6, <1>7 DEF ExpirationInv

\* When a cache changes a refresh is due, and nothing else is known yet.
LEMMA CacheKeeps ==
    ASSUME Inv, NEW n \in Names, CacheChanges(n)
    PROVE  Inv'
<1> USE DEF Inv
<1>1. /\ refresh' = TRUE
      /\ UNCHANGED <<now, polling, own, active, times, level, watched, alarms, thread, asked, lost>>
  BY DEF CacheChanges
<1>2. PICK c \in Tickets \cup {NoCache, Broken} : caches' = [caches EXCEPT ![n] = c]
  BY DEF CacheChanges
<1>3. caches' \in [Names -> Tickets \cup {NoCache, Broken}]
  BY <1>2 DEF LifetimeTypeOK
<1>4. LifetimeTypeOK'
  BY <1>1, <1>3 DEF LifetimeTypeOK
<1>5. AlarmsLook'
  BY <1>1, LooksKept
<1>6. StageInv'
  BY <1>1, StageKept
<1>7. ExpirationInv'
  BY <1>1 DEF ExpirationInv, Expected
<1> QED
  BY <1>4, <1>5, <1>6, <1>7

\* An identity comes into being in a refresh, which nothing but the enumeration
\* of the next one ends, and that finds the thread idle.
LEMMA WatchStep == Inv /\ WatchInv /\ [Next]_vars => WatchInv'
<1> SUFFICES ASSUME LifetimeTypeOK, WatchInv, [Next]_vars
             PROVE  WatchInv'
  BY DEF Inv
<1>1. thread \in Threads /\ level \in Levels \cup {ABSENT}
  BY DEF LifetimeTypeOK
<1>2. ASSUME NEW n \in Names, Create(n) PROVE WatchInv'
  <2>1. thread'.at = "verify" /\ refresh' /\ level' = UNVERIFIED
    BY <1>2 DEF Create, Idle
  <2> QED
    BY <2>1 DEF WatchInv, UNVERIFIED, ABSENT
<1>3. CASE Import
  <2>1. thread.at = "idle" /\ UNCHANGED <<level, watched>> /\ (level = ABSENT => thread' = thread)
    BY <1>3 DEF Import, ABSENT
  <2> QED
    BY <2>1 DEF WatchInv
<1>4. CASE Verify \/ ResetAlarms \/ ConnectAlarms
  <2>1. thread.at # "idle" /\ thread'.at # "idle" /\ UNCHANGED <<level, watched, refresh>>
    BY <1>1, <1>4 DEF Verify, ResetAlarms, ConnectAlarms, Threads
  <2> QED
    BY <2>1 DEF WatchInv
<1>5. CASE SetLevel
  <2>1. thread.at = "level" /\ thread.found # ABSENT /\ (refresh => refresh')
    <3>1. thread.at = "level"
      BY <1>5 DEF SetLevel
    <3>2. thread.found \in Levels
      BY <1>1 DEF Threads
    <3>3. thread.found # ABSENT
      BY <3>2 DEF Levels, ABSENT, ERROR, UNVERIFIED, EXISTS, SIGNED_IN
    <3>4. refresh => refresh'
      BY <1>5, Zenon DEF SetLevel
    <3> QED
      BY <3>1, <3>3, <3>4
  <2>2. \/ level' = ABSENT /\ thread' = Idle
        \/ /\ level' = thread.found /\ watched' = watched
           /\ watched \/ thread'.at # "idle"
    <3>1. [thread EXCEPT !.at = "disconnected", !.fresh = FALSE].at = "disconnected"
      BY <1>1 DEF Threads
    <3>2. [thread EXCEPT !.at = "adding"].at = "adding"
      BY <1>1 DEF Threads
    <3> QED
      BY <1>5, <3>1, <3>2 DEF SetLevel
  <2>3. level # ABSENT
    BY <2>1 DEF WatchInv
  <2> QED
    BY <2>1, <2>2, <2>3 DEF WatchInv, Idle
<1>6. CASE MainLoop
  <2>1. CASE Watch
    <3>1. watched' /\ level' = level /\ level # ABSENT
      BY <2>1 DEF Watch, WatchInv
    <3> QED
      BY <3>1 DEF WatchInv
  <2>2. ASSUME NEW k \in Kinds, WakeUp(k) PROVE WatchInv'
    <3>1. UNCHANGED <<level, watched, thread>>
      BY <2>2 DEF WakeUp
    <3>2. refresh => refresh'
      BY <2>2, Zenon DEF WakeUp
    <3> QED
      BY <3>1, <3>2 DEF WatchInv
  <2> QED
    BY <1>6, <2>1, <2>2 DEF MainLoop
<1>7. CASE Outside \/ UNCHANGED vars
  <2>1. UNCHANGED <<level, watched, thread>> /\ (refresh => refresh')
    <3>1. CASE Tick
      BY <3>1 DEF Tick
    <3>2. CASE ClockSet
      BY <3>2 DEF ClockSet
    <3>3. ASSUME NEW n \in Names, CacheChanges(n)
          PROVE  UNCHANGED <<level, watched, thread>> /\ (refresh => refresh')
      BY <3>3 DEF CacheChanges
    <3>4. CASE UNCHANGED vars
      BY <3>4 DEF vars
    <3> QED
      BY <1>7, <3>1, <3>2, <3>3, <3>4 DEF Outside
  <2> QED
    BY <2>1 DEF WatchInv
<1> QED
  BY <1>2, <1>3, <1>4, <1>5, <1>6, <1>7 DEF Next, Thread

LEMMA InvStep == Inv /\ WatchInv /\ [Next]_vars => Inv'
<1> SUFFICES ASSUME Inv, WatchInv, [Next]_vars
             PROVE  Inv'
  OBVIOUS
<1>1. CASE Thread
  BY <1>1, CreateKeeps, ImportKeeps, VerifyKeeps, ResetKeeps, ConnectKeeps, SetLevelKeeps
     DEF Thread
<1>2. CASE MainLoop
  BY <1>2, WatchKeeps, WakeUpKeeps DEF MainLoop
<1>3. CASE Tick
  <2>1. now + 1 \in Int
    BY DEF Inv, LifetimeTypeOK
  <2>2. /\ LoopIdle /\ now' = now + 1 /\ alarms' = AlarmsAt(now + 1, FALSE)
        /\ UNCHANGED <<polling, caches, own, active, times, level, watched, refresh, thread, asked,
                       lost>>
    BY <1>3 DEF Tick
  <2> QED
    BY <2>1, <2>2, ClockKeeps
<1>4. CASE ClockSet
  <2>1. PICK t \in 0 .. MaxTime : now' = t /\ alarms' = AlarmsAt(t, TRUE)
    BY <1>4 DEF ClockSet
  <2>2. t \in Int
    BY BoundsAssumption
  <2>3. /\ LoopIdle
        /\ UNCHANGED <<polling, caches, own, active, times, level, watched, refresh, thread, asked,
                       lost>>
    BY <1>4 DEF ClockSet
  <2> QED
    BY <2>1, <2>2, <2>3, ClockKeeps
<1>5. CASE \E n \in Names : CacheChanges(n)
  BY <1>5, CacheKeeps
<1>6. CASE UNCHANGED vars
  <2>1. UNCHANGED <<now, polling, caches, own, active, times, level, watched, alarms, refresh,
                    thread, asked, lost>>
    BY <1>6 DEF vars
  <2>2. LifetimeTypeOK'
    BY <2>1 DEF Inv, LifetimeTypeOK
  <2>3. AlarmsLook'
    BY <2>1, LooksKept DEF Inv
  <2>4. StageInv'
    BY <2>1, StageKept DEF Inv
  <2>5. ExpirationInv'
    BY <2>1 DEF Inv, ExpirationInv, Expected, SignedIn
  <2> QED
    BY <2>2, <2>3, <2>4, <2>5 DEF Inv
<1> QED
  BY <1>1, <1>2, <1>3, <1>4, <1>5, <1>6 DEF Next, Outside

LEMMA InvHolds == Spec => []Inv
<1>1. Init => WatchInv
  BY DEF Init, WatchInv, Idle
<1> QED
  BY <1>1, InitInv, InvStep, WatchStep, PTL DEF Spec

-----------------------------------------------------------------------------
(* The theorems. *)

\* At rest no identity passes for signed in whose ticket has run out, for any
\* number of caches and tickets and wherever the clock is set, unless the alarm
\* of its expiration was lost: verify_identity, reset_alarms and
\* fire_or_rearm_alarm together.
THEOREM ExpiryIsNoticed == Spec => []ExpiryNoticed
<1>1. Inv => ExpiryNoticed
  <2> SUFFICES ASSUME Inv, AtRest, level = SIGNED_IN, "expiration" \notin lost
               PROVE  now <= times.end
    BY DEF ExpiryNoticed
  <2>1. SignedIn /\ thread.at = "idle" /\ ~refresh
    BY DEF AtRest, SignedIn
  <2>2. "expiration" \in Kinds
    BY DEF Kinds
  <2>3. Follow(TRUE)
    BY <2>1, <2>2 DEF Inv, StageInv
  <2>4. times \in Tickets /\ AlarmTime("expiration", times) = times.end /\ times.end # None
    BY <2>3, TicketTimes DEF Follow
  <2>5. alarms["expiration"] # None /\ alarms["expiration"].time = times.end
    BY <2>2, <2>3, <2>4 DEF Follow
  <2>6. Expected
    BY <2>1, <2>5 DEF Inv, ExpirationInv
  <2>7. ~alarms["expiration"].ready
    BY <2>2, <2>5 DEF AtRest, LoopIdle
  <2> QED
    BY <2>1, <2>5, <2>6, <2>7 DEF Expected
<1> QED
  BY <1>1, InvHolds, PTL

\* At rest every alarm of a signed-in identity whose time is over was
\* announced, for users to sign in anew or for the ticket to be renewed, unless
\* it was lost: fire_or_rearm_alarm and the handlers of its signals.
THEOREM RenewalIsAnnounced == Spec => []RenewalAnnounced
<1>1. Inv => RenewalAnnounced
  <2> SUFFICES ASSUME Inv, AtRest, level = SIGNED_IN,
                      NEW k \in {"renewal", "expiring"}, k \notin lost,
                      AlarmTime(k, times) # None, now > AlarmTime(k, times)
               PROVE  k \in asked
    BY DEF RenewalAnnounced
  <2>1. SignedIn /\ thread.at = "idle"
    BY DEF AtRest, SignedIn
  <2>2. k \in Kinds
    BY DEF Kinds
  <2>3. Follow(TRUE)
    BY <2>1, <2>2 DEF Inv, StageInv
  <2>4. alarms[k] # None /\ alarms[k].time = AlarmTime(k, times)
    BY <2>2, <2>3 DEF Follow
  <2>5. ~alarms[k].ready /\ Looks(k)
    BY <2>2, <2>4 DEF Inv, AlarmsLook, AtRest, LoopIdle
  <2>6. now \in Int /\ AlarmTime(k, times) \in Int
    BY <2>2, <2>3, TicketTimes DEF Inv, LifetimeTypeOK, Follow
  <2>7. ~(now <= alarms[k].time)
    BY <2>4, <2>6
  <2>8. alarms[k].before = "past"
    BY <2>5, <2>7 DEF Looks
  <2> QED
    BY <2>5, <2>8 DEF Looks
<1> QED
  BY <1>1, InvHolds, PTL
=============================================================================
