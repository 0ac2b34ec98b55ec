-------------------------- MODULE AccountAttention --------------------------
(***************************************************************************)
(* The credentials queue and the notification together: the steps of       *)
(* goa-daemon's main loop that touch both, the Remove of an account that   *)
(* needs attention, and the exit of the daemon.                            *)
(*                                                                         *)
(* Each step conjoins a step of EnsureCredentials.tla with the step of     *)
(* AttentionNotification.tla that the same handler makes.                  *)
(***************************************************************************)
EXTENDS EnsureCredentials

CONSTANTS NotificationIds, MaxInFlight

\* What AttentionNotification needs of them.
ASSUME NotificationIdsAssumption == NotificationIds \subseteq Nat \ {0}
ASSUME MaxInFlightAssumption == MaxInFlight \in Nat \ {0}

VARIABLES
    needing, needNotify, notificationId, process, toServer, toDaemon, shown,
    lastUpdate, raced,
    removing,   \* objects whose Remove waits for goa_provider_remove_account
    removed     \* objects whose Remove has completed

N == INSTANCE AttentionNotification

nvars == <<needing, needNotify, notificationId, process, toServer, toDaemon, shown,
           lastUpdate, raced>>

avars == <<vars, nvars, removing, removed>>

AttentionInit == Init /\ N!NotificationInit /\ removing = {} /\ removed = {}

\* The main loop runs; MaxInFlight bounds what it has sent.
MainLoop == process = "running" /\ Len(toServer) < MaxInFlight

NoRemoval == UNCHANGED <<removing, removed>>

-----------------------------------------------------------------------------

\* What the collector does to AttentionNeeded of o.
ChangeOf(o) ==
    IF attention'[o] = attention[o] THEN "kept"
    ELSE IF attention'[o] THEN "set" ELSE "cleared"

\* A collector that clears the property and forgets the array.
CollectAndUpdate_ForgetsArray ==
    /\ MainLoop
    /\ Collect
    /\ LET o == Head(queue).object
       IN  N!CheckEnds(o, IF ChangeOf(o) = "set" THEN "set" ELSE "kept", queue' = <<>>)
    /\ NoRemoval

\* A collector that looks at the queue first and flags the account afterwards.
CollectAndUpdate_FlagsLate ==
    /\ MainLoop
    /\ Collect
    /\ LET o == Head(queue).object
       IN  IF ChangeOf(o) = "set" /\ queue' = <<>>
             THEN /\ needing' = Append(needing, o)
                  /\ needNotify' = TRUE
                  /\ IF needing = <<>> THEN N!WithdrawNotification ELSE UNCHANGED toServer
                  /\ UNCHANGED <<notificationId, process, toDaemon, shown, lastUpdate, raced>>
             ELSE N!CheckEnds(o, ChangeOf(o), queue' = <<>>)
    /\ NoRemoval

\* ensure_credentials_queue_collector and, when it empties the queue,
\* goa_daemon_update_notification.
CollectAndUpdate ==
    /\ MainLoop
    /\ Collect
    /\ LET o == Head(queue).object IN N!CheckEnds(o, ChangeOf(o), queue' = <<>>)
    /\ NoRemoval

\* goa_daemon_check_credentials: with no account to check, the queue is found
\* empty and the notification updated.
CheckAndUpdate ==
    /\ MainLoop
    /\ CheckCredentials
    /\ IF queue' = <<>> THEN N!QueueFoundEmpty ELSE UNCHANGED nvars
    /\ NoRemoval

\* on_account_handle_remove up to goa_provider_remove_account.
RemoveStarts(o) ==
    /\ MainLoop
    /\ o \in exported \ (removing \cup removed)
    /\ removing' = removing \cup {o}
    /\ UNCHANGED <<vars, nvars, removed>>

\* remove_account_cb: the reload normally unexports the account; the group may
\* have come back to accounts.conf meanwhile.
RemoveCompletes(o) ==
    /\ MainLoop
    /\ o \in removing
    /\ Reload
    /\ N!AccountRemoved(o)
    /\ removing' = removing \ {o}
    /\ removed' = removed \cup {o}

\* goa_daemon_finalize does not run while a task of the queue refers to the
\* daemon.
Exit(held) ==
    /\ queue # <<>> \/ removing # {} => held
    /\ N!Quit(held)
    /\ UNCHANGED vars /\ NoRemoval

\* The steps of the queue that leave the notification alone.
QueueStep ==
    /\ MainLoop
    /\ \/ \E c \in Calls, o \in Objects : EnsureCredentials(c, o)
       \/ NetworkChanged
       \/ Timeout
       \/ \E r \in Answers : ProviderReturns(r)
       \/ Reload
       \/ \E id \in Ids : CredentialsChange(id)
    /\ UNCHANGED nvars /\ NoRemoval

\* The steps of the notification that leave the queue alone.
NotificationStep ==
    /\ N!HandleMessage \/ N!ServerNotify \/ N!ServerClose \/ N!UserCloses
    /\ UNCHANGED vars /\ NoRemoval

AttentionNext ==
    \/ CollectAndUpdate
    \/ CheckAndUpdate
    \/ \E o \in Objects : RemoveStarts(o) \/ RemoveCompletes(o)
    \/ \E held \in BOOLEAN : Exit(held)
    \/ QueueStep
    \/ NotificationStep

AttentionSpec == AttentionInit /\ [][AttentionNext]_avars

-----------------------------------------------------------------------------
(* Properties. *)

\* The array and the property agree: an account on the bus whose
\* AttentionNeeded is set is in the array once, unless its Remove completed,
\* and no account is in the array whose property is clear.
ArrayMatchesProperty ==
    /\ \A o \in exported \ removed : attention[o] => o \in N!Accounts
    /\ \A o \in N!Accounts : attention[o]
    /\ \A i, j \in DOMAIN needing : needing[i] = needing[j] => i = j

\* The steps of the composed daemon are steps that AttentionNotification
\* allows: what that module assumes of the daemon (an account is set to need
\* attention only while the array does not hold it) is what the queue does.
NotificationBehaviour == N!NotificationSpec

\* What AttentionNotification promises of the notification holds of the
\* composed daemon: it knows what is shown, nothing stays shown that it
\* withdrew, and nothing stays shown after it exits.
BeliefSettles == N!BeliefSettles
ResolvedIsWithdrawn == N!ResolvedIsWithdrawn
ExitWithdraws == N!ExitWithdraws
=============================================================================
