------------------------ MODULE MCAttentionScenarios ------------------------
(***************************************************************************)
(* The instance of AccountAttention that also takes the notification on    *)
(* its own.                                                                *)
(***************************************************************************)
EXTENDS MCAccountAttention

VARIABLE scenario

\* Either the daemon as it is, with little under way, or the notification
\* alone, for which the queue may do whatever AttentionNotification allows,
\* with more under way.
MCInit == /\ AttentionInit
          /\ scenario \in {"daemon", "notification"}
          /\ scenario = "notification" => exported = {} /\ credentials[A] = "valid"

Daemon ==
    /\ AttentionNext
    /\ toServer # <<>> => UNCHANGED <<vars, removing, removed>>
    /\ Len(toDaemon') < 2 /\ shown' \subseteq 1 .. 2

Notification ==
    /\ N!NotificationNext
    /\ attention' = [o \in Objects |-> o \in N!Accounts']
    /\ UNCHANGED <<exported, unborn, credentials, queue, running, check, netTimer, call,
                   removing, removed>>

MCNext == /\ UNCHANGED scenario
          /\ \/ scenario = "daemon" /\ Daemon
             \/ scenario = "notification" /\ Notification

\* An answered call is as good as one not made yet: no guard and none of the
\* properties tells them apart.
MCView == <<exported, unborn, attention, credentials, queue, running, check, netTimer,
            {c \in Calls : Waiting(c)}, nvars, removing, removed, scenario>>

MCSpec == MCInit /\ [][MCNext]_<<avars, scenario>>
=============================================================================
