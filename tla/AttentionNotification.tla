----------------------- MODULE AttentionNotification -----------------------
(***************************************************************************)
(* The "Account Action Required" notification of goa-daemon                *)
(* (src/daemon/goadaemon.c): the accounts that need attention, the id the  *)
(* daemon believes its notification has, and the messages between the      *)
(* daemon and the notification server, which is external.                  *)
(*                                                                         *)
(* Notify is called without waiting, so that the daemon goes on with the   *)
(* id it knew.  Messages in each direction arrive in the order sent.       *)
(***************************************************************************)
EXTENDS Naturals, Sequences, SequencesExt

CONSTANTS
    Objects,          \* accounts (GoaObject instances)
    NotificationIds,  \* ids the server gives out, positive as the protocol says
    MaxInFlight       \* bound: messages under way in one direction

VARIABLES
    needing,         \* accounts_needing_attention
    needNotify,      \* accounts_need_notification
    notificationId,  \* notification_id, 0 when the daemon knows of none
    process,         \* the daemon: "running", "finalized", or "leaked" at exit
    toServer,        \* calls under way to the notification server
    toDaemon,        \* replies and signals under way to the daemon
    shown,           \* notifications of the daemon on the screen
    lastUpdate,      \* history: what goa_daemon_update_notification did last
    raced            \* history: it did so while a Notify had no reply yet

nvars == <<needing, needNotify, notificationId, process, toServer, toDaemon, shown,
           lastUpdate, raced>>

Notify(replaces) == [type |-> "Notify", id |-> replaces]
CloseNotification(id) == [type |-> "Close", id |-> id]
Reply(id) == [type |-> "Reply", id |-> id]
ErrorReply == [type |-> "Error", id |-> 0]
NotificationClosed(id) == [type |-> "Closed", id |-> id]

Accounts == ToSet(needing)

NotificationInit ==
    /\ needing = <<>>
    /\ needNotify = FALSE
    /\ notificationId = 0
    /\ process = "running"
    /\ toServer = <<>>
    /\ toDaemon = <<>>
    /\ shown = {}
    /\ lastUpdate = "none"
    /\ raced = FALSE

\* A Notify whose reply the daemon has not handled.
NotifyOutstanding ==
    \/ \E i \in DOMAIN toServer : toServer[i].type = "Notify"
    \/ \E i \in DOMAIN toDaemon : toDaemon[i].type \in {"Reply", "Error"}

Quiet == toServer = <<>> /\ toDaemon = <<>>

-----------------------------------------------------------------------------
(* The daemon. *)

\* A Notify that does not replace the notification already shown.
SendNotification_New == toServer' = Append(toServer, Notify(0))

\* goa_daemon_send_notification: the call names the notification to replace.
SendNotification == toServer' = Append(toServer, Notify(notificationId))

\* A withdrawal that never happens.
WithdrawNotification_Never == UNCHANGED toServer

\* goa_daemon_withdraw_notification: nothing to close while the id is unknown.
WithdrawNotification ==
    toServer' = IF notificationId > 0
                  THEN Append(toServer, CloseNotification(notificationId))
                  ELSE toServer

\* goa_daemon_update_notification when the array is list and the flag need.
UpdateNotification(list, need) ==
    /\ needNotify' = FALSE
    /\ \/ need /\ SendNotification /\ lastUpdate' = "notified"
       \/ ~need /\ list = <<>> /\ WithdrawNotification /\ lastUpdate' = "withdrawn"
       \/ ~need /\ list # <<>> /\ UNCHANGED <<toServer, lastUpdate>>
    /\ raced' = (raced \/ (NotifyOutstanding /\ (need \/ list = <<>>)))

NoUpdate == UNCHANGED <<toServer, lastUpdate, raced>>

\* ensure_credentials_queue_collector on an account whose AttentionNeeded
\* becomes TRUE ("set"), becomes FALSE ("cleared") or is left as it is
\* ("kept"); drained says that it found the queue empty afterwards.
CheckEnds(o, change, drained) ==
    /\ process = "running"
    /\ needing' = CASE change = "set" -> Append(needing, o)
                    [] change = "cleared" -> RemoveFirst(needing, o)
                    [] change = "kept" -> needing
    /\ LET need == needNotify \/ change = "set"
       IN  IF drained THEN UpdateNotification(needing', need)
                      ELSE needNotify' = need /\ NoUpdate
    /\ UNCHANGED <<notificationId, process, toDaemon, shown>>

\* ensure_credentials_queue_check finds the queue empty on its own.
QueueFoundEmpty ==
    /\ process = "running"
    /\ UpdateNotification(needing, needNotify)
    /\ UNCHANGED <<needing, notificationId, process, toDaemon, shown>>

\* remove_account_cb for account o.
AccountRemoved(o) ==
    /\ process = "running"
    /\ needing' = RemoveFirst(needing, o)
    /\ IF o \in Accounts THEN UpdateNotification(needing', needNotify)
                         ELSE needNotify' = needNotify /\ NoUpdate
    /\ UNCHANGED <<notificationId, process, toDaemon, shown>>

\* A callback that takes the failure of a Notify for a closed notification.
HandleMessage_ErrorResets ==
    /\ process = "running" /\ toDaemon # <<>>
    /\ toDaemon' = Tail(toDaemon)
    /\ LET m == Head(toDaemon)
       IN  notificationId' = CASE m.type = "Reply" -> m.id
                               [] m.type = "Error" -> 0
                               [] m.type = "Closed" /\ m.id = notificationId -> 0
                               [] OTHER -> notificationId
    /\ UNCHANGED <<needing, needNotify, process, toServer, shown, lastUpdate, raced>>

\* goa_daemon_send_notification_cb and on_notification_signal.  A failed
\* Notify changes nothing; ActionInvoked asks the Settings application to open
\* its panel, changes nothing of the daemon and is not a message here.
HandleMessage ==
    /\ process = "running" /\ toDaemon # <<>>
    /\ toDaemon' = Tail(toDaemon)
    /\ LET m == Head(toDaemon)
       IN  notificationId' = CASE m.type = "Reply" -> m.id
                               [] m.type = "Closed" /\ m.id = notificationId -> 0
                               [] OTHER -> notificationId
    /\ UNCHANGED <<needing, needNotify, process, toServer, shown, lastUpdate, raced>>

\* An exit that leaves the notification.
Quit_Silent(held) ==
    /\ process = "running"
    /\ NotifyOutstanding => held
    /\ process' = IF held THEN "leaked" ELSE "finalized"
    /\ UNCHANGED toServer
    /\ toDaemon' = <<>>
    /\ UNCHANGED <<needing, needNotify, notificationId, shown, lastUpdate, raced>>

\* The main loop ends and main drops its reference.  goa_daemon_finalize runs
\* unless somebody else holds one, as a Notify under way does; it withdraws the
\* notification.  Nobody reads what arrives afterwards.
Quit(held) ==
    /\ process = "running"
    /\ NotifyOutstanding => held
    /\ process' = IF held THEN "leaked" ELSE "finalized"
    /\ IF held THEN UNCHANGED toServer ELSE WithdrawNotification
    /\ toDaemon' = <<>>
    /\ UNCHANGED <<needing, needNotify, notificationId, shown, lastUpdate, raced>>

-----------------------------------------------------------------------------
(* The notification server and the user. *)

Room == Len(toDaemon) < MaxInFlight

\* The server sends m to the daemon, if that is still there.
Send(m) ==
    toDaemon' = IF process = "running" THEN Append(toDaemon, m) ELSE toDaemon

\* Ids nothing refers to any more: the server counts up and does not reuse one.
UnusedIds == NotificationIds \ (shown \cup {notificationId}
                                \cup {m.id : m \in ToSet(toServer) \cup ToSet(toDaemon)})

\* Notify replaces the notification it names while that is shown, brings up a
\* new one otherwise, or fails.
ServerNotify ==
    /\ toServer # <<>> /\ Head(toServer).type = "Notify"
    /\ Room
    /\ toServer' = Tail(toServer)
    /\ \/ /\ Send(ErrorReply)
          /\ shown' = shown
       \/ LET replaced == Head(toServer).id
          IN  \E id \in IF replaced \in shown THEN {replaced}
                        ELSE {i \in UnusedIds : \A j \in UnusedIds : i <= j} :
                 /\ Send(Reply(id))
                 /\ shown' = shown \cup {id}
    /\ UNCHANGED <<needing, needNotify, notificationId, process, lastUpdate, raced>>

\* CloseNotification; the signal NotificationClosed says that it closed.
ServerClose ==
    /\ toServer # <<>> /\ Head(toServer).type = "Close"
    /\ Room
    /\ toServer' = Tail(toServer)
    /\ LET id == Head(toServer).id
       IN  /\ shown' = shown \ {id}
           /\ IF id \in shown THEN Send(NotificationClosed(id)) ELSE UNCHANGED toDaemon
    /\ UNCHANGED <<needing, needNotify, notificationId, process, lastUpdate, raced>>

\* The user dismisses or activates a notification.
UserCloses ==
    /\ Room
    /\ \E id \in shown :
          /\ shown' = shown \ {id}
          /\ Send(NotificationClosed(id))
    /\ UNCHANGED <<needing, needNotify, notificationId, process, toServer, lastUpdate,
                   raced>>

-----------------------------------------------------------------------------

\* The calls the rest of the daemon makes.  An account is set to need
\* attention only when it did not: then it is not in the array.
CallsFromDaemon ==
    /\ Len(toServer) < MaxInFlight
    /\ \/ \E o \in Objects, drained \in BOOLEAN :
             \/ o \notin Accounts /\ CheckEnds(o, "set", drained)
             \/ CheckEnds(o, "cleared", drained)
             \/ CheckEnds(o, "kept", drained)
       \/ QueueFoundEmpty
       \/ \E o \in Objects : AccountRemoved(o)

NotificationNext ==
    \/ CallsFromDaemon
    \/ HandleMessage
    \/ \E held \in BOOLEAN : Quit(held)
    \/ ServerNotify
    \/ ServerClose
    \/ UserCloses

NotificationSpec == NotificationInit /\ [][NotificationNext]_nvars

-----------------------------------------------------------------------------
(* Properties. *)

\* Unless an update came between a Notify and its reply: once all messages
\* have arrived, the daemon knows exactly the notification that is shown,
\* whatever the user dismissed, the server refused or the daemon withdrew.
BeliefSettles ==
    Quiet /\ process = "running" /\ ~raced => shown = {notificationId} \ {0}

\* Under the same condition, no notification stays on the screen after the
\* daemon decided that no account needs attention any more.
ResolvedIsWithdrawn ==
    Quiet /\ lastUpdate = "withdrawn" /\ ~raced => shown = {}

\* A daemon that is finalized leaves no notification behind.
ExitWithdraws ==
    Quiet /\ process = "finalized" /\ ~raced => shown = {}

=============================================================================
