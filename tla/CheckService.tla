---------------------------- MODULE CheckService ----------------------------
(***************************************************************************)
(* What goa-daemon promises the callers of EnsureCredentials, without      *)
(* saying how: one credentials check runs at a time, it is about an        *)
(* account somebody wants checked, accounts a client waits for go first,   *)
(* every client waiting for an account gets the answer of the one check    *)
(* that ends, and no wanted check is left behind while nothing runs.       *)
(*                                                                         *)
(* The order among clients, the queue, its priorities, the D-Bus objects   *)
(* and the timers are absent: EnsureCredentials.tla implements this        *)
(* specification with all of them.                                         *)
(***************************************************************************)
CONSTANTS
    Ids,      \* account ids
    Calls,    \* D-Bus invocations of EnsureCredentials, reused once answered
    None      \* no account

Answers == {"ok", "unauthorized", "failed"}

VARIABLES
    wanted,    \* ids somebody, a client or the daemon itself, wants checked
    checking,  \* the id being checked, or None
    state,     \* per call: "idle", "waiting" or the answer it got
    about      \* per call: the id a waiting call asked about, None otherwise

vars == <<wanted, checking, state, about>>

Init ==
    /\ wanted = {}
    /\ checking = None
    /\ state = [c \in Calls |-> "idle"]
    /\ about = [c \in Calls |-> None]

\* The ids of W that may be checked next when the calls are about the ids ab:
\* those a client waits for, any of them when no client waits.
Eligible(W, ab) ==
    LET awaited == {id \in W : \E c \in Calls : ab[c] = id}
    IN  IF awaited # {} THEN awaited ELSE W

Pick(W, ab) ==
    IF W = {} THEN checking' = None ELSE checking' \in Eligible(W, ab)

\* A client asks about account id.
Ask(c, id) ==
    /\ state[c] # "waiting"
    /\ state' = [state EXCEPT ![c] = "waiting"]
    /\ about' = [about EXCEPT ![c] = id]
    /\ wanted' = wanted \cup {id}
    /\ checking' = IF checking = None THEN id ELSE checking

\* The daemon wants the accounts in S checked on its own account.
Background(S) ==
    /\ wanted' = wanted \cup S
    /\ IF checking = None
         THEN Pick(wanted', about)
         ELSE checking' = checking
    /\ UNCHANGED <<state, about>>

\* The check ends with answer v and the next one starts.
Finish(v) ==
    /\ checking # None
    /\ state' = [c \in Calls |-> IF about[c] = checking
                                   THEN v ELSE state[c]]
    /\ about' = [c \in Calls |-> IF about[c] = checking THEN None ELSE about[c]]
    /\ wanted' = wanted \ {checking}
    /\ Pick(wanted', about')

Next ==
    \/ \E c \in Calls, id \in Ids : Ask(c, id)
    \/ \E S \in SUBSET Ids : Background(S)
    \/ \E v \in Answers : Finish(v)

Spec == Init /\ [][Next]_vars
=============================================================================
