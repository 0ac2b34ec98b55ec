------------------------ MODULE CredentialFreshness ------------------------
(***************************************************************************)
(* How old the answer of an EnsureCredentials call may be.  The queue lets *)
(* a call join a check that is already running, and the answer of that     *)
(* check may rest on what the provider saw before the call was made.       *)
(*                                                                         *)
(* The module adds two history variables to EnsureCredentials.tla and      *)
(* changes none of its steps.                                              *)
(***************************************************************************)
EXTENDS EnsureCredentials

VARIABLES
    seen,   \* per waiting call: what its account's credentials were since then
    late    \* per waiting call: it joined a check that was running

historyVars == <<vars, seen, late>>

HistoryInit ==
    /\ Init
    /\ seen = [c \in Calls |-> {}]
    /\ late = [c \in Calls |-> FALSE]

HistoryNext ==
    /\ Next
    /\ seen' = [c \in Calls |->
                  IF Waiting(c)' THEN seen[c] \cup {credentials'[IdOf[call'[c].object]]}
                                 ELSE {}]
    /\ late' = [c \in Calls |->
                  IF Waiting(c) THEN Waiting(c)' /\ late[c]
                                ELSE running /\ Waiting(c)' /\ c \in Head(queue').calls]

HistorySpec == HistoryInit /\ [][HistoryNext]_historyVars

FairHistorySpec == HistorySpec /\ Fairness

-----------------------------------------------------------------------------

AnsweredWith(c, v) == Waiting(c) /\ call'[c].state = v

\* The answer v of call c is one the credentials had deserved at some time
\* since the call was made.
Deserved(c) ==
    /\ AnsweredWith(c, "ok") => "valid" \in seen[c]
    /\ AnsweredWith(c, "unauthorized") => "expired" \in seen[c]

\* EnsureCredentials "returns an error if the cached credentials are not valid"
\* (data/dbus-interfaces.xml).  An answer never contradicts what the
\* credentials were during the whole call, unless the call joined a check that
\* was running: that check may have looked before the call was made.
FreshUnlessLate == [][\A c \in Calls : late[c] \/ Deserved(c)]_historyVars
=============================================================================
