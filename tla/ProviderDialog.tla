--------------------------- MODULE ProviderDialog ---------------------------
(***************************************************************************)
(* GoaProviderDialog and the task bound to it, for the one setup of a      *)
(* provider that runs: what its functions make of a dialog, a record of    *)
(* its state, whether it is on the screen, and the answers its task has    *)
(* returned.                                                               *)
(*                                                                         *)
(* An answer that finds the dialog closed reads the entries of a dialog    *)
(* that is gone: the behaviour is undefined from there on and the model of *)
(* the setup ends.                                                         *)
(***************************************************************************)
EXTENDS Sequences, Naturals

CONSTANTS
    Logins,     \* what the user may type in: a server, a user and the like
    Existing,   \* what accounts of the provider are already for
    None,
    MaxEdits,   \* bound: changes of the entries
    MaxTries    \* bound: sign-ins

VARIABLES
    provider,
    kind,       \* "add" or "refresh"
    dialog,
    op,         \* the call under way, or None
    accepted,   \* history: what servers accepted during this sign-in
    saved,      \* the account, or its password, as it was stored
    edits, tries \* history

dialogVars == <<provider, kind, dialog, op, accepted, saved, edits, tries>>

\* GoaDialogState.
IDLE == "idle"
READY == "ready"
BUSY == "busy"
ERROR == "error"
DONE == "done"

\* goa_provider_task_run_in_dialog.
DialogInit(state) ==
    /\ dialog = [state |-> state, open |-> TRUE, answers |-> <<>>]
    /\ op = None /\ accepted = {} /\ saved = None /\ edits = 0 /\ tries = 0

\* goa_provider_dialog_set_state: nothing becomes of a dialog that is done, and
\* one that gets done is closed.
SetState(d, state) ==
    IF d.state = DONE THEN d
    ELSE [d EXCEPT !.state = state, !.open = @ /\ state # DONE]

\* goa_provider_dialog_report_error.
ReportError(d) == SetState(d, ERROR)

\* goa_provider_task_return_account, goa_provider_task_return_error.
ReturnInDialog(d, answer) ==
    IF d.state = DONE THEN d
    ELSE [SetState(d, DONE) EXCEPT !.answers = Append(@, answer)]

\* g_task_return_boolean, g_task_return_new_error: the dialog does not learn
\* of it.
ReturnBehindDialog(d, answer) == [d EXCEPT !.answers = Append(@, answer)]

\* "closed": the user closes the dialog, or the caller cancels the task.
Closed(d) == [ReturnInDialog(d, "dismissed") EXCEPT !.open = FALSE]

\* Entries are insensitive while the dialog is busy.
Edit ==
    /\ dialog.open /\ dialog.state # BUSY
    /\ edits < MaxEdits /\ edits' = edits + 1
    /\ UNCHANGED <<provider, kind, op, accepted, saved, tries>>

\* The button of the page, and that of the banner with an error, make the
\* dialog busy; its provider takes it from there.
Activate ==
    /\ dialog.open /\ dialog.state \in {READY, ERROR}
    /\ tries < MaxTries /\ tries' = tries + 1
    /\ accepted' = {}
    /\ UNCHANGED <<provider, kind, saved, edits>>

\* goa_utils_check_duplicate.
Duplicate(login) == kind = "add" /\ login \in Existing

\* An answer to the call under way.
Answers(at) ==
    /\ op # None /\ op.at = at /\ dialog.open
    /\ UNCHANGED <<provider, kind, edits, tries>>

\* Mutant: the dialog is not told.
Fails_Silent == op' = None /\ UNCHANGED <<dialog, accepted, saved>>

\* goa_provider_dialog_report_error ends the attempt.
Fails == dialog' = ReportError(dialog) /\ op' = None /\ UNCHANGED <<accepted, saved>>

\* goa_manager_call_add_account and add_account_credentials_cb, which every
\* provider has in the same form.
AddAccount(account) == op' = [at |-> "add", account |-> account] /\ UNCHANGED <<dialog, saved>>

AddAnswers ==
    /\ Answers("add")
    /\ \/ saved' = op.account /\ dialog' = ReturnInDialog(dialog, "account")
       \/ saved' = saved /\ dialog' = ReturnInDialog(dialog, "error")
    /\ op' = None /\ UNCHANGED accepted

\* goa_utils_store_credentials_for_object_sync, then EnsureCredentials.
StorePassword(password) ==
    \/ saved' = password /\ op' = [at |-> "ensure"] /\ UNCHANGED dialog
    \/ saved' = saved /\ op' = None /\ dialog' = ReturnInDialog(dialog, "error")

\* refresh_account_credentials_cb, the same for every provider: success does not
\* reach the dialog.
EnsureAnswers ==
    /\ Answers("ensure")
    /\ dialog' \in {ReturnBehindDialog(dialog, "ok"), ReturnInDialog(dialog, "error")}
    /\ op' = None /\ UNCHANGED <<accepted, saved>>

\* goa_provider_task_run_in_dialog_cb.
Close ==
    /\ dialog.open
    /\ dialog' = Closed(dialog)
    /\ UNCHANGED <<provider, kind, op, accepted, saved, edits, tries>>
=============================================================================
