------------------------------ MODULE Dashboard ------------------------------
(***************************************************************************)
(* The dashboard page (app/static/js/dashboard.js): the list of files, the *)
(* permissions dialog and the delete dialog, against the file routes.      *)
(*                                                                         *)
(* The script runs one handler at a time and waits for nothing else, so an *)
(* action is what runs between two awaits.  Calls overlap, and are served  *)
(* and answered in any order.  What a list shows is represented by the     *)
(* number of changes it reflects.                                          *)
(***************************************************************************)
EXTENDS Integers, FiniteSets

CONSTANTS
    Files,      \* the files listed when the page opens
    None,
    MaxCalls,   \* bound: calls in flight
    MaxActions  \* bound: what the user asks for

ASSUME DashboardAssumption ==
    /\ None \notin Files
    /\ MaxCalls \in Nat \ {0}
    /\ MaxActions \in Nat

Calls == 1 .. MaxCalls

VARIABLES
    listed,           \* server: uploads and deletions carried out
    changed,          \* server: grants and revocations carried out per file
    removed,          \* server: files deleted
    call,             \* requests of the page
    list,             \* what the file list shows
    newest,           \* the newest answer about it, a list or an error
    permissionsFile,  \* state.permissionsFile; the dialog is open unless None
    rows,             \* the list in the permissions dialog
    newestRows,       \* the newest answer about them, per file
    deleteFile,       \* state.deleteFile
    begun,            \* what the user has asked for
    unanswered        \* a change was carried out and its answer was an error

page == <<list, newest, permissionsFile, rows, newestRows, deleteFile>>
server == <<listed, changed, removed>>
vars == <<listed, changed, removed, call, list, newest, permissionsFile, rows,
          newestRows, deleteFile, begun, unanswered>>

Version == 0 .. MaxActions
Changes == {"upload", "grant", "revoke", "delete"}

\* "button" is the one that stays busy until the call, and the reload it leads
\* to, are over.
Call == [pc: {"idle", "sent", "answered"},
         kind: {"none", "files", "permissions"} \union Changes, file: Files \union {None},
         button: {"none", "upload", "grant", "delete"}, ok: BOOLEAN, version: Version]
IdleCall == [pc |-> "idle", kind |-> "none", file |-> None, button |-> "none",
             ok |-> FALSE, version |-> 0]
Request(kind, file, button) ==
    [IdleCall EXCEPT !.pc = "sent", !.kind = kind, !.file = file, !.button = button]

\* "of" is the file of the last loadPermissions.  A closed dialog keeps rows
\* that nobody sees and the next opening replaces; they are left out.
Rows == [state: {"empty", "loading", "shown", "failed"}, of: Files \union {None},
         version: Version]
NoRows == [state |-> "empty", of |-> None, version |-> 0]
Loading(f) == [state |-> "loading", of |-> f, version |-> 0]

\* initializeDashboard has asked for the list.
Init ==
    /\ listed = 0
    /\ changed = [f \in Files |-> 0]
    /\ removed = {}
    /\ call = [c \in Calls |-> IF c = 1 THEN Request("files", None, "none") ELSE IdleCall]
    /\ list = [state |-> "loading", version |-> 0]
    /\ newest = 0
    /\ permissionsFile = None
    /\ rows = NoRows
    /\ newestRows = changed
    /\ deleteFile = None
    /\ begun = 0
    /\ unanswered = FALSE

-----------------------------------------------------------------------------
\* Calls are numbered as they fit; the number means nothing.
Idle(c) == call[c].pc = "idle"
FirstIdle(c) == Idle(c) /\ \A d \in 1 .. c - 1 : ~Idle(d)
Answered(c, kind) == call[c].pc = "answered" /\ call[c].kind = kind
Busy(button) == \E c \in Calls : call[c].button = button

\* A grant or a revocation in flight will need a second call.
Room == Cardinality({c \in Calls : Idle(c)})
          > Cardinality({c \in Calls : call[c].kind \in {"grant", "revoke"}})
NoDialog == permissionsFile = None /\ deleteFile = None
Ready(c) == FirstIdle(c) /\ Room /\ list.state # "loading"

Send(c, kind, file, button) == call' = [call EXCEPT ![c] = Request(kind, file, button)]
Finish(c) == call' = [call EXCEPT ![c] = IdleCall]

Act == begun < MaxActions /\ begun' = begun + 1

Ask(c, kind, file, button) ==
    /\ Ready(c)
    /\ Act
    /\ Send(c, kind, file, button)
    /\ UNCHANGED <<server, unanswered>>

-----------------------------------------------------------------------------
(* What the user does.  An open dialog is modal.                           *)

Upload(c) ==
    /\ NoDialog
    /\ ~Busy("upload")
    /\ Ask(c, "upload", None, "upload")
    /\ UNCHANGED page

\* A download refused with 403 or 404 refreshes the list.
RefuseDownload(c) ==
    /\ NoDialog
    /\ Ask(c, "files", None, "none")
    /\ UNCHANGED page

OpenPermissions(c, f) ==
    /\ NoDialog
    /\ permissionsFile' = f
    /\ rows' = Loading(f)
    /\ Ask(c, "permissions", f, "none")
    /\ UNCHANGED <<list, newest, newestRows, deleteFile>>

ClosePermissions ==
    /\ permissionsFile # None
    /\ permissionsFile' = None
    /\ rows' = NoRows
    /\ UNCHANGED <<server, call, list, newest, newestRows, deleteFile, begun, unanswered>>

\* Mutant: the button is not made busy.
GrantTwice(c) ==
    /\ permissionsFile # None
    /\ Ask(c, "grant", permissionsFile, "grant")
    /\ UNCHANGED page

Grant(c) ==
    /\ permissionsFile # None
    /\ ~Busy("grant")
    /\ Ask(c, "grant", permissionsFile, "grant")
    /\ UNCHANGED page

\* Each row has a button of its own.
Revoke(c) ==
    /\ permissionsFile # None
    /\ rows.state = "shown"
    /\ Ask(c, "revoke", permissionsFile, "none")
    /\ UNCHANGED page

OpenDelete(f) ==
    /\ NoDialog
    /\ list.state # "loading"
    /\ Act
    /\ deleteFile' = f
    /\ UNCHANGED <<server, call, list, newest, permissionsFile, rows, newestRows, unanswered>>

CancelDelete ==
    /\ deleteFile # None
    /\ deleteFile' = None
    /\ UNCHANGED <<server, call, list, newest, permissionsFile, rows, newestRows, begun,
                   unanswered>>

ConfirmDelete(c) ==
    /\ deleteFile # None
    /\ ~Busy("delete")
    /\ Ready(c)
    /\ Send(c, "delete", deleteFile, "delete")
    /\ UNCHANGED <<server, page, begun, unanswered>>

-----------------------------------------------------------------------------
(* The server.                                                             *)

Carry(c) ==
    CASE call[c].kind = "upload" ->
           listed' = listed + 1 /\ UNCHANGED <<changed, removed>>
      [] call[c].kind = "delete" ->
           /\ listed' = listed + 1
           /\ removed' = removed \union {call[c].file}
           /\ UNCHANGED changed
      [] OTHER ->
           /\ changed' = [changed EXCEPT ![call[c].file] = @ + 1]
           /\ UNCHANGED <<listed, removed>>

Exists(c) == call[c].file \notin removed

\* The changes an answer to this call knows of.
Current(c) == CASE call[c].kind = "files" -> listed
                [] call[c].kind = "permissions" -> changed[call[c].file]
                [] OTHER -> 0

Read(c) ==
    /\ call[c].pc = "sent"
    /\ call[c].kind \in {"files", "permissions"}
    /\ Exists(c)
    /\ call' = [call EXCEPT ![c].pc = "answered", ![c].ok = TRUE, ![c].version = Current(c)]
    /\ UNCHANGED <<server, page, begun, unanswered>>

\* The answer may be lost although the change was made.
Change(c, ok) ==
    /\ call[c].pc = "sent"
    /\ call[c].kind \in Changes
    /\ Exists(c)
    /\ Carry(c)
    /\ call' = [call EXCEPT ![c].pc = "answered", ![c].ok = ok]
    /\ unanswered' = (unanswered \/ ~ok)
    /\ UNCHANGED <<page, begun>>

\* Refused, or never served.
Refuse(c) ==
    /\ call[c].pc = "sent"
    /\ call' = [call EXCEPT ![c].pc = "answered", ![c].version = Current(c)]
    /\ UNCHANGED <<server, page, begun, unanswered>>

-----------------------------------------------------------------------------
(* What the page does with an answer.                                      *)

Newer(a, b) == IF a > b THEN a ELSE b

\* refreshFiles after its await: whatever has arrived is shown.
ShowFiles(c) ==
    /\ Answered(c, "files")
    /\ list' = [state |-> IF call[c].ok THEN "shown" ELSE "failed", version |-> call[c].version]
    /\ newest' = Newer(newest, call[c].version)
    /\ Finish(c)
    /\ UNCHANGED <<server, permissionsFile, rows, newestRows, deleteFile, begun, unanswered>>

\* Mutant: the file is not compared with the one the dialog is about.
ShowAnyPermissions(c) ==
    /\ Answered(c, "permissions")
    /\ rows' = [state |-> IF call[c].ok THEN "shown" ELSE "failed",
                of |-> call[c].file, version |-> call[c].version]
    /\ Finish(c)
    /\ UNCHANGED <<server, list, newest, permissionsFile, newestRows, deleteFile, begun,
                   unanswered>>

\* Mutant: an error leaves the list as it is.
ShowGoodPermissions(c) ==
    /\ Answered(c, "permissions")
    /\ IF permissionsFile = call[c].file /\ call[c].ok
       THEN rows' = [state |-> "shown", of |-> call[c].file, version |-> call[c].version]
       ELSE UNCHANGED rows
    /\ Finish(c)
    /\ UNCHANGED <<server, list, newest, permissionsFile, newestRows, deleteFile, begun,
                   unanswered>>

\* loadPermissions after its await.
ShowPermissions(c) ==
    /\ Answered(c, "permissions")
    /\ IF permissionsFile = call[c].file
       THEN /\ rows' = [state |-> IF call[c].ok THEN "shown" ELSE "failed",
                        of |-> call[c].file, version |-> call[c].version]
            /\ newestRows' = [newestRows EXCEPT ![call[c].file] = Newer(@, call[c].version)]
       ELSE UNCHANGED <<rows, newestRows>>
    /\ Finish(c)
    /\ UNCHANGED <<server, list, newest, permissionsFile, deleteFile, begun, unanswered>>

\* Mutant: the list is not loaded again.
AfterUploadNothing(c) ==
    /\ Answered(c, "upload")
    /\ Finish(c)
    /\ UNCHANGED <<server, page, begun, unanswered>>

\* handleUpload after its await.
AfterUpload(c) ==
    /\ Answered(c, "upload")
    /\ IF call[c].ok THEN Send(c, "files", None, "upload") ELSE Finish(c)
    /\ UNCHANGED <<server, page, begun, unanswered>>

\* handleDelete after its await: the dialog that is open is closed.
AfterDelete(c) ==
    /\ Answered(c, "delete")
    /\ deleteFile' = IF call[c].ok THEN None ELSE deleteFile
    /\ IF call[c].ok THEN Send(c, "files", None, "delete") ELSE Finish(c)
    /\ UNCHANGED <<server, list, newest, permissionsFile, rows, newestRows, begun, unanswered>>

\* handleGrantPermission and handleRevokePermission after their await: both
\* lists are loaded again, whatever the dialog is about by now.
AfterPermissionChange(c) ==
    /\ Answered(c, "grant") \/ Answered(c, "revoke")
    /\ \/ /\ call[c].ok
          /\ \E d \in Calls :
               /\ FirstIdle(d)
               /\ call' = [call EXCEPT
                    ![c] = Request("files", None, call[c].button),
                    ![d] = Request("permissions", call[c].file, call[c].button)]
          /\ rows' = IF permissionsFile = None THEN NoRows ELSE Loading(call[c].file)
       \/ /\ ~call[c].ok
          /\ Finish(c)
          /\ UNCHANGED rows
    /\ UNCHANGED <<server, list, newest, permissionsFile, newestRows, deleteFile, begun,
                   unanswered>>

-----------------------------------------------------------------------------
User(c) ==
    \/ Upload(c)
    \/ RefuseDownload(c)
    \/ \E f \in Files : OpenPermissions(c, f)
    \/ Grant(c)
    \/ Revoke(c)
    \/ ConfirmDelete(c)

Dialogs == ClosePermissions \/ CancelDelete \/ \E f \in Files : OpenDelete(f)
Server(c) == Read(c) \/ (\E ok \in BOOLEAN : Change(c, ok)) \/ Refuse(c)
Page(c) == ShowFiles(c) \/ ShowPermissions(c) \/ AfterUpload(c) \/ AfterDelete(c)
             \/ AfterPermissionChange(c)

Next == Dialogs \/ \E c \in Calls : User(c) \/ Server(c) \/ Page(c)

\* Calls end sooner or later, with an error if need be, and the script handles
\* what has arrived; in which order is open, and the user need not do anything.
Fairness == WF_vars(\E c \in Calls : Server(c) \/ Page(c))

Spec == Init /\ [][Next]_vars /\ Fairness

-----------------------------------------------------------------------------
(* Properties.                                                             *)

\* Page, calls and server are well formed, and a busy button keeps its handler
\* from running twice (setButtonBusy).
TypeOK ==
    /\ {listed, newest, begun} \subseteq Version /\ unanswered \in BOOLEAN
    /\ {changed, newestRows} \subseteq [Files -> Version]
    /\ removed \subseteq Files
    /\ call \in [Calls -> Call]
    /\ list \in [state: {"loading", "shown", "failed"}, version: Version]
    /\ {permissionsFile, deleteFile} \subseteq Files \union {None}
    /\ rows \in Rows
    /\ \A kind \in {"upload", "grant", "delete"} :
         Cardinality({c \in Calls : call[c].kind = kind}) <= 1

\* The rows of the permissions dialog are those of the file it names, so a
\* Revoke button means what it says ("state.permissionsFile?.id === fileId",
\* loadPermissions), whichever answers are still to come.
RowsBelongToDialog ==
    permissionsFile # None /\ rows.state = "shown" => rows.of = permissionsFile

Quiet == \A c \in Calls : Idle(c)
Overtaken == list.version < newest
RowsOvertaken == rows.version < newestRows[permissionsFile]

\* When nothing is in flight the page shows the owner's own changes: the list
\* each upload and deletion, the open dialog each grant and revocation of its
\* file.  Excepted are an answer that an older one has replaced (refreshFiles
\* and loadPermissions keep no order) and a change reported as an error.
ShownIsCurrent ==
    Quiet /\ ~unanswered =>
        /\ list.state = "shown" /\ ~Overtaken => list.version = listed
        /\ permissionsFile # None /\ rows.state = "shown" /\ ~RowsOvertaken
             => rows.version = changed[permissionsFile]

\* "Loading authorized users" does not stay: the dialog gets its rows or an
\* error, unless it is closed or a late change of another file takes its place
\* in the list (loadPermissions clears the list before it compares).
LoadingEnds ==
    \A f \in Files :
        permissionsFile = f /\ rows.state = "loading" /\ rows.of = f
        ~> permissionsFile # f \/ rows.state # "loading" \/ rows.of # f
=============================================================================
