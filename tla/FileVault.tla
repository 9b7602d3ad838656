------------------------------ MODULE FileVault ------------------------------
(***************************************************************************)
(* Uploaded files: bytes in private storage, metadata rows and grants      *)
(* (app/services/file_service.py, app/services/permission_service.py).     *)
(*                                                                         *)
(* Storage and database share no transaction and no request locks a row,   *)
(* so a request is modelled as the storage calls and commits it makes, one *)
(* action each; any of them can fail, and the process can die in between.  *)
(* A request refused by its checks changes nothing and is not modelled.    *)
(***************************************************************************)
EXTENDS Integers, FiniteSets

CONSTANTS
    Users,
    Requests,   \* threads serving the file and permission routes
    None,
    MaxFiles,   \* bound: uploads ever begun
    MaxGrants,  \* bound: rows ever inserted into file_permissions
    MaxCrashes  \* bound: requests that die half-way

ASSUME VaultAssumption ==
    /\ None \notin Users \union Nat \union [file: Nat, user: Users]
    /\ MaxFiles \in Nat
    /\ MaxGrants \in Nat
    /\ MaxCrashes \in Nat

FileId == 1 .. MaxFiles     \* a file and its stored_filename: one uuid per upload
GrantId == 1 .. MaxGrants

VARIABLES
    stored,       \* the bytes under each stored_filename
    backend,      \* files.storage_backend
    owner,        \* files.owner_id; None while the row does not exist
    begun,        \* uploads begun
    grants,       \* file_permissions, numbered in insertion order
    granted,      \* how many there have been
    verified,     \* users with email_verified_at set
    request,      \* local state of a request
    acknowledged, \* uploads answered with success
    withdrawn,    \* files whose bytes a delete request has begun to remove
    deleted,      \* deletions answered with success
    reported,     \* keys logged as "Upload rollback cleanup failed"
    abandoned,    \* keys a crash or a failed write gave up, with no log entry
    doubtful,     \* uploads whose commit raised
    crashes

table == <<owner, grants, granted>>
history == <<acknowledged, withdrawn, deleted, reported, abandoned, doubtful>>
vars == <<stored, backend, owner, begun, grants, granted, verified, request,
          acknowledged, withdrawn, deleted, reported, abandoned, doubtful, crashes>>

Grant == [file: FileId, user: Users]
Request == [pc: {"idle", "writing", "inserting", "cleaning", "deleting", "purging",
                 "opening", "serving", "granting", "revoking"},
            user: Users \union {None}, file: FileId \union {None},
            grantee: Users \union {None}, grant: GrantId \union {None}]
IdleRequest == [pc |-> "idle", user |-> None, file |-> None,
                grantee |-> None, grant |-> None]

Init ==
    /\ stored = [f \in FileId |-> "none"]
    /\ backend = [f \in FileId |-> None]
    /\ owner = [f \in FileId |-> None]
    /\ begun = 0
    /\ grants = [g \in GrantId |-> None]
    /\ granted = 0
    /\ verified \in SUBSET Users
    /\ request = [r \in Requests |-> IdleRequest]
    /\ acknowledged = {}
    /\ withdrawn = {}
    /\ deleted = {}
    /\ reported = {}
    /\ abandoned = {}
    /\ doubtful = {}
    /\ crashes = 0

-----------------------------------------------------------------------------
At(r, pc) == request[r].pc = pc
FileOf(r) == request[r].file

GrantsTo(f, u) == {g \in GrantId : grants[g] = [file |-> f, user |-> u]}

\* Mutant: the query for a grant forgets the user.
AccessOfAnybody(f, u) == owner[f] = u \/ \E g \in GrantId, v \in Users : g \in GrantsTo(f, v)

\* user_can_access
CanAccess(f, u) == owner[f] = u \/ GrantsTo(f, u) # {}

Begin(r, u, pc, f, grantee, grant) ==
    /\ At(r, "idle")
    /\ request' = [request EXCEPT ![r] =
                    [pc |-> pc, user |-> u, file |-> f, grantee |-> grantee, grant |-> grant]]

Proceed(r, pc) == request' = [request EXCEPT ![r].pc = pc]
Answer(r) == request' = [request EXCEPT ![r] = IdleRequest]

-----------------------------------------------------------------------------
(* Upload.                                                                 *)

\* O_CREAT makes the file appear at once; a blob appears with its put.
StartUpload(r, u, b) ==
    /\ begun < MaxFiles
    /\ begun' = begun + 1
    /\ backend' = [backend EXCEPT ![begun + 1] = b]
    /\ stored' = [stored EXCEPT ![begun + 1] = IF b = "filesystem" THEN "partial" ELSE "none"]
    /\ Begin(r, u, "writing", begun + 1, None, None)
    /\ UNCHANGED <<table, verified, history, crashes>>

\* Mutant: the last chunk is lost and the copy counts as complete.
FinishTruncated(r) ==
    /\ At(r, "writing")
    /\ Proceed(r, "inserting")
    /\ UNCHANGED <<stored, backend, begun, table, verified, history, crashes>>

FinishWrite(r) ==
    /\ At(r, "writing")
    /\ stored' = [stored EXCEPT ![FileOf(r)] = "whole"]
    /\ Proceed(r, "inserting")
    /\ UNCHANGED <<backend, begun, table, verified, history, crashes>>

\* What a failed write leaves: the copy is cut short and its unlink raises too,
\* or the put was carried out although its answer is an error.
Leftover(f) == IF backend[f] = "filesystem" THEN "partial" ELSE "whole"

\* Too large, or the storage failed, and nothing is left: _copy_with_limit has
\* unlinked the copy, or _write_blob had not put anything.
WriteFails(r) ==
    /\ At(r, "writing")
    /\ stored' = [stored EXCEPT ![FileOf(r)] = "none"]
    /\ Answer(r)
    /\ UNCHANGED <<backend, begun, table, verified, history, crashes>>

\* It leaves bytes, and neither function logs their key.
WriteLeavesBytes(r) ==
    /\ At(r, "writing")
    /\ stored' = [stored EXCEPT ![FileOf(r)] = Leftover(FileOf(r))]
    /\ abandoned' = abandoned \union {FileOf(r)}
    /\ Answer(r)
    /\ UNCHANGED <<backend, begun, table, verified, acknowledged, withdrawn,
                   deleted, reported, doubtful, crashes>>

InsertRow(r) == owner' = [owner EXCEPT ![FileOf(r)] = request[r].user]

\* Mutant: the cleanup stands in a finally clause.
CommitThenClean(r) ==
    /\ At(r, "inserting")
    /\ InsertRow(r)
    /\ acknowledged' = acknowledged \union {FileOf(r)}
    /\ Proceed(r, "cleaning")
    /\ UNCHANGED <<stored, backend, begun, grants, granted, verified, withdrawn,
                   deleted, reported, abandoned, doubtful, crashes>>

CommitUpload(r) ==
    /\ At(r, "inserting")
    /\ InsertRow(r)
    /\ acknowledged' = acknowledged \union {FileOf(r)}
    /\ Answer(r)
    /\ UNCHANGED <<stored, backend, begun, grants, granted, verified, withdrawn,
                   deleted, reported, abandoned, doubtful, crashes>>

\* The commit raises.  If the connection broke the row may be there all the same.
CommitUploadFails(r) ==
    /\ At(r, "inserting")
    /\ InsertRow(r) \/ UNCHANGED owner
    /\ doubtful' = doubtful \union {FileOf(r)}
    /\ Proceed(r, "cleaning")
    /\ UNCHANGED <<stored, backend, begun, grants, granted, verified, acknowledged,
                   withdrawn, deleted, reported, abandoned, crashes>>

\* _delete_stored_bytes returns: missing bytes are as good as removed ones.
RemoveBytes(r) == stored' = [stored EXCEPT ![FileOf(r)] = "none"]

\* It raises.  A blob may have been removed before the answer was lost.
RemoveBytesFails(r) ==
    \/ UNCHANGED stored
    \/ backend[FileOf(r)] = "vercel_blob" /\ RemoveBytes(r)

CleanUp(r) ==
    /\ At(r, "cleaning")
    /\ RemoveBytes(r)
    /\ Answer(r)
    /\ UNCHANGED <<backend, begun, table, verified, history, crashes>>

\* Mutant: a failed cleanup is not logged.
CleanUpFailsSilently(r) ==
    /\ At(r, "cleaning")
    /\ RemoveBytesFails(r)
    /\ Answer(r)
    /\ UNCHANGED <<backend, begun, table, verified, history, crashes>>

CleanUpFails(r) ==
    /\ At(r, "cleaning")
    /\ RemoveBytesFails(r)
    /\ reported' = reported \union {FileOf(r)}
    /\ Answer(r)
    /\ UNCHANGED <<backend, begun, table, verified, acknowledged, withdrawn,
                   deleted, abandoned, doubtful, crashes>>

-----------------------------------------------------------------------------
(* Delete: bytes first, then grants and row in one transaction.            *)

\* get_owned_file
StartDelete(r, u, f) ==
    /\ owner[f] = u
    /\ Begin(r, u, "deleting", f, None, None)
    /\ UNCHANGED <<stored, backend, begun, table, verified, history, crashes>>

DeleteBytes(r) ==
    /\ At(r, "deleting")
    /\ RemoveBytes(r)
    /\ withdrawn' = withdrawn \union {FileOf(r)}
    /\ Proceed(r, "purging")
    /\ UNCHANGED <<backend, begun, table, verified, acknowledged, deleted,
                   reported, abandoned, doubtful, crashes>>

\* Mutant: a storage error is swallowed and the rows go anyway.
DeleteBytesAnyway(r) ==
    /\ At(r, "deleting")
    /\ RemoveBytesFails(r)
    /\ withdrawn' = withdrawn \union {FileOf(r)}
    /\ Proceed(r, "purging")
    /\ UNCHANGED <<backend, begun, table, verified, acknowledged, deleted,
                   reported, abandoned, doubtful, crashes>>

DeleteBytesFails(r) ==
    /\ At(r, "deleting")
    /\ RemoveBytesFails(r)
    /\ withdrawn' = withdrawn \union {FileOf(r)}
    /\ Answer(r)
    /\ UNCHANGED <<backend, begun, table, verified, acknowledged, deleted,
                   reported, abandoned, doubtful, crashes>>

\* The row takes its grants with it, by the first DELETE or by the cascade.
\* A row that another delete has removed in the meantime is no error.
DeleteRows(f) ==
    /\ owner' = [owner EXCEPT ![f] = None]
    /\ grants' = [g \in GrantId |-> IF grants[g] # None /\ grants[g].file = f
                                    THEN None ELSE grants[g]]

CommitDelete(r) ==
    /\ At(r, "purging")
    /\ DeleteRows(FileOf(r))
    /\ deleted' = deleted \union {FileOf(r)}
    /\ Answer(r)
    /\ UNCHANGED <<stored, backend, begun, granted, verified, acknowledged,
                   withdrawn, reported, abandoned, doubtful, crashes>>

\* The commit raises, possibly after it took effect.
CommitDeleteFails(r) ==
    /\ At(r, "purging")
    /\ DeleteRows(FileOf(r)) \/ UNCHANGED <<owner, grants>>
    /\ Answer(r)
    /\ UNCHANGED <<stored, backend, begun, granted, verified, history, crashes>>

-----------------------------------------------------------------------------
(* Download: authorise on one read of the tables, then open the bytes.     *)

StartDownload(r, u, f) ==
    /\ owner[f] # None
    /\ CanAccess(f, u)
    /\ Begin(r, u, "opening", f, None, None)
    /\ UNCHANGED <<stored, backend, begun, table, verified, history, crashes>>

\* The size of what is opened has to be the size in the row.
OpenStored(r) ==
    /\ At(r, "opening")
    /\ stored[FileOf(r)] = "whole"
    /\ Proceed(r, "serving")
    /\ UNCHANGED <<stored, backend, begun, table, verified, history, crashes>>

\* 404 or 503, or the end of a response: nothing changes.
EndDownload(r) ==
    /\ At(r, "opening") \/ At(r, "serving")
    /\ Answer(r)
    /\ UNCHANGED <<stored, backend, begun, table, verified, history, crashes>>

-----------------------------------------------------------------------------
(* Grants.                                                                 *)

\* authorize_user, every check it makes before its INSERT.
StartGrant(r, u, f, grantee) ==
    /\ owner[f] = u
    /\ grantee # u
    /\ grantee \in verified
    /\ GrantsTo(f, grantee) = {}
    /\ Begin(r, u, "granting", f, grantee, None)
    /\ UNCHANGED <<stored, backend, begun, table, verified, history, crashes>>

\* Mutants: a database without the unique constraint; one that does not
\* enforce foreign keys.
InsertTwice(r) == owner[FileOf(r)] # None
InsertUnchecked(r) == GrantsTo(FileOf(r), request[r].grantee) = {}

\* The foreign key and uq_file_permissions_file_user, tested by the INSERT.
InsertAllowed(r) ==
    /\ owner[FileOf(r)] # None
    /\ GrantsTo(FileOf(r), request[r].grantee) = {}

CommitGrant(r) ==
    /\ At(r, "granting")
    /\ granted < MaxGrants
    /\ InsertAllowed(r)
    /\ granted' = granted + 1
    /\ grants' = [grants EXCEPT ![granted + 1] =
                    [file |-> FileOf(r), user |-> request[r].grantee]]
    /\ Answer(r)
    /\ UNCHANGED <<stored, backend, begun, owner, verified, history, crashes>>

\* revoke_user up to the row it is going to delete.
StartRevoke(r, u, f, grantee) ==
    /\ owner[f] = u
    /\ \E g \in GrantsTo(f, grantee) : Begin(r, u, "revoking", f, grantee, g)
    /\ UNCHANGED <<stored, backend, begun, table, verified, history, crashes>>

\* DELETE by primary key; the row may be gone already.
CommitRevoke(r) ==
    /\ At(r, "revoking")
    /\ grants' = [grants EXCEPT ![request[r].grant] = None]
    /\ Answer(r)
    /\ UNCHANGED <<stored, backend, begun, owner, granted, verified, history, crashes>>

\* An INSERT or DELETE on file_permissions that is refused or fails.
EndPermissionRequest(r) ==
    /\ At(r, "granting") \/ At(r, "revoking")
    /\ Answer(r)
    /\ UNCHANGED <<stored, backend, begun, table, verified, history, crashes>>

-----------------------------------------------------------------------------
\* email_verified_at is set by other parts of the system and never cleared.
VerifyEmail(u) ==
    /\ u \notin verified
    /\ verified' = verified \union {u}
    /\ UNCHANGED <<stored, backend, begun, table, request, history, crashes>>

\* The process dies, or the rollback before the cleanup raises: no cleanup, no
\* log entry, and the open transaction is gone.
Crash(r) ==
    /\ ~At(r, "idle")
    /\ crashes < MaxCrashes
    /\ crashes' = crashes + 1
    /\ abandoned' = IF request[r].pc \in {"writing", "inserting", "cleaning"}
                    THEN abandoned \union {FileOf(r)} ELSE abandoned
    /\ Answer(r)
    /\ UNCHANGED <<stored, backend, begun, table, verified, acknowledged, withdrawn,
                   deleted, reported, doubtful>>

FileStep(r) ==
    \/ \E u \in Users, b \in {"filesystem", "vercel_blob"} : StartUpload(r, u, b)
    \/ FinishWrite(r)
    \/ WriteFails(r)
    \/ WriteLeavesBytes(r)
    \/ CommitUpload(r)
    \/ CommitUploadFails(r)
    \/ CleanUp(r)
    \/ CleanUpFails(r)
    \/ \E u \in Users, f \in FileId : StartDelete(r, u, f) \/ StartDownload(r, u, f)
    \/ DeleteBytes(r)
    \/ DeleteBytesFails(r)
    \/ CommitDelete(r)
    \/ CommitDeleteFails(r)
    \/ OpenStored(r)
    \/ EndDownload(r)

PermissionStep(r) ==
    \/ \E u, grantee \in Users, f \in FileId :
         StartGrant(r, u, f, grantee) \/ StartRevoke(r, u, f, grantee)
    \/ CommitGrant(r)
    \/ CommitRevoke(r)
    \/ EndPermissionRequest(r)

Next == \/ \E r \in Requests : FileStep(r) \/ PermissionStep(r) \/ Crash(r)
        \/ \E u \in Users : VerifyEmail(u)

Spec == Init /\ [][Next]_vars

-----------------------------------------------------------------------------
(* Properties.                                                             *)

Uploading(r) == request[r].pc \in {"writing", "inserting", "cleaning"}

\* Rows, bytes and requests are well formed; an upload in flight is the only
\* one for its key, and bytes it has not finished have no row (the tables of
\* app/models/file.py and permission.py, and the locals of the two services).
TypeOK ==
    /\ stored \in [FileId -> {"none", "partial", "whole"}]
    /\ backend \in [FileId -> {"filesystem", "vercel_blob", None}]
    /\ owner \in [FileId -> Users \union {None}]
    /\ begun \in 0 .. MaxFiles
    /\ grants \in [GrantId -> Grant \union {None}]
    /\ granted \in 0 .. MaxGrants
    /\ verified \subseteq Users
    /\ request \in [Requests -> Request]
    /\ crashes \in 0 .. MaxCrashes
    /\ \A r \in Requests : ~At(r, "idle") => FileOf(r) \in 1 .. begun
    /\ \A r, s \in Requests : Uploading(r) /\ Uploading(s) /\ FileOf(r) = FileOf(s) => r = s
    /\ \A f \in FileId : stored[f] = "partial" => owner[f] = None

\* "The unique constraint is the final authority under concurrent grants"
\* (permission_service.py:89): a grant is for a file that exists, to somebody
\* verified who is not its owner, once, even when a grant races another grant,
\* a revocation or the deletion of the file.
GrantsAreSound ==
    \A g \in GrantId : grants[g] # None =>
        /\ owner[grants[g].file] \notin {None, grants[g].user}
        /\ grants[g].user \in verified
        /\ \A h \in GrantId : grants[h] = grants[g] => h = g

\* An upload that was answered with success stays whole and listed until a
\* delete request touches its bytes (upload_file commits after writing).
KeptUntilDeleted ==
    \A f \in acknowledged \ withdrawn : owner[f] # None /\ stored[f] = "whole"

\* A deletion that was answered with success left no bytes, no row and no
\* grant, and nothing still running brings one of them back (delete_file).
DeletedIsGone ==
    \A f \in deleted :
        /\ stored[f] = "none"
        /\ owner[f] = None
        /\ \A g \in GrantId : grants[g] # None => grants[g].file # f

\* "a successful API response never leaves the supposedly deleted content
\* downloadable" (file_service.py:465): not even a download that was
\* authorised before the deletion can open the bytes after its answer.
DeletedIsNeverServed ==
    [][\A r \in Requests :
         request'[r].pc = "serving" /\ request[r].pc # "serving"
         => FileOf(r) \notin deleted]_vars

\* Storage and database part company in named ways only.  Bytes without a row
\* belong to an upload in flight, or their key was logged ("Report only its
\* opaque key so an operator can reconcile it", upload_file), or a crash or a
\* failed write left them; a row without its bytes is of a file whose owner has
\* begun to delete it, or of an upload whose commit raised and took effect.
BytesMatchRows ==
    \A f \in FileId :
        /\ stored[f] # "none" /\ owner[f] = None =>
             \/ \E r \in Requests : Uploading(r) /\ FileOf(r) = f
             \/ f \in reported \union abandoned
        /\ owner[f] # None /\ stored[f] # "whole" => f \in withdrawn \union doubtful
=============================================================================
