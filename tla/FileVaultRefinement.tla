------------------------- MODULE FileVaultRefinement -------------------------
(***************************************************************************)
(* The file and permission services implement FileAccess.  A row is the    *)
(* life of its file: it is gone when a delete request has withdrawn the    *)
(* bytes and the row is no longer there.  Checks, storage calls and commits *)
(* that find their work done already are stutters.                         *)
(***************************************************************************)
EXTENDS FileVault

LifeOf(f) == CASE owner[f] # None -> "live"
               [] owner[f] = None /\ f \in withdrawn -> "gone"
               [] OTHER -> "new"

SharedWith(f) == {u \in Users : GrantsTo(f, u) # {}}

ReadingOf(r) ==
    IF request[r].pc \in {"opening", "serving"}
    THEN [user |-> request[r].user, file |-> FileOf(r), open |-> At(r, "serving")]
    ELSE [user |-> None, file |-> None, open |-> FALSE]

Access == INSTANCE FileAccess WITH
    Readings <- Requests,
    Files <- FileId,
    life <- [f \in FileId |-> LifeOf(f)],
    shared <- [f \in FileId |-> SharedWith(f)],
    reading <- [r \in Requests |-> ReadingOf(r)]

\* Whatever the interleaving of uploads, downloads, deletions and permission
\* changes, with every ambiguous failure, a download is only admitted for the
\* owner or a grantee of a file that is there, a share only exists for a file
\* that is there, and no file comes back (file_service.py, "fail closed").
ImplementsFileAccess == Access!Spec
=============================================================================
