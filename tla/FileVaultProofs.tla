--------------------------- MODULE FileVaultProofs ---------------------------
(***************************************************************************)
(* Proofs about FileVault, and that it implements FileAccess, for every    *)
(* number of users, requests, files, grants and crashes.                   *)
(***************************************************************************)
EXTENDS FileVaultRefinement, TLAPS

USE VaultAssumption

-----------------------------------------------------------------------------
(* The inductive invariant.                                                *)

Shape ==
    /\ stored \in [FileId -> {"none", "partial", "whole"}]
    /\ backend \in [FileId -> {"filesystem", "vercel_blob", None}]
    /\ owner \in [FileId -> Users \union {None}]
    /\ begun \in 0 .. MaxFiles
    /\ grants \in [GrantId -> Grant \union {None}]
    /\ granted \in 0 .. MaxGrants
    /\ verified \subseteq Users
    /\ request \in [Requests -> Request]
    /\ crashes \in 0 .. MaxCrashes
    /\ acknowledged \union withdrawn \union deleted \subseteq FileId

Active(r) == request[r].pc # "idle"

\* An upload whose commit has not been tried yet: nobody else knows its key.
Private(r) == request[r].pc \in {"writing", "inserting"}

\* What a request carries from its checks to its commit.
RequestOK(r) ==
    /\ Active(r) => FileOf(r) \in 1 .. begun /\ request[r].user \in Users
    /\ At(r, "granting") => /\ request[r].grantee \in verified
                            /\ request[r].grantee # request[r].user
                            /\ owner[FileOf(r)] \in {request[r].user, None}
    /\ At(r, "revoking") => request[r].grant \in GrantId

RequestsOK == \A r \in Requests : RequestOK(r)

\* Keys and grant numbers that have not been handed out yet.
Unused ==
    /\ \A f \in FileId : f > begun =>
         owner[f] = None /\ stored[f] = "none" /\ f \notin acknowledged \union withdrawn \union deleted
    /\ \A g \in GrantId : g > granted => grants[g] = None

UploadsAlone ==
    /\ \A r, s \in Requests : Private(r) /\ Active(s) /\ FileOf(r) = FileOf(s) => r = s
    /\ \A r, s \in Requests : Uploading(r) /\ Uploading(s) /\ FileOf(r) = FileOf(s) => r = s

\* How far the file of a request has come.
ProgressOf(r) ==
    /\ Private(r) => /\ owner[FileOf(r)] = None
                     /\ FileOf(r) \notin acknowledged \union withdrawn \union deleted
    /\ At(r, "inserting") => stored[FileOf(r)] = "whole"
    /\ At(r, "cleaning") => FileOf(r) \in doubtful \ acknowledged
    /\ At(r, "purging") => FileOf(r) \in withdrawn /\ stored[FileOf(r)] = "none"
    /\ Active(r) /\ ~Uploading(r) /\ owner[FileOf(r)] = None => FileOf(r) \in withdrawn

Progress == \A r \in Requests : ProgressOf(r)

PartialHasNoRow == \A f \in FileId : stored[f] = "partial" => owner[f] = None

IInv ==
    /\ Shape
    /\ RequestsOK
    /\ Unused
    /\ UploadsAlone
    /\ Progress
    /\ PartialHasNoRow
    /\ GrantsAreSound
    /\ KeptUntilDeleted
    /\ DeletedIsGone
    /\ BytesMatchRows
-----------------------------------------------------------------------------
(* How a step moves its request.                                           *)

Moves(r, pc, u, f, grantee, g) ==
    /\ request' \in [Requests -> Request]
    /\ request'[r].pc = pc
    /\ request'[r].user = u
    /\ request'[r].file = f
    /\ request'[r].grantee = grantee
    /\ request'[r].grant = g
    /\ \A s \in Requests \ {r} : request'[s] = request[s]

LEMMA BeginMoves ==
    ASSUME Shape, NEW r \in Requests, NEW pc, NEW u \in Users, NEW f \in FileId,
           NEW grantee \in Users \union {None}, NEW g \in GrantId \union {None},
           pc \in {"writing", "deleting", "opening", "granting", "revoking"},
           Begin(r, u, pc, f, grantee, g)
    PROVE  Moves(r, pc, u, f, grantee, g)
<1>1. PICK n : n = [pc |-> pc, user |-> u, file |-> f, grantee |-> grantee, grant |-> g]
  OBVIOUS
<1>2. n \in Request
  BY <1>1 DEF Request
<1>3. request' = [request EXCEPT ![r] = n]
  BY <1>1 DEF Begin
<1> QED BY <1>1, <1>2, <1>3 DEF Shape, Moves

LEMMA ProceedMoves ==
    ASSUME Shape, NEW r \in Requests, NEW pc,
           pc \in {"inserting", "cleaning", "purging", "serving"}, Proceed(r, pc)
    PROVE  Moves(r, pc, request[r].user, request[r].file, request[r].grantee, request[r].grant)
<1>1. PICK n : n = [request[r] EXCEPT !.pc = pc]
  OBVIOUS
<1>2. /\ n \in Request
      /\ n.pc = pc /\ n.user = request[r].user /\ n.file = request[r].file
      /\ n.grantee = request[r].grantee /\ n.grant = request[r].grant
  BY <1>1 DEF Shape, Request
<1>3. request' = [request EXCEPT ![r] = n]
  BY <1>1 DEF Proceed
<1> QED BY <1>2, <1>3 DEF Shape, Moves

LEMMA AnswerMoves ==
    ASSUME Shape, NEW r \in Requests, Answer(r)
    PROVE  Moves(r, "idle", None, None, None, None)
<1>1. IdleRequest \in Request
  BY DEF IdleRequest, Request
<1> QED BY <1>1 DEF Answer, Shape, Moves, IdleRequest

\* Nobody else is at work on the file of an upload that has no row yet.
LEMMA OthersOf ==
    ASSUME IInv, NEW r \in Requests, NEW s \in Requests \ {r}, Active(s)
    PROVE  /\ Private(r) => FileOf(s) # FileOf(r)
           /\ Uploading(r) /\ Uploading(s) => FileOf(s) # FileOf(r)
  BY DEF IInv, UploadsAlone

LEMMA FileOfActive ==
    ASSUME IInv, NEW r \in Requests, Active(r)
    PROVE  FileOf(r) \in FileId /\ FileOf(r) \in 1 .. begun /\ request[r].user \in Users
  BY DEF IInv, Shape, RequestsOK, RequestOK, FileId

LEMMA AloneAfterAnswer ==
    ASSUME IInv, NEW r \in Requests, Moves(r, "idle", None, None, None, None)
    PROVE  UploadsAlone'
<1>1. \A s \in Requests : Active(s)' => s # r /\ request'[s] = request[s]
  BY DEF Moves, Active
<1>2. \A s \in Requests : (Private(s) \/ Uploading(s))' => Active(s)'
  BY DEF Private, Uploading, Active
<1>3. \A s \in Requests : Active(s)' =>
         (Private(s)' <=> Private(s)) /\ (Uploading(s)' <=> Uploading(s)) /\ Active(s) /\ FileOf(s)' = FileOf(s)
  BY <1>1 DEF Private, Uploading, Active, FileOf
<1> QED BY <1>2, <1>3 DEF IInv, UploadsAlone

\* A request that goes on with its file, or starts on one that has a row.
LEMMA AloneAfterMove ==
    ASSUME IInv, NEW r \in Requests, NEW pc, NEW u, NEW f, NEW grantee, NEW g,
           Moves(r, pc, u, f, grantee, g),
           pc \in {"writing", "inserting"} => Private(r) /\ f = FileOf(r),
           pc = "cleaning" => Uploading(r) /\ f = FileOf(r),
           Active(r) => f = FileOf(r),
           ~Active(r) => \A s \in Requests : Private(s) => FileOf(s) # f
    PROVE  UploadsAlone'
<1>1. \A s \in Requests \ {r} :
         (Private(s)' <=> Private(s)) /\ (Uploading(s)' <=> Uploading(s))
         /\ (Active(s)' <=> Active(s)) /\ FileOf(s)' = FileOf(s)
  BY DEF Moves, Private, Uploading, Active, FileOf
<1>2. FileOf(r)' = f /\ (Private(r)' => Private(r)) /\ (Uploading(r)' => Uploading(r))
  BY DEF Moves, Private, Uploading, FileOf
<1>3. \A s \in Requests : Private(s) \/ Uploading(s) => Active(s)
  BY DEF Private, Uploading, Active
<1>4. ASSUME NEW s \in Requests, NEW t \in Requests, Private(s)', Active(t)', (FileOf(s) = FileOf(t))', s # t
      PROVE  FALSE
  <2>1. CASE s = r
    BY <1>1, <1>2, <1>3, <1>4, <2>1, OthersOf
  <2>2. CASE t = r
    BY <1>1, <1>2, <1>3, <1>4, <2>2 DEF IInv, UploadsAlone
  <2>3. CASE s # r /\ t # r
    BY <1>1, <1>4, <2>3 DEF IInv, UploadsAlone
  <2> QED BY <2>1, <2>2, <2>3
<1>5. ASSUME NEW s \in Requests, NEW t \in Requests, Uploading(s)', Uploading(t)', (FileOf(s) = FileOf(t))', s # t
      PROVE  FALSE
  <2>1. CASE s = r
    BY <1>1, <1>2, <1>3, <1>5, <2>1 DEF IInv, UploadsAlone
  <2>2. CASE t = r
    BY <1>1, <1>2, <1>3, <1>5, <2>2 DEF IInv, UploadsAlone
  <2>3. CASE s # r /\ t # r
    BY <1>1, <1>5, <2>3 DEF IInv, UploadsAlone
  <2> QED BY <2>1, <2>2, <2>3
<1> QED BY <1>4, <1>5 DEF UploadsAlone

\* A request that starts on a file nobody else is at work on.
LEMMA AloneOnNewFile ==
    ASSUME IInv, NEW r \in Requests, NEW pc, NEW u, NEW f, NEW grantee, NEW g,
           Moves(r, pc, u, f, grantee, g), \A s \in Requests : Active(s) => FileOf(s) # f
    PROVE  UploadsAlone'
<1>1. \A s \in Requests \ {r} :
         (Private(s)' <=> Private(s)) /\ (Uploading(s)' <=> Uploading(s))
         /\ (Active(s)' <=> Active(s)) /\ FileOf(s)' = FileOf(s)
  BY DEF Moves, Private, Uploading, Active, FileOf
<1>2. FileOf(r)' = f
  BY DEF Moves, FileOf
<1>3. \A s \in Requests : Private(s) \/ Uploading(s) => Active(s)
  BY DEF Private, Uploading, Active
<1> QED BY <1>1, <1>2, <1>3 DEF IInv, UploadsAlone

-----------------------------------------------------------------------------
(* Steps that touch neither bytes nor rows.                                *)

LEMMA AnsweredIsFine ==
    ASSUME NEW r \in Requests, Moves(r, "idle", None, None, None, None)
    PROVE  RequestOK(r)' /\ ProgressOf(r)'
  BY DEF Moves, RequestOK, ProgressOf, Active, At, Private, Uploading

Quiet ==
    /\ UNCHANGED <<stored, backend, owner, begun, grants, granted, verified,
                   acknowledged, withdrawn, deleted, reported, doubtful>>
    /\ abandoned \subseteq abandoned'
    /\ crashes' \in 0 .. MaxCrashes

LEMMA QuietKeeps ==
    ASSUME IInv, NEW r \in Requests, NEW pc, NEW u, NEW f, NEW grantee, NEW g,
           Moves(r, pc, u, f, grantee, g), Quiet,
           RequestOK(r)', ProgressOf(r)', UploadsAlone',
           Uploading(r) => FileOf(r) \in abandoned'
    PROVE  IInv'
<1>1. Shape'
  BY DEF IInv, Shape, Moves, Quiet
<1>2. \A s \in Requests \ {r} : request'[s] = request[s]
  BY DEF Moves
<1>3. RequestsOK'
  BY <1>2 DEF IInv, RequestsOK, RequestOK, Active, At, FileOf, Quiet
<1>4. Progress'
  BY <1>2 DEF IInv, Progress, ProgressOf, Active, At, Private, Uploading, FileOf, Quiet
<1>5. BytesMatchRows'
  <2>1. ASSUME NEW k \in FileId, stored[k] # "none", owner[k] = None,
               NEW s \in Requests, Uploading(s), FileOf(s) = k
        PROVE  k \in abandoned' \/ (Uploading(s)' /\ FileOf(s)' = k)
    <3>1. CASE s = r
      BY <2>1, <3>1
    <3>2. CASE s # r
      BY <1>2, <2>1, <3>2 DEF Uploading, FileOf
    <3> QED BY <3>1, <3>2
  <2> QED BY <2>1 DEF IInv, BytesMatchRows, Quiet
<1>6. Unused' /\ PartialHasNoRow' /\ GrantsAreSound' /\ KeptUntilDeleted' /\ DeletedIsGone'
  BY DEF IInv, Unused, PartialHasNoRow, GrantsAreSound, KeptUntilDeleted, DeletedIsGone, Quiet
<1> QED BY <1>1, <1>3, <1>4, <1>5, <1>6 DEF IInv

\* A request that begins is on a file that has a row.
LEMMA BeginKeeps ==
    ASSUME IInv, NEW r \in Requests, NEW pc, NEW u \in Users, NEW f \in FileId,
           NEW grantee \in Users \union {None}, NEW g \in GrantId \union {None},
           Begin(r, u, pc, f, grantee, g),
           pc \in {"deleting", "opening", "granting", "revoking"},
           pc = "granting" => owner[f] = u /\ grantee # u /\ grantee \in verified,
           pc = "revoking" => g \in GrantId,
           owner[f] # None,
           UNCHANGED <<stored, backend, begun, table, verified, history, crashes>>
    PROVE  IInv'
<1>1. Moves(r, pc, u, f, grantee, g)
  BY BeginMoves DEF IInv
<1>2. Quiet
  BY DEF IInv, Shape, Quiet, table, history
<1>3. ~Active(r) /\ ~Uploading(r)
  BY DEF Begin, At, Active, Uploading
<1>4. f \in 1 .. begun
  BY DEF IInv, Shape, Unused, FileId
<1>5. \A s \in Requests : Private(s) => FileOf(s) # f
  BY DEF IInv, Progress, ProgressOf
<1>6. UploadsAlone'
  BY <1>1, <1>3, <1>5, AloneAfterMove
<1>7. RequestOK(r)'
  BY <1>1, <1>2, <1>4 DEF Moves, Quiet, RequestOK, Active, At, FileOf
<1>8. ProgressOf(r)'
  BY <1>1, <1>2 DEF Moves, Quiet, ProgressOf, Active, At, FileOf, Private, Uploading
<1> QED BY <1>1, <1>2, <1>3, <1>6, <1>7, <1>8, QuietKeeps

LEMMA StartDeleteKeeps ==
    ASSUME IInv, NEW r \in Requests, NEW u \in Users, NEW f \in FileId, StartDelete(r, u, f)
    PROVE  IInv'
  BY BeginKeeps DEF StartDelete

LEMMA StartDownloadKeeps ==
    ASSUME IInv, NEW r \in Requests, NEW u \in Users, NEW f \in FileId, StartDownload(r, u, f)
    PROVE  IInv'
  BY BeginKeeps DEF StartDownload

LEMMA StartGrantKeeps ==
    ASSUME IInv, NEW r \in Requests, NEW u \in Users, NEW grantee \in Users, NEW f \in FileId,
           StartGrant(r, u, f, grantee)
    PROVE  IInv'
  BY BeginKeeps DEF StartGrant

LEMMA StartRevokeKeeps ==
    ASSUME IInv, NEW r \in Requests, NEW u \in Users, NEW grantee \in Users, NEW f \in FileId,
           StartRevoke(r, u, f, grantee)
    PROVE  IInv'
<1>1. PICK g \in GrantId : Begin(r, u, "revoking", f, grantee, g)
  BY DEF StartRevoke, GrantsTo
<1> QED BY <1>1, BeginKeeps DEF StartRevoke

LEMMA OpenStoredKeeps ==
    ASSUME IInv, NEW r \in Requests, OpenStored(r)
    PROVE  IInv'
<1>1. Moves(r, "serving", request[r].user, request[r].file, request[r].grantee, request[r].grant)
  BY ProceedMoves DEF IInv, OpenStored
<1>2. Quiet
  BY DEF IInv, Shape, Quiet, OpenStored, table, history
<1>3. Active(r) /\ ~Uploading(r)
  BY DEF OpenStored, At, Active, Uploading
<1>4. UploadsAlone'
  BY <1>1, <1>3, AloneAfterMove DEF FileOf
<1>5. RequestOK(r)'
  BY <1>1, <1>2, <1>3 DEF IInv, RequestsOK, Moves, Quiet, RequestOK, Active, At, FileOf
<1>6. ProgressOf(r)'
  BY <1>1, <1>2, <1>3 DEF IInv, Progress, Moves, Quiet, ProgressOf, Active, At, FileOf, Private, Uploading
<1> QED BY <1>1, <1>2, <1>3, <1>4, <1>5, <1>6, QuietKeeps

LEMMA QuietAnswerKeeps ==
    ASSUME IInv, NEW r \in Requests, Answer(r), Quiet, Uploading(r) => FileOf(r) \in abandoned'
    PROVE  IInv'
<1>1. Moves(r, "idle", None, None, None, None)
  BY AnswerMoves DEF IInv
<1> QED BY <1>1, AnsweredIsFine, AloneAfterAnswer, QuietKeeps

LEMMA EndDownloadKeeps ==
    ASSUME IInv, NEW r \in Requests, EndDownload(r)
    PROVE  IInv'
<1>1. Quiet /\ ~Uploading(r)
  BY DEF IInv, Shape, Quiet, EndDownload, At, Uploading, table, history
<1> QED BY <1>1, QuietAnswerKeeps DEF EndDownload

LEMMA EndPermissionRequestKeeps ==
    ASSUME IInv, NEW r \in Requests, EndPermissionRequest(r)
    PROVE  IInv'
<1>1. Quiet /\ ~Uploading(r)
  BY DEF IInv, Shape, Quiet, EndPermissionRequest, At, Uploading, table, history
<1> QED BY <1>1, QuietAnswerKeeps DEF EndPermissionRequest

LEMMA CrashKeeps ==
    ASSUME IInv, NEW r \in Requests, Crash(r)
    PROVE  IInv'
<1>1. Quiet /\ (Uploading(r) => FileOf(r) \in abandoned')
  BY DEF IInv, Shape, Quiet, Crash, Uploading, table, history
<1> QED BY <1>1, QuietAnswerKeeps DEF Crash

LEMMA VerifyEmailKeeps ==
    ASSUME IInv, NEW u \in Users, VerifyEmail(u)
    PROVE  IInv'
<1>1. /\ UNCHANGED <<stored, backend, owner, begun, grants, granted, request, acknowledged,
                     withdrawn, deleted, reported, abandoned, doubtful, crashes>>
      /\ verified \subseteq verified' /\ verified' \subseteq Users
  BY DEF IInv, Shape, VerifyEmail, table, history
<1>2. Shape'
  BY <1>1 DEF IInv, Shape
<1>3. RequestsOK'
  BY <1>1 DEF IInv, RequestsOK, RequestOK, Active, At, FileOf
<1>4. Progress' /\ UploadsAlone' /\ BytesMatchRows'
  BY <1>1 DEF IInv, Progress, ProgressOf, UploadsAlone, BytesMatchRows,
              Active, At, Private, Uploading, FileOf
<1>5. Unused' /\ PartialHasNoRow' /\ GrantsAreSound' /\ KeptUntilDeleted' /\ DeletedIsGone'
  BY <1>1 DEF IInv, Unused, PartialHasNoRow, GrantsAreSound, KeptUntilDeleted, DeletedIsGone
<1> QED BY <1>2, <1>3, <1>4, <1>5 DEF IInv

-----------------------------------------------------------------------------
(* Steps on the bytes or the row of one file.                              *)

\* What the invariant says of one file.
FileOK(f) ==
    /\ f > begun => /\ owner[f] = None /\ stored[f] = "none"
                    /\ f \notin acknowledged \union withdrawn \union deleted
    /\ stored[f] = "partial" => owner[f] = None
    /\ f \in acknowledged \ withdrawn => owner[f] # None /\ stored[f] = "whole"
    /\ f \in deleted => /\ stored[f] = "none" /\ owner[f] = None
                        /\ \A g \in GrantId : grants[g] # None => grants[g].file # f
    /\ stored[f] # "none" /\ owner[f] = None =>
         \/ \E s \in Requests : Uploading(s) /\ FileOf(s) = f
         \/ f \in reported \union abandoned
    /\ owner[f] # None /\ stored[f] # "whole" => f \in withdrawn \union doubtful

LEMMA FilesAreOK == ASSUME IInv, NEW f \in FileId PROVE FileOK(f)
  BY DEF IInv, Unused, PartialHasNoRow, KeptUntilDeleted, DeletedIsGone, BytesMatchRows, FileOK

\* A step of one request on one file, which can only take grants away.
OnlyOn(f) ==
    /\ \A k \in FileId \ {f} :
         /\ stored'[k] = stored[k] /\ owner'[k] = owner[k]
         /\ k \in acknowledged' <=> k \in acknowledged
         /\ k \in withdrawn' <=> k \in withdrawn
         /\ k \in deleted' <=> k \in deleted
    /\ \A g \in GrantId : grants'[g] \in {grants[g], None}
    /\ \A g \in GrantId : grants'[g] # None /\ grants'[g].file = f => owner'[f] = owner[f]
    /\ reported \subseteq reported' /\ abandoned \subseteq abandoned'
    /\ doubtful \subseteq doubtful'
    /\ verified' = verified /\ granted' = granted
    /\ begun' \in Nat /\ begun' >= begun

OthersOn(r, f) == {s \in Requests \ {r} : Active(s) /\ FileOf(s) = f}

LEMMA StorageKeeps ==
    ASSUME IInv, NEW r \in Requests, NEW f \in FileId, OnlyOn(f),
           NEW pc, NEW u, NEW k, NEW grantee, NEW g, Moves(r, pc, u, k, grantee, g),
           Active(r) => FileOf(r) = f,
           Shape', UploadsAlone', RequestOK(r)', ProgressOf(r)', FileOK(f)',
           \A s \in OthersOn(r, f) : RequestOK(s)' /\ ProgressOf(s)'
    PROVE  IInv'
<1>1. \A s \in Requests \ {r} : request'[s] = request[s]
  BY DEF Moves
<1>2. ASSUME NEW s \in Requests \ {r} PROVE RequestOK(s)' /\ ProgressOf(s)'
  <2>1. CASE ~Active(s)
    BY <1>1, <2>1 DEF RequestOK, ProgressOf, Active, At, Private, Uploading
  <2>2. CASE Active(s) /\ FileOf(s) = f
    BY <2>2 DEF OthersOn
  <2>3. CASE Active(s) /\ FileOf(s) # f
    <3>1. FileOf(s) \in FileId \ {f} /\ FileOf(s) \in 1 .. begun /\ RequestOK(s) /\ ProgressOf(s)
      BY <2>3, FileOfActive DEF IInv, RequestsOK, Progress
    <3>2. FileOf(s) \in 1 .. begun'
      BY <3>1 DEF OnlyOn, IInv, Shape
    <3>3. RequestOK(s)'
      BY <1>1, <3>1, <3>2 DEF OnlyOn, RequestOK, Active, At, FileOf
    <3>4. ProgressOf(s)'
      BY <1>1, <3>1 DEF OnlyOn, ProgressOf, Active, At, FileOf, Private, Uploading
    <3> QED BY <3>3, <3>4
  <2> QED BY <2>1, <2>2, <2>3
<1>3. RequestsOK' /\ Progress'
  BY <1>2 DEF RequestsOK, Progress
<1>4. ASSUME NEW h \in FileId PROVE FileOK(h)'
  <2>1. CASE h = f
    BY <2>1
  <2>2. CASE h # f
    <3>1. FileOK(h)
      BY FilesAreOK
    <3>2. h > begun' => h > begun
      BY DEF OnlyOn, FileId, IInv, Shape
    <3>3. \A s \in Requests : Uploading(s) /\ FileOf(s) = h => Uploading(s)' /\ FileOf(s)' = h
      BY <1>1, <2>2 DEF Uploading, Active, FileOf
    <3> QED BY <2>2, <3>1, <3>2, <3>3 DEF OnlyOn, FileOK
  <2> QED BY <2>1, <2>2
<1>5. Unused' /\ PartialHasNoRow' /\ KeptUntilDeleted' /\ DeletedIsGone' /\ BytesMatchRows'
  <2>1. Unused'
    BY <1>4 DEF FileOK, Unused, OnlyOn, IInv, Shape
  <2>2. PartialHasNoRow' /\ BytesMatchRows'
    BY <1>4 DEF FileOK, PartialHasNoRow, BytesMatchRows
  <2>3. KeptUntilDeleted' /\ DeletedIsGone'
    BY <1>4 DEF FileOK, Shape, KeptUntilDeleted, DeletedIsGone
  <2> QED BY <2>1, <2>2, <2>3
<1>6. GrantsAreSound'
  BY DEF OnlyOn, IInv, Shape, Grant, GrantsAreSound
<1> QED BY <1>3, <1>5, <1>6 DEF IInv

\* Bytes and row of a file only go away, and its row after its bytes: what
\* other requests have checked or done on that file still holds.
Withdraws(f) ==
    /\ stored'[f] \in {stored[f], "none"}
    /\ owner'[f] \in {owner[f], None}
    /\ f \in withdrawn => f \in withdrawn'
    /\ owner'[f] # owner[f] => f \in withdrawn'
    /\ f \in acknowledged' <=> f \in acknowledged
    /\ doubtful \subseteq doubtful'
    /\ verified' = verified /\ begun' = begun

LEMMA WithdrawsOthers ==
    ASSUME IInv, NEW r \in Requests, Active(r), NEW s \in OthersOn(r, FileOf(r)),
           request'[s] = request[s], Withdraws(FileOf(r))
    PROVE  RequestOK(s)' /\ ProgressOf(s)'
<1>1. s \in Requests \ {r} /\ Active(s) /\ FileOf(s) = FileOf(r)
  BY DEF OthersOn
<1>2. ~Private(s)
  BY <1>1, OthersOf
<1>3. RequestOK(s) /\ ProgressOf(s)
  BY <1>1 DEF IInv, RequestsOK, Progress
<1>4. RequestOK(s)'
  BY <1>1, <1>3 DEF Withdraws, RequestOK, Active, At, FileOf
<1>5. ProgressOf(s)'
  BY <1>1, <1>2, <1>3 DEF Withdraws, ProgressOf, Active, At, FileOf, Private, Uploading
<1> QED BY <1>4, <1>5

LEMMA PrivateAlone ==
    ASSUME IInv, NEW r \in Requests, Private(r)
    PROVE  OthersOn(r, FileOf(r)) = {}
  BY OthersOf DEF OthersOn

LEMMA StartUploadKeeps ==
    ASSUME IInv, NEW r \in Requests, NEW u \in Users, NEW b \in {"filesystem", "vercel_blob"},
           StartUpload(r, u, b)
    PROVE  IInv'
<1>0. PICK f : f = begun + 1
  OBVIOUS
<1>1. f \in FileId /\ ~Active(r) /\ FileOK(f) /\ begun \in Nat
  BY <1>0, FilesAreOK DEF StartUpload, Begin, At, Active, FileId, IInv, Shape
<1>2. Moves(r, "writing", u, f, None, None)
  BY <1>0, <1>1, BeginMoves DEF IInv, StartUpload
<1>3. Shape' /\ OnlyOn(f)
  BY <1>0, <1>1, <1>2 DEF StartUpload, Moves, IInv, Shape, OnlyOn, table, history
<1>4. \A s \in Requests : Active(s) => FileOf(s) # f
  BY <1>0, <1>1, FileOfActive
<1>5. UploadsAlone'
  BY <1>2, <1>4, AloneOnNewFile
<1>6. RequestOK(r)'
  BY <1>0, <1>1, <1>2 DEF StartUpload, Moves, RequestOK, Active, At, FileOf
<1>7. owner'[f] = None /\ f \notin acknowledged' \union withdrawn' \union deleted'
  BY <1>0, <1>1 DEF StartUpload, table, history, FileOK
<1>8. ProgressOf(r)'
  BY <1>2, <1>7 DEF Moves, ProgressOf, Active, At, FileOf, Private, Uploading
<1>9. FileOK(f)'
  BY <1>0, <1>1, <1>2, <1>7 DEF StartUpload, Moves, FileOK, Uploading, FileOf
<1>10. OthersOn(r, f) = {}
  BY <1>4 DEF OthersOn
<1> QED BY <1>1, <1>2, <1>3, <1>5, <1>6, <1>8, <1>9, <1>10, StorageKeeps

LEMMA FinishWriteKeeps ==
    ASSUME IInv, NEW r \in Requests, FinishWrite(r)
    PROVE  IInv'
<1>0. PICK f : f = FileOf(r)
  OBVIOUS
<1>1. Private(r) /\ Active(r) /\ At(r, "writing") /\ ProgressOf(r)
  BY DEF FinishWrite, At, Private, Active, IInv, Progress
<1>2. f \in FileId /\ f \in 1 .. begun /\ request[r].user \in Users
  BY <1>0, <1>1, FileOfActive
<1>3. Moves(r, "inserting", request[r].user, f, request[r].grantee, request[r].grant)
  BY <1>0, ProceedMoves DEF IInv, FinishWrite, FileOf
<1>4. Shape' /\ OnlyOn(f)
  BY <1>0, <1>2, <1>3 DEF FinishWrite, Moves, IInv, Shape, OnlyOn, table, history
<1>5. UploadsAlone'
  BY <1>0, <1>1, <1>3, AloneAfterMove
<1>6. RequestOK(r)'
  BY <1>0, <1>2, <1>3 DEF FinishWrite, Moves, RequestOK, Active, At, FileOf
<1>7. /\ stored'[f] = "whole" /\ owner'[f] = None
      /\ f \notin acknowledged' \union withdrawn' \union deleted'
  BY <1>0, <1>1, <1>2 DEF FinishWrite, table, history, ProgressOf, IInv, Shape
<1>8. ProgressOf(r)'
  BY <1>0, <1>3, <1>7 DEF Moves, ProgressOf, Active, At, FileOf, Private, Uploading
<1>9. FileOK(f)'
  BY <1>0, <1>2, <1>3, <1>7 DEF FinishWrite, Moves, FileOK, Uploading, FileOf, IInv, Shape
<1> QED BY <1>0, <1>1, <1>2, <1>3, <1>4, <1>5, <1>6, <1>8, <1>9, PrivateAlone, StorageKeeps

LEMMA WriteFailsKeeps ==
    ASSUME IInv, NEW r \in Requests, WriteFails(r) \/ WriteLeavesBytes(r)
    PROVE  IInv'
<1>0. PICK f : f = FileOf(r)
  OBVIOUS
<1>1. Private(r) /\ Active(r) /\ At(r, "writing") /\ ProgressOf(r)
  BY DEF WriteFails, WriteLeavesBytes, At, Private, Active, IInv, Progress
<1>2. f \in FileId /\ f \in 1 .. begun
  BY <1>0, <1>1, FileOfActive
<1>3. Moves(r, "idle", None, None, None, None)
  BY AnswerMoves DEF IInv, WriteFails, WriteLeavesBytes
<1>4. /\ stored' \in [FileId -> {"none", "partial", "whole"}]
      /\ \A k \in FileId \ {f} : stored'[k] = stored[k]
      /\ stored'[f] = "none" \/ f \in abandoned'
      /\ abandoned \subseteq abandoned'
      /\ UNCHANGED <<backend, owner, begun, grants, granted, verified, acknowledged,
                     withdrawn, deleted, reported, doubtful, crashes>>
  BY <1>0, <1>2 DEF WriteFails, WriteLeavesBytes, Leftover, IInv, Shape, table, history
<1>5. Shape' /\ OnlyOn(f)
  BY <1>3, <1>4 DEF Moves, IInv, Shape, OnlyOn
<1>6. owner'[f] = None /\ f \notin acknowledged' \union withdrawn' \union deleted'
  BY <1>0, <1>1, <1>4 DEF ProgressOf
<1>7. FileOK(f)'
  BY <1>2, <1>4, <1>6 DEF FileOK, IInv, Shape
<1> QED BY <1>0, <1>1, <1>2, <1>3, <1>5, <1>7, PrivateAlone, AloneAfterAnswer, AnsweredIsFine, StorageKeeps

LEMMA CommitUploadKeeps ==
    ASSUME IInv, NEW r \in Requests, CommitUpload(r)
    PROVE  IInv'
<1>0. PICK f : f = FileOf(r)
  OBVIOUS
<1>1. Private(r) /\ Active(r) /\ At(r, "inserting") /\ ProgressOf(r)
  BY DEF CommitUpload, At, Private, Active, IInv, Progress
<1>2. f \in FileId /\ f \in 1 .. begun /\ request[r].user \in Users
  BY <1>0, <1>1, FileOfActive
<1>3. Moves(r, "idle", None, None, None, None)
  BY AnswerMoves DEF IInv, CommitUpload
<1>4. Shape'
  BY <1>0, <1>2, <1>3 DEF CommitUpload, InsertRow, Moves, IInv, Shape
<1>5. \A g \in GrantId : grants[g] # None => grants[g].file # f
  BY <1>0, <1>1 DEF IInv, Shape, GrantsAreSound, ProgressOf
<1>6. OnlyOn(f)
  BY <1>0, <1>2, <1>5 DEF CommitUpload, InsertRow, OnlyOn, IInv, Shape
<1>7. /\ owner'[f] = request[r].user /\ stored'[f] = "whole"
      /\ f \notin deleted'
  BY <1>0, <1>1, <1>2 DEF CommitUpload, InsertRow, ProgressOf, IInv, Shape
<1>8. FileOK(f)'
  BY <1>0, <1>2, <1>7 DEF CommitUpload, FileOK, IInv, Shape
<1> QED BY <1>0, <1>1, <1>2, <1>3, <1>4, <1>6, <1>8, PrivateAlone, AloneAfterAnswer, AnsweredIsFine, StorageKeeps

LEMMA CommitUploadFailsKeeps ==
    ASSUME IInv, NEW r \in Requests, CommitUploadFails(r)
    PROVE  IInv'
<1>0. PICK f : f = FileOf(r)
  OBVIOUS
<1>1. Private(r) /\ Uploading(r) /\ Active(r) /\ At(r, "inserting") /\ ProgressOf(r)
  BY DEF CommitUploadFails, At, Private, Uploading, Active, IInv, Progress
<1>2. f \in FileId /\ f \in 1 .. begun /\ request[r].user \in Users
  BY <1>0, <1>1, FileOfActive
<1>3. Moves(r, "cleaning", request[r].user, f, request[r].grantee, request[r].grant)
  BY <1>0, ProceedMoves DEF IInv, CommitUploadFails, FileOf
<1>4. /\ owner' \in [FileId -> Users \union {None}]
      /\ \A k \in FileId \ {f} : owner'[k] = owner[k]
      /\ UNCHANGED <<stored, backend, begun, grants, granted, verified, acknowledged,
                     withdrawn, deleted, reported, abandoned, crashes>>
      /\ doubtful' = doubtful \union {f}
  BY <1>0, <1>2 DEF CommitUploadFails, InsertRow, IInv, Shape, history
<1>5. Shape'
  BY <1>0, <1>3, <1>4 DEF Moves, IInv, Shape
<1>6. \A g \in GrantId : grants[g] # None => grants[g].file # f
  BY <1>0, <1>1 DEF IInv, Shape, GrantsAreSound, ProgressOf
<1>7. OnlyOn(f)
  BY <1>0, <1>2, <1>4, <1>6 DEF OnlyOn, IInv, Shape
<1>8. UploadsAlone'
  BY <1>0, <1>1, <1>3, AloneAfterMove
<1>9. RequestOK(r)'
  BY <1>0, <1>2, <1>3, <1>4 DEF Moves, RequestOK, Active, At, FileOf
<1>10. stored'[f] = "whole" /\ f \in doubtful' /\ f \notin acknowledged' \union withdrawn' \union deleted'
  BY <1>0, <1>1, <1>4 DEF ProgressOf
<1>11. ProgressOf(r)'
  BY <1>0, <1>3, <1>10 DEF Moves, ProgressOf, Active, At, FileOf, Private, Uploading
<1>12. FileOK(f)'
  BY <1>0, <1>2, <1>3, <1>4, <1>10 DEF Moves, FileOK, Uploading, FileOf, IInv, Shape
<1> QED BY <1>0, <1>1, <1>2, <1>3, <1>5, <1>7, <1>8, <1>9, <1>11, <1>12, PrivateAlone, StorageKeeps

LEMMA CleanUpKeeps ==
    ASSUME IInv, NEW r \in Requests, CleanUp(r) \/ CleanUpFails(r)
    PROVE  IInv'
<1>0. PICK f : f = FileOf(r)
  OBVIOUS
<1>1. Uploading(r) /\ Active(r) /\ At(r, "cleaning") /\ ProgressOf(r)
  BY DEF CleanUp, CleanUpFails, At, Uploading, Active, IInv, Progress
<1>2. f \in FileId /\ FileOK(f)
  BY <1>0, <1>1, FileOfActive, FilesAreOK
<1>3. Moves(r, "idle", None, None, None, None)
  BY AnswerMoves DEF IInv, CleanUp, CleanUpFails
<1>4. /\ stored' \in [FileId -> {"none", "partial", "whole"}]
      /\ \A k \in FileId \ {f} : stored'[k] = stored[k]
      /\ stored'[f] \in {stored[f], "none"}
      /\ stored'[f] = "none" \/ f \in reported'
      /\ reported \subseteq reported'
      /\ UNCHANGED <<backend, owner, begun, grants, granted, verified, acknowledged,
                     withdrawn, deleted, abandoned, doubtful, crashes>>
  BY <1>0, <1>2 DEF CleanUp, CleanUpFails, RemoveBytes, RemoveBytesFails, IInv, Shape, table, history
<1>5. Shape'
  BY <1>3, <1>4 DEF Moves, IInv, Shape
<1>6. OnlyOn(f) /\ Withdraws(f)
  BY <1>4 DEF OnlyOn, Withdraws, IInv, Shape
<1>7. f \in doubtful \ acknowledged
  BY <1>0, <1>1 DEF ProgressOf
<1>8. FileOK(f)'
  BY <1>2, <1>4, <1>7 DEF FileOK
<1>9. \A s \in OthersOn(r, f) : RequestOK(s)' /\ ProgressOf(s)'
  BY <1>0, <1>1, <1>3, <1>6, WithdrawsOthers DEF Moves, OthersOn
<1> QED BY <1>0, <1>2, <1>3, <1>5, <1>6, <1>8, <1>9, AloneAfterAnswer, AnsweredIsFine, StorageKeeps

LEMMA DeleteBytesKeeps ==
    ASSUME IInv, NEW r \in Requests, DeleteBytes(r)
    PROVE  IInv'
<1>0. PICK f : f = FileOf(r)
  OBVIOUS
<1>1. ~Uploading(r) /\ ~Private(r) /\ Active(r) /\ At(r, "deleting") /\ ProgressOf(r)
  BY DEF DeleteBytes, At, Uploading, Private, Active, IInv, Progress
<1>2. f \in FileId /\ f \in 1 .. begun /\ request[r].user \in Users /\ FileOK(f)
  BY <1>0, <1>1, FileOfActive, FilesAreOK
<1>3. Moves(r, "purging", request[r].user, f, request[r].grantee, request[r].grant)
  BY <1>0, ProceedMoves DEF IInv, DeleteBytes, FileOf
<1>4. /\ stored' \in [FileId -> {"none", "partial", "whole"}]
      /\ \A k \in FileId \ {f} : stored'[k] = stored[k]
      /\ stored'[f] = "none"
      /\ withdrawn' = withdrawn \union {f}
      /\ UNCHANGED <<backend, owner, begun, grants, granted, verified, acknowledged,
                     deleted, reported, abandoned, doubtful, crashes>>
  BY <1>0, <1>2 DEF DeleteBytes, RemoveBytes, IInv, Shape, table
<1>5. Shape'
  BY <1>2, <1>3, <1>4 DEF Moves, IInv, Shape
<1>6. OnlyOn(f) /\ Withdraws(f)
  BY <1>4 DEF OnlyOn, Withdraws, IInv, Shape
<1>7. UploadsAlone'
  BY <1>0, <1>1, <1>3, AloneAfterMove
<1>8. RequestOK(r)'
  BY <1>2, <1>3, <1>4 DEF Moves, RequestOK, Active, At, FileOf
<1>9. ProgressOf(r)'
  BY <1>3, <1>4 DEF Moves, ProgressOf, Active, At, FileOf, Private, Uploading
<1>10. FileOK(f)'
  BY <1>2, <1>4 DEF FileOK, IInv, Shape
<1>11. \A s \in OthersOn(r, f) : RequestOK(s)' /\ ProgressOf(s)'
  BY <1>0, <1>1, <1>3, <1>6, WithdrawsOthers DEF Moves, OthersOn
<1> QED BY <1>0, <1>2, <1>3, <1>5, <1>6, <1>7, <1>8, <1>9, <1>10, <1>11, StorageKeeps

LEMMA DeleteBytesFailsKeeps ==
    ASSUME IInv, NEW r \in Requests, DeleteBytesFails(r)
    PROVE  IInv'
<1>0. PICK f : f = FileOf(r)
  OBVIOUS
<1>1. ~Uploading(r) /\ Active(r)
  BY DEF DeleteBytesFails, At, Uploading, Active
<1>2. f \in FileId /\ f \in 1 .. begun /\ FileOK(f)
  BY <1>0, <1>1, FileOfActive, FilesAreOK
<1>3. Moves(r, "idle", None, None, None, None)
  BY AnswerMoves DEF IInv, DeleteBytesFails
<1>4. /\ stored' \in [FileId -> {"none", "partial", "whole"}]
      /\ \A k \in FileId \ {f} : stored'[k] = stored[k]
      /\ stored'[f] \in {stored[f], "none"}
      /\ withdrawn' = withdrawn \union {f}
      /\ UNCHANGED <<backend, owner, begun, grants, granted, verified, acknowledged,
                     deleted, reported, abandoned, doubtful, crashes>>
  BY <1>0, <1>2 DEF DeleteBytesFails, RemoveBytes, RemoveBytesFails, IInv, Shape, table
<1>5. Shape'
  BY <1>2, <1>3, <1>4 DEF Moves, IInv, Shape
<1>6. OnlyOn(f) /\ Withdraws(f)
  BY <1>4 DEF OnlyOn, Withdraws, IInv, Shape
<1>7. \A s \in Requests : Uploading(s) => Uploading(s)' /\ FileOf(s)' = FileOf(s)
  BY <1>1, <1>3 DEF Moves, Uploading, FileOf
<1>8. FileOK(f)'
  BY <1>2, <1>4, <1>7 DEF FileOK, IInv, Shape
<1>9. \A s \in OthersOn(r, f) : RequestOK(s)' /\ ProgressOf(s)'
  BY <1>0, <1>1, <1>3, <1>6, WithdrawsOthers DEF Moves, OthersOn
<1> QED BY <1>0, <1>2, <1>3, <1>5, <1>6, <1>8, <1>9, AloneAfterAnswer, AnsweredIsFine, StorageKeeps

LEMMA CommitDeleteKeeps ==
    ASSUME IInv, NEW r \in Requests, CommitDelete(r) \/ CommitDeleteFails(r)
    PROVE  IInv'
<1>0. PICK f : f = FileOf(r)
  OBVIOUS
<1>1. ~Uploading(r) /\ Active(r) /\ At(r, "purging") /\ ProgressOf(r)
  BY DEF CommitDelete, CommitDeleteFails, At, Uploading, Active, IInv, Progress
<1>2. f \in FileId /\ f \in 1 .. begun /\ FileOK(f)
  BY <1>0, <1>1, FileOfActive, FilesAreOK
<1>3. Moves(r, "idle", None, None, None, None)
  BY AnswerMoves DEF IInv, CommitDelete, CommitDeleteFails
<1>4. stored[f] = "none" /\ f \in withdrawn
  BY <1>0, <1>1 DEF ProgressOf
<1>5. /\ owner' \in [FileId -> Users \union {None}]
      /\ \A k \in FileId \ {f} : owner'[k] = owner[k]
      /\ owner'[f] \in {owner[f], None}
      /\ grants' \in [GrantId -> Grant \union {None}]
      /\ \A g \in GrantId : grants'[g] \in {grants[g], None}
      /\ owner'[f] # owner[f] \/ f \in deleted' \ deleted =>
           owner'[f] = None /\ \A g \in GrantId : grants'[g] # None => grants'[g].file # f
      /\ deleted' = deleted \/ deleted' = deleted \union {f}
      /\ UNCHANGED <<stored, backend, begun, granted, verified, acknowledged, withdrawn,
                     reported, abandoned, doubtful, crashes>>
  BY <1>0, <1>2 DEF CommitDelete, CommitDeleteFails, DeleteRows, IInv, Shape, history
<1>6. Shape'
  BY <1>2, <1>3, <1>5 DEF Moves, IInv, Shape
<1>7. OnlyOn(f) /\ Withdraws(f)
  BY <1>4, <1>5 DEF OnlyOn, Withdraws, IInv, Shape
<1>8. FileOK(f)'
  <2>1. \A g \in GrantId : grants'[g] # None => grants'[g] = grants[g]
    BY <1>5
  <2>2. f \in deleted' => owner'[f] = None /\ \A g \in GrantId : grants'[g] # None => grants'[g].file # f
    BY <1>2, <1>5, <2>1 DEF FileOK
  <2> QED BY <1>2, <1>4, <1>5, <2>2 DEF FileOK, IInv, Shape
<1>9. \A s \in OthersOn(r, f) : RequestOK(s)' /\ ProgressOf(s)'
  BY <1>0, <1>1, <1>3, <1>7, WithdrawsOthers DEF Moves, OthersOn
<1> QED BY <1>0, <1>2, <1>3, <1>6, <1>7, <1>8, <1>9, AloneAfterAnswer, AnsweredIsFine, StorageKeeps

-----------------------------------------------------------------------------
(* Commits on file_permissions, and all steps together.                    *)

LEMMA GrantRowsKeep ==
    ASSUME IInv, NEW r \in Requests, Moves(r, "idle", None, None, None, None), ~Uploading(r),
           UNCHANGED <<stored, backend, owner, begun, verified, history, crashes>>,
           grants' \in [GrantId -> Grant \union {None}],
           granted' \in 0 .. MaxGrants,
           \A g \in GrantId : g > granted' => grants'[g] = None,
           \A g \in GrantId : grants'[g] # None => grants'[g].file \notin deleted,
           GrantsAreSound'
    PROVE  IInv'
<1>1. Shape'
  BY DEF Moves, IInv, Shape, history
<1>2. \A s \in Requests : Active(s)' => s # r /\ request'[s] = request[s]
  BY DEF Moves, Active
<1>3. RequestsOK'
  <2>1. \A s \in Requests : ~Active(s) => (At(s, "granting") \/ At(s, "revoking")) = FALSE
    BY DEF Active, At
  <2> QED BY <1>2, AnsweredIsFine DEF IInv, RequestsOK, RequestOK, Active, At, FileOf
<1>4. Progress'
  BY <1>2, AnsweredIsFine DEF IInv, Progress, ProgressOf, Active, At, FileOf, Private, Uploading, history
<1>5. \A s \in Requests : Uploading(s) => Uploading(s)' /\ FileOf(s)' = FileOf(s)
  BY DEF Moves, Uploading, FileOf
<1>6. BytesMatchRows'
  BY <1>5 DEF IInv, BytesMatchRows, history
<1>7. Unused' /\ PartialHasNoRow' /\ KeptUntilDeleted' /\ DeletedIsGone'
  BY DEF IInv, Unused, PartialHasNoRow, KeptUntilDeleted, DeletedIsGone, history
<1> QED BY <1>1, <1>3, <1>4, <1>6, <1>7, AloneAfterAnswer DEF IInv

LEMMA CommitGrantKeeps ==
    ASSUME IInv, NEW r \in Requests, CommitGrant(r)
    PROVE  IInv'
<1>1. Active(r) /\ ~Uploading(r) /\ At(r, "granting") /\ RequestOK(r)
  BY DEF CommitGrant, At, Active, Uploading, IInv, RequestsOK
<1>2. Moves(r, "idle", None, None, None, None)
  BY AnswerMoves DEF IInv, CommitGrant
<1>3. FileOf(r) \in FileId /\ request[r].grantee \in Users /\ granted + 1 \in GrantId
  BY <1>1, FileOfActive DEF RequestOK, CommitGrant, GrantId, IInv, Shape
<1>4. PICK n : n = [file |-> FileOf(r), user |-> request[r].grantee]
  OBVIOUS
<1>5. n \in Grant /\ n.file = FileOf(r) /\ n.user = request[r].grantee /\ n # None
  BY <1>3, <1>4 DEF Grant, FileId
<1>6. grants' = [grants EXCEPT ![granted + 1] = n] /\ granted' = granted + 1
  BY <1>4 DEF CommitGrant
<1>7. \A g \in GrantId : grants[g] # n
  BY <1>4 DEF CommitGrant, InsertAllowed, GrantsTo
<1>8. owner[n.file] \notin {None, n.user} /\ n.user \in verified
  BY <1>1, <1>5, FileOfActive DEF RequestOK, CommitGrant, InsertAllowed
<1>9. UNCHANGED <<stored, backend, owner, begun, verified, history, crashes>>
  BY DEF CommitGrant
<1>10. grants' \in [GrantId -> Grant \union {None}]
  BY <1>3, <1>5, <1>6 DEF IInv, Shape
<1>11. granted' \in 0 .. MaxGrants /\ \A g \in GrantId : g > granted' => grants'[g] = None
  BY <1>3, <1>6 DEF IInv, Shape, Unused, GrantId
<1>12. \A g \in GrantId : grants'[g] # None => grants'[g].file \notin deleted
  BY <1>3, <1>6, <1>8 DEF IInv, Shape, DeletedIsGone
<1>13. GrantsAreSound'
  BY <1>3, <1>6, <1>7, <1>8, <1>9 DEF IInv, Shape, GrantsAreSound
<1> QED BY <1>1, <1>2, <1>9, <1>10, <1>11, <1>12, <1>13, GrantRowsKeep

LEMMA CommitRevokeKeeps ==
    ASSUME IInv, NEW r \in Requests, CommitRevoke(r)
    PROVE  IInv'
<1>1. Active(r) /\ ~Uploading(r)
  BY DEF CommitRevoke, At, Active, Uploading
<1>2. Moves(r, "idle", None, None, None, None)
  BY AnswerMoves DEF IInv, CommitRevoke
<1>3. UNCHANGED <<stored, backend, owner, begun, granted, verified, history, crashes>>
  BY DEF CommitRevoke
<1>4. /\ grants' \in [GrantId -> Grant \union {None}]
      /\ \A g \in GrantId : grants'[g] \in {grants[g], None}
  BY DEF CommitRevoke, IInv, Shape
<1>5. \A g \in GrantId : grants'[g] # None => grants'[g].file \notin deleted
  BY <1>4 DEF IInv, DeletedIsGone
<1>6. GrantsAreSound'
  BY <1>3, <1>4 DEF IInv, GrantsAreSound
<1>7. \A g \in GrantId : g > granted' => grants'[g] = None
  BY <1>3, <1>4 DEF IInv, Unused
<1> QED BY <1>1, <1>2, <1>3, <1>4, <1>5, <1>6, <1>7, GrantRowsKeep DEF IInv, Shape

LEMMA InitIInv == Init => IInv
<1> SUFFICES ASSUME Init PROVE IInv
  OBVIOUS
<1>1. \A r \in Requests : ~Active(r) /\ ~Private(r) /\ ~Uploading(r)
  BY DEF Init, IdleRequest, Active, Private, Uploading
<1>2. IdleRequest \in Request
  BY DEF IdleRequest, Request
<1>3. Shape
  BY <1>2 DEF Init, Shape, FileId
<1>4. RequestsOK /\ Progress /\ UploadsAlone
  BY <1>1 DEF RequestsOK, RequestOK, Progress, ProgressOf, UploadsAlone, At, Active
<1>5. Unused /\ PartialHasNoRow /\ GrantsAreSound /\ KeptUntilDeleted /\ DeletedIsGone
      /\ BytesMatchRows
  BY DEF Init, Unused, PartialHasNoRow, GrantsAreSound, KeptUntilDeleted, DeletedIsGone,
         BytesMatchRows
<1> QED BY <1>3, <1>4, <1>5 DEF IInv

LEMMA StutterKeeps == IInv /\ UNCHANGED vars => IInv'
<1> SUFFICES ASSUME IInv, UNCHANGED vars PROVE IInv'
  OBVIOUS
<1> USE DEF IInv, vars
<1>1. Shape' /\ Unused' /\ PartialHasNoRow' /\ GrantsAreSound' /\ KeptUntilDeleted' /\ DeletedIsGone'
  BY DEF Shape, Unused, PartialHasNoRow, GrantsAreSound, KeptUntilDeleted, DeletedIsGone
<1>2. RequestsOK' /\ Progress' /\ UploadsAlone' /\ BytesMatchRows'
  BY DEF RequestsOK, RequestOK, Progress, ProgressOf, UploadsAlone, BytesMatchRows,
         Active, At, Private, Uploading, FileOf
<1> QED BY <1>1, <1>2

LEMMA NextIInv == IInv /\ [Next]_vars => IInv'
<1> SUFFICES ASSUME IInv, [Next]_vars PROVE IInv'
  OBVIOUS
<1>1. ASSUME NEW r \in Requests, FileStep(r) PROVE IInv'
  BY <1>1, StartUploadKeeps, FinishWriteKeeps, WriteFailsKeeps, CommitUploadKeeps,
     CommitUploadFailsKeeps, CleanUpKeeps, StartDeleteKeeps, StartDownloadKeeps, DeleteBytesKeeps,
     DeleteBytesFailsKeeps, CommitDeleteKeeps, OpenStoredKeeps, EndDownloadKeeps DEF FileStep
<1>2. ASSUME NEW r \in Requests, PermissionStep(r) PROVE IInv'
  BY <1>2, StartGrantKeeps, StartRevokeKeeps, CommitGrantKeeps, CommitRevokeKeeps,
     EndPermissionRequestKeeps DEF PermissionStep
<1> QED BY <1>1, <1>2, CrashKeeps, VerifyEmailKeeps, StutterKeeps DEF Next

\* The invariant holds in every reachable state.
THEOREM VaultInvariant == Spec => []IInv
  BY InitIInv, NextIInv, PTL DEF Spec

LEMMA IInvTypes == IInv => TypeOK
<1> SUFFICES ASSUME IInv PROVE TypeOK
  OBVIOUS
<1>1. \A r \in Requests : ~At(r, "idle") => FileOf(r) \in 1 .. begun
  BY FileOfActive DEF At, Active
<1> QED BY <1>1 DEF IInv, Shape, UploadsAlone, PartialHasNoRow, TypeOK

\* Rows, bytes and requests are well formed, an upload in flight is the only
\* one for its key, and a file whose upload is unfinished has no row.
THEOREM VaultTypes == Spec => []TypeOK
  BY VaultInvariant, IInvTypes, PTL

\* Every row of file_permissions is for a file that exists, for a verified
\* user who does not own it, and the only one of its kind, whatever grants,
\* revocations and deletions race (authorize_user, revoke_user, delete_file).
THEOREM GrantsStaySound == Spec => []GrantsAreSound
<1>1. IInv => GrantsAreSound
  BY DEF IInv
<1> QED BY <1>1, VaultInvariant, PTL

\* An upload answered with success keeps its row and all of its bytes until a
\* delete request starts removing them, whatever fails or crashes meanwhile.
THEOREM AcknowledgedIsKept == Spec => []KeptUntilDeleted
<1>1. IInv => KeptUntilDeleted
  BY DEF IInv
<1> QED BY <1>1, VaultInvariant, PTL

\* After a deletion answered with success no bytes, row or grant of the file
\* is left, and none comes back (delete_file: bytes before rows).
THEOREM DeletedStaysGone == Spec => []DeletedIsGone
<1>1. IInv => DeletedIsGone
  BY DEF IInv
<1> QED BY <1>1, VaultInvariant, PTL

\* Bytes without a row are being uploaded, or their key was logged, or a crash
\* or a failed write left them; a row without its bytes is of a file that is
\* being deleted, or of an upload whose commit raised (upload_file, delete_file).
THEOREM PartingsHaveACause == Spec => []BytesMatchRows
<1>1. IInv => BytesMatchRows
  BY DEF IInv
<1> QED BY <1>1, VaultInvariant, PTL

LEMMA ServesByOpening ==
    ASSUME IInv, NEW r \in Requests, [Next]_vars,
           request'[r].pc = "serving", request[r].pc # "serving"
    PROVE  OpenStored(r)
<1>1. ASSUME NEW s \in Requests, NEW u, NEW pc, NEW f, NEW grantee, NEW g,
             Begin(s, u, pc, f, grantee, g), pc # "serving"
      PROVE  FALSE
  BY <1>1 DEF Begin, IInv, Shape
<1>2. ASSUME NEW s \in Requests, NEW pc, Proceed(s, pc), pc # "serving" \/ s # r PROVE FALSE
  BY <1>2 DEF Proceed, IInv, Shape, Request
<1>3. ASSUME NEW s \in Requests, Answer(s) PROVE FALSE
  BY <1>3 DEF Answer, IdleRequest, IInv, Shape
<1>4. ~UNCHANGED request
  OBVIOUS
<1>5. ASSUME NEW s \in Requests, FileStep(s) PROVE OpenStored(r)
  <2>1. CASE OpenStored(s)
    BY <1>2, <2>1 DEF OpenStored
  <2>2. CASE ~OpenStored(s)
    BY <1>1, <1>2, <1>3, <1>5, <2>2
       DEF FileStep, StartUpload, FinishWrite, WriteFails, WriteLeavesBytes, CommitUpload, CommitUploadFails,
           CleanUp, CleanUpFails, StartDelete, StartDownload, DeleteBytes, DeleteBytesFails,
           CommitDelete, CommitDeleteFails, EndDownload
  <2> QED BY <2>1, <2>2
<1>6. ASSUME NEW s \in Requests, PermissionStep(s) PROVE FALSE
  BY <1>1, <1>3, <1>6 DEF PermissionStep, StartGrant, StartRevoke, CommitGrant, CommitRevoke,
                          EndPermissionRequest
<1> QED BY <1>3, <1>4, <1>5, <1>6 DEF Next, Crash, VerifyEmail, vars

\* No download opens the bytes of a file after its deletion was answered with
\* success, even one that was authorised before (delete_file, open_download).
THEOREM NeverServedAgain == Spec => DeletedIsNeverServed
<1> DEFINE Serve == \A r \in Requests :
                      request'[r].pc = "serving" /\ request[r].pc # "serving" => FileOf(r) \notin deleted
<1>1. ASSUME IInv, [Next]_vars PROVE Serve
  <2>1. SUFFICES ASSUME NEW r \in Requests, request'[r].pc = "serving", request[r].pc # "serving"
                 PROVE  FileOf(r) \notin deleted
    OBVIOUS
  <2>2. OpenStored(r)
    BY <1>1, <2>1, ServesByOpening
  <2>3. stored[FileOf(r)] # "none"
    BY <2>2 DEF OpenStored
  <2> QED BY <1>1, <2>3 DEF IInv, DeletedIsGone
<1> QED BY <1>1, VaultInvariant, PTL DEF Spec, DeletedIsNeverServed

-----------------------------------------------------------------------------
(* FileVault implements FileAccess.                                        *)

Lives == [f \in FileId |-> LifeOf(f)]
Shares == [f \in FileId |-> SharedWith(f)]
Readings == [r \in Requests |-> ReadingOf(r)]

Reading(r) == request[r].pc \in {"opening", "serving"}

LEMMA LifeOfFile ==
    ASSUME NEW f
    PROVE  /\ owner[f] # None => LifeOf(f) = "live"
           /\ owner[f] = None /\ f \in withdrawn => LifeOf(f) = "gone"
           /\ owner[f] = None /\ f \notin withdrawn => LifeOf(f) = "new"
  BY DEF LifeOf

\* Withdrawing bytes shows once the row is gone.
LEMMA SameLives ==
    ASSUME owner' = owner,
           \A f \in FileId : owner[f] = None => (f \in withdrawn' <=> f \in withdrawn)
    PROVE  Lives' = Lives
<1>1. \A f \in FileId : LifeOf(f)' = LifeOf(f)
  BY DEF LifeOf
<1> QED BY <1>1 DEF Lives

LEMMA SameShares == ASSUME grants' = grants PROVE Shares' = Shares
  BY DEF Shares, SharedWith, GrantsTo

LEMMA SameReadings ==
    ASSUME NEW r \in Requests, NEW pc, NEW u, NEW f, NEW grantee, NEW g,
           Moves(r, pc, u, f, grantee, g), ~Reading(r), pc \notin {"opening", "serving"}
    PROVE  Readings' = Readings
<1>1. ReadingOf(r)' = ReadingOf(r)
  BY DEF Moves, Reading, ReadingOf
<1>2. \A s \in Requests \ {r} : ReadingOf(s)' = ReadingOf(s)
  BY DEF Moves, ReadingOf, At, FileOf
<1> QED BY <1>1, <1>2 DEF Readings

LEMMA SameReadingsAtEnd ==
    ASSUME IInv, NEW r \in Requests, Answer(r), ~Reading(r)
    PROVE  Readings' = Readings
  BY AnswerMoves, SameReadings DEF IInv

LEMMA Stutter ==
    ASSUME Lives' = Lives, owner' = owner, Shares' = Shares, Readings' = Readings
    PROVE  UNCHANGED Access!vars
  BY DEF Access!vars, Lives, Shares, Readings

\* The owner of a row being inserted is the uploader, who is a user.
LEMMA PublishStep ==
    ASSUME IInv, NEW r \in Requests, At(r, "inserting"), InsertRow(r),
           grants' = grants, withdrawn' = withdrawn, Readings' = Readings
    PROVE  Access!Next
<1>1. PICK f : f = FileOf(r)
  OBVIOUS
<1>2. PICK u : u = request[r].user
  OBVIOUS
<1>3. Active(r) /\ Private(r) /\ ProgressOf(r)
  BY DEF At, Active, Private, IInv, Progress
<1>4. f \in FileId /\ u \in Users /\ owner[f] = None /\ f \notin withdrawn
  BY <1>1, <1>2, <1>3, FileOfActive DEF ProgressOf
<1>5. owner' = [owner EXCEPT ![f] = u]
  BY <1>1, <1>2 DEF InsertRow
<1>6. LifeOf(f) = "new" /\ LifeOf(f)' = "live" /\ \A k \in FileId \ {f} : LifeOf(k)' = LifeOf(k)
  BY <1>4, <1>5 DEF LifeOf, IInv, Shape
<1>7. Lives[f] = "new" /\ Lives' = [Lives EXCEPT ![f] = "live"]
  BY <1>4, <1>6 DEF Lives
<1>8. Shares' = Shares
  BY SameShares
<1>9. Access!Publish(f, u)
  BY <1>5, <1>7, <1>8 DEF Access!Publish, Lives, Shares, Readings
<1> QED BY <1>4, <1>9 DEF Access!Next

LEMMA RemoveStep ==
    ASSUME IInv, NEW r \in Requests, At(r, "purging"), DeleteRows(FileOf(r)),
           withdrawn' = withdrawn, Readings' = Readings
    PROVE  Access!Next \/ UNCHANGED Access!vars
<1>1. PICK f : f = FileOf(r)
  OBVIOUS
<1>2. Active(r) /\ ProgressOf(r)
  BY DEF At, Active, IInv, Progress
<1>3. f \in FileId /\ f \in withdrawn
  BY <1>1, <1>2, FileOfActive DEF ProgressOf
<1>4. owner' = [owner EXCEPT ![f] = None]
  BY <1>1 DEF DeleteRows
<1>5. \A g \in GrantId : grants'[g] = IF grants[g] # None /\ grants[g].file = f THEN None ELSE grants[g]
  BY <1>1 DEF DeleteRows
<1>6. CASE owner[f] # None
  <2>1. LifeOf(f) = "live" /\ LifeOf(f)' = "gone" /\ \A k \in FileId \ {f} : LifeOf(k)' = LifeOf(k)
    BY <1>3, <1>4, <1>6 DEF LifeOf, IInv, Shape
  <2>2. Lives[f] = "live" /\ Lives' = [Lives EXCEPT ![f] = "gone"]
    BY <1>3, <2>1 DEF Lives
  <2>3. Shares' = [Shares EXCEPT ![f] = {}]
    <3>1. ASSUME NEW u \in Users PROVE GrantsTo(f, u)' = {}
      <4>1. PICK n : n = [file |-> f, user |-> u]
        OBVIOUS
      <4>2. n # None /\ n.file = f
        BY <1>3, <4>1 DEF FileId
      <4> QED BY <1>5, <4>1, <4>2 DEF GrantsTo
    <3>2. ASSUME NEW k \in FileId \ {f}, NEW u \in Users PROVE GrantsTo(k, u)' = GrantsTo(k, u)
      <4>1. PICK n : n = [file |-> k, user |-> u]
        OBVIOUS
      <4>2. n # None /\ n.file # f
        BY <4>1 DEF FileId
      <4> QED BY <1>5, <4>1, <4>2 DEF GrantsTo
    <3>3. SharedWith(f)' = {} /\ \A k \in FileId \ {f} : SharedWith(k)' = SharedWith(k)
      BY <3>1, <3>2 DEF SharedWith
    <3> QED BY <3>3 DEF Shares
  <2>4. Access!Remove(f)
    BY <1>4, <2>2, <2>3 DEF Access!Remove, Lives, Shares, Readings
  <2> QED BY <1>3, <2>4 DEF Access!Next
<1>7. CASE owner[f] = None
  <2>1. owner' = owner
    BY <1>3, <1>4, <1>7 DEF IInv, Shape
  <2>2. grants' = grants
    BY <1>1, <1>5, <1>7 DEF DeleteRows, IInv, Shape, GrantsAreSound
  <2> QED BY <2>1, <2>2, SameLives, SameShares, Stutter
<1> QED BY <1>6, <1>7

LEMMA ShareStep ==
    ASSUME IInv, NEW r \in Requests, CommitGrant(r)
    PROVE  Access!Next
<1>1. PICK f : f = FileOf(r)
  OBVIOUS
<1>2. PICK u : u = request[r].grantee
  OBVIOUS
<1>3. Active(r) /\ ~Reading(r) /\ At(r, "granting") /\ RequestOK(r)
  BY DEF CommitGrant, At, Active, Reading, IInv, RequestsOK
<1>4. f \in FileId /\ u \in Users /\ granted + 1 \in GrantId /\ grants[granted + 1] = None
  BY <1>1, <1>2, <1>3, FileOfActive DEF RequestOK, CommitGrant, GrantId, IInv, Shape, Unused
<1>5. owner[f] # None /\ owner[f] # u /\ GrantsTo(f, u) = {}
  BY <1>1, <1>2, <1>3 DEF RequestOK, CommitGrant, InsertAllowed
<1>6. PICK n : n = [file |-> f, user |-> u]
  OBVIOUS
<1>7. grants' = [grants EXCEPT ![granted + 1] = n]
  BY <1>1, <1>2, <1>6 DEF CommitGrant
<1>8. GrantsTo(f, u)' = {granted + 1}
  BY <1>4, <1>5, <1>6, <1>7 DEF GrantsTo, IInv, Shape
<1>9. \A k \in FileId, v \in Users : <<k, v>> # <<f, u>> => GrantsTo(k, v)' = GrantsTo(k, v)
  BY <1>4, <1>6, <1>7 DEF GrantsTo, IInv, Shape, FileId
<1>10. SharedWith(f)' = SharedWith(f) \union {u} /\ \A k \in FileId \ {f} : SharedWith(k)' = SharedWith(k)
  BY <1>4, <1>8, <1>9 DEF SharedWith
<1>11. Shares' = [Shares EXCEPT ![f] = @ \union {u}] /\ u \notin Shares[f]
  BY <1>4, <1>5, <1>10 DEF Shares, SharedWith
<1>12. Lives[f] = "live"
  BY <1>4, <1>5, LifeOfFile DEF Lives
<1>13. Lives' = Lives
  BY SameLives DEF CommitGrant, history
<1>14. Readings' = Readings
  BY <1>3, SameReadingsAtEnd DEF CommitGrant
<1>15. owner' = owner
  BY DEF CommitGrant
<1>16. Access!Share(f, u)
  BY <1>5, <1>11, <1>12, <1>13, <1>14, <1>15 DEF Access!Share, Lives, Shares, Readings
<1> QED BY <1>4, <1>16 DEF Access!Next

LEMMA UnshareStep ==
    ASSUME IInv, NEW r \in Requests, CommitRevoke(r)
    PROVE  Access!Next \/ UNCHANGED Access!vars
<1>1. PICK g : g = request[r].grant
  OBVIOUS
<1>2. Active(r) /\ ~Reading(r) /\ At(r, "revoking") /\ RequestOK(r)
  BY DEF CommitRevoke, At, Active, Reading, IInv, RequestsOK
<1>3. g \in GrantId /\ grants' = [grants EXCEPT ![g] = None]
  BY <1>1, <1>2 DEF RequestOK, CommitRevoke
<1>4. Lives' = Lives
  BY SameLives DEF CommitRevoke, history
<1>5. Readings' = Readings
  BY <1>2, SameReadingsAtEnd DEF CommitRevoke
<1>6. owner' = owner
  BY DEF CommitRevoke
<1>7. CASE grants[g] = None
  <2>1. grants' = grants
    BY <1>3, <1>7 DEF IInv, Shape
  <2> QED BY <1>4, <1>5, <1>6, <2>1, SameShares, Stutter
<1>8. CASE grants[g] # None
  <2>1. PICK f \in FileId, u \in Users : grants[g] = [file |-> f, user |-> u]
    BY <1>3, <1>8 DEF IInv, Shape, Grant
  <2>2. GrantsTo(f, u) = {g}
    BY <1>3, <1>8, <2>1 DEF GrantsTo, IInv, GrantsAreSound
  <2>3. GrantsTo(f, u)' = {}
    BY <1>3, <2>1, <2>2 DEF GrantsTo, IInv, Shape, FileId
  <2>4. \A k \in FileId, v \in Users : <<k, v>> # <<f, u>> => GrantsTo(k, v)' = GrantsTo(k, v)
    BY <1>3, <2>1 DEF GrantsTo, IInv, Shape, FileId
  <2>5. SharedWith(f)' = SharedWith(f) \ {u} /\ \A k \in FileId \ {f} : SharedWith(k)' = SharedWith(k)
    BY <2>3, <2>4 DEF SharedWith
  <2>6. Shares' = [Shares EXCEPT ![f] = @ \ {u}] /\ u \in Shares[f]
    BY <2>2, <2>5 DEF Shares, SharedWith
  <2>7. Access!Unshare(f, u)
    BY <1>4, <1>5, <1>6, <2>6 DEF Access!Unshare, Lives, Shares, Readings
  <2> QED BY <2>7 DEF Access!Next
<1> QED BY <1>7, <1>8

LEMMA AdmitStep ==
    ASSUME IInv, NEW r \in Requests, NEW u \in Users, NEW f \in FileId, StartDownload(r, u, f)
    PROVE  Access!Next
<1>1. Moves(r, "opening", u, f, None, None)
  BY BeginMoves DEF IInv, StartDownload
<1>2. ~Reading(r)
  BY DEF StartDownload, Begin, At, Reading
<1>3. ReadingOf(r) = Access!NotReading
  BY <1>2 DEF Reading, ReadingOf, Access!NotReading
<1>4. PICK n : n = [user |-> u, file |-> f, open |-> FALSE]
  OBVIOUS
<1>5. ReadingOf(r)' = n
  BY <1>1, <1>4 DEF Moves, ReadingOf, FileOf, At
<1>6. \A s \in Requests \ {r} : ReadingOf(s)' = ReadingOf(s)
  BY <1>1 DEF Moves, ReadingOf, FileOf, At
<1>7. Readings[r] = Access!NotReading /\ Readings' = [Readings EXCEPT ![r] = n]
  BY <1>3, <1>5, <1>6 DEF Readings
<1>8. Lives[f] = "live"
  BY LifeOfFile DEF Lives, StartDownload
<1>9. u \in Shares[f] \union {owner[f]}
  BY DEF StartDownload, CanAccess, Shares, SharedWith
<1>10. Lives' = Lives /\ Shares' = Shares /\ owner' = owner
  BY SameLives, SameShares DEF StartDownload, table, history
<1>11. Access!MayRead(u, f)
  BY <1>8, <1>9 DEF Access!MayRead, Lives, Shares
<1>12. Access!Admit(r, u, f)
  BY <1>4, <1>7, <1>10, <1>11 DEF Access!Admit, Lives, Shares, Readings
<1> QED BY <1>12 DEF Access!Next

\* None is no user, so a download under way is not the absence of one.
LEMMA ReadingIsOne ==
    ASSUME IInv, NEW r \in Requests, Reading(r)
    PROVE  Readings[r] # Access!NotReading
<1>1. request[r].user \in Users
  BY FileOfActive DEF Reading, Active
<1>2. ReadingOf(r) = [user |-> request[r].user, file |-> FileOf(r), open |-> At(r, "serving")]
  BY DEF Reading, ReadingOf
<1>3. ReadingOf(r).user = request[r].user /\ Access!NotReading.user = None
  BY <1>2 DEF Access!NotReading
<1>4. ReadingOf(r) # Access!NotReading
  BY <1>1, <1>3
<1> QED BY <1>4 DEF Readings

LEMMA OpenStep ==
    ASSUME IInv, NEW r \in Requests, OpenStored(r)
    PROVE  Access!Next
<1>1. Moves(r, "serving", request[r].user, request[r].file, request[r].grantee, request[r].grant)
  BY ProceedMoves DEF IInv, OpenStored
<1>2. Reading(r)
  BY DEF OpenStored, At, Reading
<1>3. ReadingOf(r) = [user |-> request[r].user, file |-> FileOf(r), open |-> FALSE]
  BY DEF OpenStored, ReadingOf, At
<1>4. ReadingOf(r)' = [user |-> request[r].user, file |-> FileOf(r), open |-> TRUE]
  BY <1>1 DEF Moves, ReadingOf, FileOf, At
<1>5. ReadingOf(r)' = [ReadingOf(r) EXCEPT !.open = TRUE]
  <2>1. PICK shut : shut = FALSE
    OBVIOUS
  <2>2. PICK open : open = TRUE
    OBVIOUS
  <2>3. ReadingOf(r) = [user |-> request[r].user, file |-> FileOf(r), open |-> shut]
    BY <1>3, <2>1, Zenon
  <2>4. ReadingOf(r)' = [user |-> request[r].user, file |-> FileOf(r), open |-> open]
    BY <1>4, <2>2, Zenon
  <2>5. ReadingOf(r)' = [ReadingOf(r) EXCEPT !.open = open]
    BY <2>3, <2>4
  <2> QED BY <2>2, <2>5, Zenon
<1>6. \A s \in Requests \ {r} : ReadingOf(s)' = ReadingOf(s)
  BY <1>1 DEF Moves, ReadingOf, FileOf, At
<1>7. Readings' = [Readings EXCEPT ![r].open = TRUE]
  BY <1>5, <1>6 DEF Readings
<1>8. Lives' = Lives /\ Shares' = Shares /\ owner' = owner
  BY SameLives, SameShares DEF OpenStored, table, history
<1>9. Access!Open(r)
  BY <1>2, <1>7, <1>8, ReadingIsOne DEF Access!Open, Lives, Shares, Readings
<1> QED BY <1>9 DEF Access!Next

LEMMA EndStep ==
    ASSUME IInv, NEW r \in Requests, Reading(r), Answer(r),
           UNCHANGED <<owner, grants, withdrawn>>
    PROVE  Access!Next
<1>1. Moves(r, "idle", None, None, None, None)
  BY AnswerMoves DEF IInv
<1>2. ReadingOf(r)' = Access!NotReading
  BY <1>1 DEF Moves, ReadingOf, Access!NotReading
<1>3. \A s \in Requests \ {r} : ReadingOf(s)' = ReadingOf(s)
  BY <1>1 DEF Moves, ReadingOf, FileOf, At
<1>4. Readings' = [Readings EXCEPT ![r] = Access!NotReading]
  BY <1>2, <1>3 DEF Readings
<1>5. Lives' = Lives /\ Shares' = Shares /\ owner' = owner
  BY SameLives, SameShares
<1>6. Access!End(r)
  BY <1>4, <1>5, ReadingIsOne DEF Access!End, Lives, Shares, Readings
<1> QED BY <1>6 DEF Access!Next

LEMMA QuietStep ==
    ASSUME UNCHANGED <<owner, grants, withdrawn>>, Readings' = Readings
    PROVE  UNCHANGED Access!vars
  BY SameLives, SameShares, Stutter

\* A delete request that touches the bytes of a file without a row is not the
\* first to do so.
LEMMA WithdrawStep ==
    ASSUME IInv, NEW r \in Requests, DeleteBytes(r) \/ DeleteBytesFails(r)
    PROVE  UNCHANGED Access!vars
<1>1. Active(r) /\ ~Uploading(r) /\ ~Reading(r) /\ ProgressOf(r)
  BY DEF DeleteBytes, DeleteBytesFails, At, Active, Uploading, Reading, IInv, Progress
<1>2. Lives' = Lives
  BY <1>1, SameLives DEF DeleteBytes, DeleteBytesFails, table, ProgressOf
<1>3. Readings' = Readings
  <2>1. CASE DeleteBytes(r)
    BY <1>1, <2>1, ProceedMoves, SameReadings DEF DeleteBytes, IInv
  <2>2. CASE DeleteBytesFails(r)
    BY <1>1, <2>2, SameReadingsAtEnd DEF DeleteBytesFails
  <2> QED BY <2>1, <2>2
<1>4. owner' = owner /\ Shares' = Shares
  BY SameShares DEF DeleteBytes, DeleteBytesFails, table
<1> QED BY <1>2, <1>3, <1>4, Stutter

LEMMA UploadSteps ==
    ASSUME IInv, NEW r \in Requests,
           \/ \E u \in Users, b \in {"filesystem", "vercel_blob"} : StartUpload(r, u, b)
           \/ FinishWrite(r) \/ WriteFails(r) \/ WriteLeavesBytes(r)
           \/ CommitUpload(r) \/ CommitUploadFails(r) \/ CleanUp(r) \/ CleanUpFails(r)
    PROVE  Access!Next \/ UNCHANGED Access!vars
<1>1. ASSUME NEW u \in Users, NEW b, StartUpload(r, u, b) PROVE UNCHANGED Access!vars
  <2>1. begun + 1 \in FileId /\ ~Reading(r)
    BY <1>1 DEF StartUpload, Begin, At, Reading, FileId, IInv, Shape
  <2>2. Moves(r, "writing", u, begun + 1, None, None)
    BY <1>1, <2>1, BeginMoves DEF IInv, StartUpload
  <2>3. Readings' = Readings
    BY <2>1, <2>2, SameReadings
  <2> QED BY <1>1, <2>3, QuietStep DEF StartUpload, table, history
<1>2. CASE FinishWrite(r)
  <2>1. ~Reading(r)
    BY <1>2 DEF FinishWrite, At, Reading
  <2>2. Readings' = Readings
    BY <1>2, <2>1, ProceedMoves, SameReadings DEF FinishWrite, IInv
  <2> QED BY <1>2, <2>2, QuietStep DEF FinishWrite, table, history
<1>3. CASE WriteFails(r) \/ WriteLeavesBytes(r) \/ CleanUp(r) \/ CleanUpFails(r)
  <2>1. ~Reading(r) /\ Answer(r)
    BY <1>3 DEF WriteFails, WriteLeavesBytes, CleanUp, CleanUpFails, At, Reading
  <2> QED BY <1>3, <2>1, SameReadingsAtEnd, QuietStep
          DEF WriteFails, WriteLeavesBytes, CleanUp, CleanUpFails, table, history
<1>4. CASE CommitUpload(r)
  <2>1. ~Reading(r)
    BY <1>4 DEF CommitUpload, At, Reading
  <2> QED BY <1>4, <2>1, SameReadingsAtEnd, PublishStep DEF CommitUpload
<1>5. CASE CommitUploadFails(r)
  <2>1. ~Reading(r)
    BY <1>5 DEF CommitUploadFails, At, Reading
  <2>2. Readings' = Readings
    BY <1>5, <2>1, ProceedMoves, SameReadings DEF CommitUploadFails, IInv
  <2> QED BY <1>5, <2>2, PublishStep, QuietStep DEF CommitUploadFails, history
<1> QED BY <1>1, <1>2, <1>3, <1>4, <1>5

LEMMA DeleteSteps ==
    ASSUME IInv, NEW r \in Requests,
           \/ \E u \in Users, f \in FileId : StartDelete(r, u, f)
           \/ DeleteBytes(r) \/ DeleteBytesFails(r) \/ CommitDelete(r) \/ CommitDeleteFails(r)
    PROVE  Access!Next \/ UNCHANGED Access!vars
<1>1. ASSUME NEW u \in Users, NEW f \in FileId, StartDelete(r, u, f) PROVE UNCHANGED Access!vars
  <2>1. ~Reading(r)
    BY <1>1 DEF StartDelete, Begin, At, Reading
  <2>2. Moves(r, "deleting", u, f, None, None)
    BY <1>1, BeginMoves DEF IInv, StartDelete
  <2> QED BY <1>1, <2>1, <2>2, SameReadings, QuietStep DEF StartDelete, table, history
<1>2. CASE CommitDelete(r) \/ CommitDeleteFails(r)
  <2>1. ~Reading(r) /\ Answer(r) /\ At(r, "purging")
    BY <1>2 DEF CommitDelete, CommitDeleteFails, At, Reading
  <2>2. Readings' = Readings /\ withdrawn' = withdrawn
    BY <1>2, <2>1, SameReadingsAtEnd DEF CommitDelete, CommitDeleteFails, history
  <2> QED BY <1>2, <2>1, <2>2, RemoveStep, QuietStep DEF CommitDelete, CommitDeleteFails
<1> QED BY <1>1, <1>2, WithdrawStep

LEMMA DownloadSteps ==
    ASSUME IInv, NEW r \in Requests,
           \/ \E u \in Users, f \in FileId : StartDownload(r, u, f)
           \/ OpenStored(r) \/ EndDownload(r)
    PROVE  Access!Next
<1>1. EndDownload(r) => Reading(r)
  BY DEF EndDownload, At, Reading
<1> QED BY <1>1, AdmitStep, OpenStep, EndStep DEF EndDownload, table, history

LEMMA PermissionSteps ==
    ASSUME IInv, NEW r \in Requests, PermissionStep(r)
    PROVE  Access!Next \/ UNCHANGED Access!vars
<1>1. ASSUME NEW u \in Users, NEW grantee \in Users, NEW f \in FileId, StartGrant(r, u, f, grantee)
      PROVE  UNCHANGED Access!vars
  <2>1. ~Reading(r)
    BY <1>1 DEF StartGrant, Begin, At, Reading
  <2>2. Moves(r, "granting", u, f, grantee, None)
    BY <1>1, BeginMoves DEF IInv, StartGrant
  <2> QED BY <1>1, <2>1, <2>2, SameReadings, QuietStep DEF StartGrant, table, history
<1>2. ASSUME NEW u \in Users, NEW grantee \in Users, NEW f \in FileId, StartRevoke(r, u, f, grantee)
      PROVE  UNCHANGED Access!vars
  <2>1. PICK g \in GrantId : Begin(r, u, "revoking", f, grantee, g)
    BY <1>2 DEF StartRevoke, GrantsTo
  <2>2. ~Reading(r)
    BY <2>1 DEF Begin, At, Reading
  <2>3. Moves(r, "revoking", u, f, grantee, g)
    BY <2>1, BeginMoves DEF IInv
  <2> QED BY <1>2, <2>2, <2>3, SameReadings, QuietStep DEF StartRevoke, table, history
<1>3. CASE EndPermissionRequest(r)
  <2>1. ~Reading(r) /\ Answer(r)
    BY <1>3 DEF EndPermissionRequest, At, Reading
  <2> QED BY <1>3, <2>1, SameReadingsAtEnd, QuietStep DEF EndPermissionRequest, table, history
<1> QED BY <1>1, <1>2, <1>3, ShareStep, UnshareStep DEF PermissionStep

LEMMA CrashStep ==
    ASSUME IInv, NEW r \in Requests, Crash(r)
    PROVE  Access!Next \/ UNCHANGED Access!vars
<1>1. CASE Reading(r)
  BY <1>1, EndStep DEF Crash, table
<1>2. CASE ~Reading(r)
  BY <1>2, SameReadingsAtEnd, QuietStep DEF Crash, table
<1> QED BY <1>1, <1>2

LEMMA NextImplementsAccess == IInv /\ [Next]_vars => [Access!Next]_(Access!vars)
<1> SUFFICES ASSUME IInv, [Next]_vars PROVE Access!Next \/ UNCHANGED Access!vars
  OBVIOUS
<1>1. ASSUME NEW r \in Requests, FileStep(r) PROVE Access!Next \/ UNCHANGED Access!vars
  BY <1>1, UploadSteps, DeleteSteps, DownloadSteps DEF FileStep
<1>2. ASSUME request' = request, owner' = owner, grants' = grants, withdrawn' = withdrawn
      PROVE  UNCHANGED Access!vars
  <2>1. \A r \in Requests : ReadingOf(r)' = ReadingOf(r)
    BY <1>2 DEF ReadingOf, At, FileOf
  <2> QED BY <1>2, <2>1, QuietStep DEF Readings
<1> QED BY <1>1, <1>2, PermissionSteps, CrashStep DEF Next, VerifyEmail, vars, table, history

LEMMA InitImplementsAccess == Init => Access!Init
<1> SUFFICES ASSUME Init PROVE Access!Init
  OBVIOUS
<1>1. \A f \in FileId : LifeOf(f) = "new"
  BY LifeOfFile DEF Init
<1>2. \A f \in FileId : SharedWith(f) = {}
  <2>1. SUFFICES ASSUME NEW f \in FileId, NEW u \in Users, NEW g \in GrantId,
                        grants[g] = [file |-> f, user |-> u]
                 PROVE  FALSE
    BY DEF SharedWith, GrantsTo
  <2>2. None \in [file : Nat, user : Users]
    BY <2>1 DEF Init, FileId
  <2> QED BY <2>2
<1>3. \A r \in Requests : ReadingOf(r) = Access!NotReading
  BY DEF Init, IdleRequest, ReadingOf, Access!NotReading
<1> QED BY <1>1, <1>2, <1>3 DEF Access!Init, Init

\* The file and permission services, with storage and database failing
\* separately and requests interleaving, implement the atomic FileAccess: who
\* may read a file is decided by its owner, a share only exists while the file
\* does, and no file comes back (file_service.py, permission_service.py).
THEOREM VaultImplementsFileAccess == Spec => ImplementsFileAccess
  BY VaultInvariant, InitImplementsAccess, NextImplementsAccess, PTL
     DEF Spec, ImplementsFileAccess, Access!Spec
=============================================================================
