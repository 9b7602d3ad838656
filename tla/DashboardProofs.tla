-------------------------- MODULE DashboardProofs --------------------------
(***************************************************************************)
(* Proofs about Dashboard: whatever number of calls is in flight and in    *)
(* whatever order they are answered, the permissions dialog shows the rows *)
(* of the file it names, and a page with nothing in flight shows the       *)
(* owner's own changes.                                                    *)
(***************************************************************************)
EXTENDS Dashboard, FiniteSetTheorems, TLAPS

USE DashboardAssumption

\* The calls whose handler keeps a button busy.
Single == {"upload", "grant", "delete"}
AboutFiles == {"permissions", "grant", "revoke", "delete"}
AskedKinds == {"files", "permissions"} \union Changes
Buttons == {"none", "upload", "grant", "delete"}

Types ==
    /\ listed \in Version /\ newest \in Version /\ begun \in Version
    /\ unanswered \in BOOLEAN
    /\ changed \in [Files -> Version] /\ newestRows \in [Files -> Version]
    /\ removed \subseteq Files
    /\ call \in [Calls -> Call]
    /\ list \in [state: {"loading", "shown", "failed"}, version: Version]
    /\ permissionsFile \in Files \union {None} /\ deleteFile \in Files \union {None}
    /\ rows \in Rows

\* Every call is about what its kind is about, and keeps its button busy.
CallsMakeSense ==
    \A c \in Calls :
        /\ call[c].pc = "idle" <=> call[c].kind = "none"
        /\ call[c].file \in Files
             <=> call[c].kind \in AboutFiles
        /\ call[c].kind \in Single => call[c].button = call[c].kind

\* A busy button keeps its handler from running twice.
OneAtATime ==
    \A c, d \in Calls : call[c].kind \in Single /\ call[c].kind = call[d].kind => c = d

\* Answers, and what the page has seen of them, know nothing that has not been
\* carried out, and the rows shown are no newer than the newest answer.
AnswersKnown ==
    \A c \in Calls :
        /\ call[c].kind = "files" => call[c].version <= listed
        /\ call[c].kind = "permissions" => call[c].version <= changed[call[c].file]
SeenIsKnown ==
    /\ newest <= listed /\ list.version <= newest
    /\ \A f \in Files : newestRows[f] <= changed[f]
RowsFit ==
    permissionsFile # None /\ rows.state = "shown"
        => rows.of = permissionsFile /\ rows.version <= newestRows[permissionsFile]

Owed(p) == IF p THEN 1 ELSE 0
Sent(c, kind) == call[c].pc = "sent" /\ call[c].kind = kind

\* Every change carried out or still to be carried out was asked for.
Uploading == \E c \in Calls : Sent(c, "upload")
DeletionOpen == deleteFile # None /\ deleteFile \notin removed
DeletionSent == \E c \in Calls : /\ Sent(c, "delete")
                                 /\ call[c].file \notin removed
                                 /\ call[c].file # deleteFile
Changing(f) == {c \in Calls : (Sent(c, "grant") \/ Sent(c, "revoke")) /\ call[c].file = f}
AskedFor ==
    /\ listed + Owed(Uploading) + Owed(DeletionOpen) + Owed(DeletionSent) <= begun
    /\ \A f \in Files : changed[f] + Cardinality(Changing(f)) <= begun

\* A call whose answer, or the reload it leads to, will show the last change.
BringsList(c) ==
    \/ Sent(c, "files")
    \/ Answered(c, "files") /\ call[c].version = listed
    \/ (Answered(c, "upload") \/ Answered(c, "delete")) /\ call[c].ok
BringsRows(c, f) ==
    /\ call[c].file = f
    /\ \/ Sent(c, "permissions")
       \/ Answered(c, "permissions") /\ call[c].version = changed[f]
       \/ (Answered(c, "grant") \/ Answered(c, "revoke")) /\ call[c].ok

ListIsOnItsWay == unanswered \/ newest = listed \/ \E c \in Calls : BringsList(c)
RowsAreOnTheirWay ==
    \/ unanswered
    \/ permissionsFile = None
    \/ newestRows[permissionsFile] = changed[permissionsFile]
    \/ \E c \in Calls : BringsRows(c, permissionsFile)

IInv == /\ Types /\ CallsMakeSense /\ OneAtATime /\ AskedFor
        /\ AnswersKnown /\ SeenIsKnown /\ RowsFit
        /\ ListIsOnItsWay /\ RowsAreOnTheirWay

-----------------------------------------------------------------------------
(* What the actions do to a call.                                          *)

\* Nothing else happens to the calls than that c becomes r.
Becomes(c, r) ==
    /\ r \in Call
    /\ call' \in [Calls -> Call]
    /\ call'[c] = r
    /\ \A d \in Calls : d # c => call'[d] = call[d]

LEMMA Fields ==
    ASSUME NEW r \in Call
    PROVE  /\ r.pc \in {"idle", "sent", "answered"}
           /\ r.kind \in {"none", "files", "permissions", "upload", "grant", "revoke", "delete"}
           /\ r.file \in Files \union {None}
           /\ r.button \in {"none", "upload", "grant", "delete"}
           /\ r.ok \in BOOLEAN /\ r.version \in Version
  BY DEF Call, Changes

LEMMA IdleIsCall ==
    /\ IdleCall \in Call
    /\ IdleCall.pc = "idle" /\ IdleCall.kind = "none" /\ IdleCall.file = None
    /\ IdleCall.version = 0
  BY DEF IdleCall, Call, Version

LEMMA RequestIsCall ==
    ASSUME NEW kind \in AskedKinds,
           NEW file \in Files \union {None}, NEW button \in Buttons,
           NEW r \in {Request(kind, file, button)}
    PROVE  /\ r \in Call
           /\ r.pc = "sent" /\ r.kind = kind /\ r.file = file /\ r.button = button
           /\ r.version = 0
<1>1. r = [pc |-> "sent", kind |-> kind, file |-> file, button |-> button, ok |-> FALSE,
           version |-> 0]
  BY DEF Request, IdleCall
<1>2. 0 \in Version
  BY DEF Version
<1> QED BY <1>1, <1>2 DEF Call, AskedKinds, Buttons

LEMMA Swapped ==
    ASSUME Types, NEW c \in Calls, NEW r \in Call, call' = [call EXCEPT ![c] = r]
    PROVE  Becomes(c, r)
  BY DEF Types, Becomes

LEMMA Finished ==
    ASSUME Types, NEW c \in Calls, Finish(c)
    PROVE  Becomes(c, IdleCall)
  BY IdleIsCall, Swapped DEF Finish

LEMMA SentOne ==
    ASSUME Types, NEW c \in Calls,
           NEW kind \in AskedKinds,
           NEW file \in Files \union {None}, NEW button \in Buttons,
           Send(c, kind, file, button)
    PROVE  \E r \in Call :
             /\ Becomes(c, r)
             /\ r.pc = "sent" /\ r.kind = kind /\ r.file = file /\ r.button = button
             /\ r.version = 0
<1>0. PICK r \in {Request(kind, file, button)} : TRUE
  OBVIOUS
<1>1. /\ r \in Call
      /\ r.pc = "sent" /\ r.kind = kind /\ r.file = file /\ r.button = button
      /\ r.version = 0
  BY <1>0, RequestIsCall
<1>2. Becomes(c, r)
  BY <1>0, <1>1, Swapped DEF Send
<1> QED BY <1>1, <1>2

\* A question of the user goes to a call that was idle.
Asks(c, kind, file) ==
    /\ call[c].pc = "idle"
    /\ kind \in Single => \A d \in Calls : call[d].button # kind
    /\ \E r \in Call : /\ Becomes(c, r)
                       /\ r.pc = "sent" /\ r.kind = kind /\ r.file = file
                       /\ kind \in Single => r.button = kind
                       /\ r.version = 0

\* A read is answered, or a call is refused.
Answers(c) ==
    /\ call[c].pc = "sent"
    /\ \E r \in Call :
         /\ Becomes(c, r)
         /\ r.pc = "answered" /\ r.kind = call[c].kind /\ r.file = call[c].file
         /\ r.button = call[c].button
         /\ call[c].kind \in {"files", "permissions"} => r.version = Current(c)

Changed(c, ok) ==
    /\ call[c].pc = "sent" /\ call[c].kind \in Changes /\ call[c].file \notin removed
    /\ \E r \in Call :
         /\ Becomes(c, r)
         /\ r.pc = "answered" /\ r.kind = call[c].kind /\ r.file = call[c].file
         /\ r.button = call[c].button
         /\ ok => r.ok

\* The handler asks for the list of files while its button is busy.
Reloads(c) ==
    /\ call[c].pc = "answered"
    /\ \E r \in Call : /\ Becomes(c, r)
                       /\ r.pc = "sent" /\ r.kind = "files" /\ r.file = None /\ r.version = 0

\* And, after a grant or a revocation, for the rows of its file.
ReloadsBoth(c, d) ==
    /\ call[c].pc = "answered" /\ call[d].pc = "idle" /\ c # d
    /\ call' \in [Calls -> Call]
    /\ call'[c].pc = "sent" /\ call'[c].kind = "files" /\ call'[c].file = None
    /\ call'[c].version = 0
    /\ call'[d].pc = "sent" /\ call'[d].kind = "permissions" /\ call'[d].file = call[c].file
    /\ call'[d].version = 0
    /\ \A e \in Calls : e # c /\ e # d => call'[e] = call[e]

Ends(c) == call[c].pc = "answered" /\ Becomes(c, IdleCall)

LEMMA AskEffect ==
    ASSUME Types, NEW c \in Calls,
           NEW kind \in AskedKinds,
           NEW file \in Files \union {None}, NEW button \in Buttons,
           kind \in Single => button = kind /\ ~Busy(kind),
           Ask(c, kind, file, button)
    PROVE  /\ Asks(c, kind, file)
           /\ begun' = begun + 1 /\ begun' \in Version
           /\ UNCHANGED <<listed, changed, removed, unanswered>>
<1>1. FirstIdle(c) /\ Act /\ Send(c, kind, file, button) /\ UNCHANGED <<server, unanswered>>
  BY DEF Ask, Ready
<1>2. PICK r \in Call :
        /\ Becomes(c, r)
        /\ r.pc = "sent" /\ r.kind = kind /\ r.file = file /\ r.button = button
        /\ r.version = 0
  BY <1>1, SentOne
<1>3. call[c].pc = "idle"
  BY <1>1 DEF FirstIdle, Idle
<1>4. kind \in Single => \A d \in Calls : call[d].button # kind
  BY DEF Busy
<1>5. Asks(c, kind, file)
  BY <1>2, <1>3, <1>4 DEF Asks
<1>6. begun' = begun + 1 /\ begun' \in Version
  BY <1>1 DEF Act, Types, Version
<1> QED BY <1>1, <1>5, <1>6 DEF server

\* What the user starts, told apart only by what it does to the page.
Starts(c, kind, file) ==
    /\ Asks(c, kind, file)
    /\ file \in Files <=> kind \in AboutFiles
    /\ \/ begun' = begun + 1 /\ kind # "delete"
       \/ begun' = begun /\ kind = "delete" /\ file = deleteFile
    /\ begun' \in Version
    /\ \/ UNCHANGED <<permissionsFile, rows>>
       \/ kind = "permissions" /\ permissionsFile' = file /\ rows' = Loading(file)
    /\ UNCHANGED <<listed, changed, removed, unanswered, list, newest, newestRows, deleteFile>>

LEMMA UserEffect ==
    ASSUME Types, NEW c \in Calls, User(c)
    PROVE  \E kind \in AskedKinds, file \in Files \union {None} : Starts(c, kind, file)
<1>0. /\ "upload" \in AskedKinds /\ "files" \in AskedKinds /\ "permissions" \in AskedKinds
      /\ "grant" \in AskedKinds /\ "revoke" \in AskedKinds /\ "delete" \in AskedKinds
      /\ "none" \in Buttons /\ "upload" \in Buttons /\ "grant" \in Buttons /\ "delete" \in Buttons
  BY DEF AskedKinds, Changes, Buttons
<1>1. CASE Upload(c)
  <2>1. Asks(c, "upload", None) /\ begun' = begun + 1 /\ begun' \in Version
        /\ UNCHANGED <<listed, changed, removed, unanswered>>
    BY <1>0, <1>1, AskEffect DEF Upload, Single
  <2>2. Starts(c, "upload", None)
    BY <1>1, <2>1 DEF Starts, Upload, page, AboutFiles
  <2> QED BY <1>0, <2>2
<1>2. CASE RefuseDownload(c)
  <2>1. Asks(c, "files", None) /\ begun' = begun + 1 /\ begun' \in Version
        /\ UNCHANGED <<listed, changed, removed, unanswered>>
    BY <1>0, <1>2, AskEffect DEF RefuseDownload, Single
  <2>2. Starts(c, "files", None)
    BY <1>2, <2>1 DEF Starts, RefuseDownload, page, AboutFiles
  <2> QED BY <1>0, <2>2
<1>3. ASSUME NEW f \in Files, OpenPermissions(c, f)
      PROVE  \E kind \in AskedKinds, file \in Files \union {None} : Starts(c, kind, file)
  <2>1. Asks(c, "permissions", f) /\ begun' = begun + 1 /\ begun' \in Version
        /\ UNCHANGED <<listed, changed, removed, unanswered>>
    BY <1>0, <1>3, AskEffect DEF OpenPermissions, Single
  <2>2. Starts(c, "permissions", f)
    BY <1>3, <2>1 DEF Starts, OpenPermissions, AboutFiles
  <2> QED BY <1>0, <2>2
<1>4. CASE Grant(c)
  <2>0. permissionsFile \in Files
    BY <1>4 DEF Grant, Types
  <2>f. PICK f \in Files : f = permissionsFile
    BY <2>0
  <2>1. Asks(c, "grant", f) /\ begun' = begun + 1 /\ begun' \in Version
        /\ UNCHANGED <<listed, changed, removed, unanswered>>
    BY <1>0, <1>4, <2>f, AskEffect DEF Grant, Single
  <2>2. Starts(c, "grant", f)
    BY <1>4, <2>1 DEF Starts, Grant, page, AboutFiles
  <2> QED BY <1>0, <2>2
<1>5. CASE Revoke(c)
  <2>0. permissionsFile \in Files
    BY <1>5 DEF Revoke, Types
  <2>f. PICK f \in Files : f = permissionsFile
    BY <2>0
  <2>1. Asks(c, "revoke", f) /\ begun' = begun + 1 /\ begun' \in Version
        /\ UNCHANGED <<listed, changed, removed, unanswered>>
    BY <1>0, <1>5, <2>f, AskEffect DEF Revoke, Single
  <2>2. Starts(c, "revoke", f)
    BY <1>5, <2>1 DEF Starts, Revoke, page, AboutFiles
  <2> QED BY <1>0, <2>2
<1>6. CASE ConfirmDelete(c)
  <2>0. deleteFile \in Files
    BY <1>6 DEF ConfirmDelete, Types
  <2>f. PICK f \in Files : f = deleteFile
    BY <2>0
  <2>1. PICK r \in Call :
          /\ Becomes(c, r)
          /\ r.pc = "sent" /\ r.kind = "delete" /\ r.file = f /\ r.button = "delete"
          /\ r.version = 0
    BY <1>0, <1>6, <2>f, SentOne DEF ConfirmDelete
  <2>2. Asks(c, "delete", f)
    BY <1>6, <2>1 DEF Asks, ConfirmDelete, Ready, FirstIdle, Idle, Busy
  <2>3. Starts(c, "delete", f)
    BY <1>6, <2>2, <2>f DEF Starts, ConfirmDelete, page, server, AboutFiles, Types
  <2> QED BY <1>0, <2>3
<1> QED BY <1>1, <1>2, <1>3, <1>4, <1>5, <1>6 DEF User

LEMMA CurrentIsVersion ==
    ASSUME Types, CallsMakeSense, NEW c \in Calls
    PROVE  Current(c) \in Version
<1>1. listed \in Version /\ 0 \in Version
  BY DEF Types, Version
<1>2. call[c].kind = "permissions" => changed[call[c].file] \in Version
  BY DEF Types, CallsMakeSense, AboutFiles
<1> QED BY <1>1, <1>2 DEF Current

LEMMA ReadEffect ==
    ASSUME Types, CallsMakeSense, NEW c \in Calls, Read(c) \/ Refuse(c)
    PROVE  /\ Answers(c)
           /\ UNCHANGED <<server, page, begun, unanswered>>
<1>0. call[c] \in Call /\ call \in [Calls -> Call] /\ Current(c) \in Version
  BY CurrentIsVersion DEF Types
<1>1. CASE Read(c)
  <2>1. PICK r : r = [call[c] EXCEPT !.pc = "answered", !.ok = TRUE, !.version = Current(c)]
    OBVIOUS
  <2>2. /\ r \in Call /\ r.pc = "answered" /\ r.kind = call[c].kind /\ r.file = call[c].file
        /\ r.button = call[c].button /\ r.version = Current(c)
    BY <1>0, <2>1 DEF Call
  <2>3. call' = [call EXCEPT ![c] = r]
    BY <1>0, <1>1, <2>1 DEF Read, Call
  <2> QED BY <1>1, <2>2, <2>3, Swapped DEF Read, Answers
<1>2. CASE Refuse(c)
  <2>1. PICK r : r = [call[c] EXCEPT !.pc = "answered", !.version = Current(c)]
    OBVIOUS
  <2>2. /\ r \in Call /\ r.pc = "answered" /\ r.kind = call[c].kind /\ r.file = call[c].file
        /\ r.button = call[c].button /\ r.version = Current(c)
    BY <1>0, <2>1 DEF Call
  <2>3. call' = [call EXCEPT ![c] = r]
    BY <1>0, <1>2, <2>1 DEF Refuse, Call
  <2> QED BY <1>2, <2>2, <2>3, Swapped DEF Refuse, Answers
<1> QED BY <1>1, <1>2

LEMMA ChangeEffect ==
    ASSUME Types, NEW c \in Calls, NEW ok \in BOOLEAN, Change(c, ok)
    PROVE  /\ Changed(c, ok)
           /\ unanswered' \in BOOLEAN
           /\ ~unanswered' => ~unanswered /\ ok
           /\ UNCHANGED <<page, begun>>
<1>0. call[c] \in Call /\ call \in [Calls -> Call]
  BY DEF Types
<1>1. PICK r : r = [call[c] EXCEPT !.pc = "answered", !.ok = ok]
  OBVIOUS
<1>2. /\ r \in Call /\ r.pc = "answered" /\ r.kind = call[c].kind /\ r.file = call[c].file
      /\ r.button = call[c].button
  BY <1>0, <1>1 DEF Call
<1>3. ok => r.ok
  BY <1>0, <1>1 DEF Call
<1>4. call' = [call EXCEPT ![c] = r]
  BY <1>0, <1>1 DEF Change, Call
<1>5. Becomes(c, r)
  BY <1>2, <1>4, Swapped
<1>6. call[c].pc = "sent" /\ call[c].kind \in Changes /\ call[c].file \notin removed
  BY DEF Change, Exists
<1>7. Changed(c, ok)
  BY <1>2, <1>3, <1>5, <1>6 DEF Changed
<1>8. unanswered' = (unanswered \/ ~ok) /\ UNCHANGED <<page, begun>>
  BY DEF Change
<1>9. unanswered' \in BOOLEAN /\ (~unanswered' => ~unanswered /\ ok)
  BY <1>8
<1> QED BY <1>7, <1>8, <1>9

\* The handlers of the page, told apart by the call they end or send on.
LEMMA ShowFilesEffect ==
    ASSUME Types, NEW c \in Calls, ShowFiles(c)
    PROVE  /\ Ends(c) /\ call[c].kind = "files"
           /\ list' \in [state: {"loading", "shown", "failed"}, version: Version]
           /\ list'.version = call[c].version
           /\ newest' = Newer(newest, call[c].version)
           /\ UNCHANGED <<server, permissionsFile, rows, newestRows, deleteFile, begun, unanswered>>
  BY Finished DEF ShowFiles, Answered, Ends, Types, Call

LEMMA ShowPermissionsEffect ==
    ASSUME Types, NEW c \in Calls, ShowPermissions(c)
    PROVE  /\ Ends(c) /\ call[c].kind = "permissions"
           /\ \/ /\ permissionsFile = call[c].file
                 /\ rows' \in [state: {"empty", "loading", "shown", "failed"},
                              of: {call[c].file}, version: {call[c].version}]
                 /\ newestRows' = [newestRows EXCEPT
                                     ![call[c].file] = Newer(@, call[c].version)]
              \/ permissionsFile # call[c].file /\ UNCHANGED <<rows, newestRows>>
           /\ UNCHANGED <<server, list, newest, permissionsFile, deleteFile, begun, unanswered>>
  BY Finished DEF ShowPermissions, Answered, Ends

LEMMA AfterUploadEffect ==
    ASSUME Types, NEW c \in Calls, AfterUpload(c)
    PROVE  /\ (Ends(c) /\ ~call[c].ok) \/ Reloads(c)
           /\ call[c].kind = "upload"
           /\ UNCHANGED <<server, page, begun, unanswered>>
<1>1. /\ call[c].pc = "answered" /\ call[c].kind = "upload"
      /\ UNCHANGED <<server, page, begun, unanswered>>
  BY DEF AfterUpload, Answered
<1>2. CASE ~call[c].ok
  BY <1>1, <1>2, Finished DEF AfterUpload, Ends
<1>3. CASE call[c].ok
  <2>1. "files" \in AskedKinds /\ "upload" \in Buttons
    BY DEF AskedKinds, Buttons
  <2>2. Send(c, "files", None, "upload")
    BY <1>3 DEF AfterUpload
  <2> QED BY <1>1, <2>1, <2>2, SentOne DEF Reloads
<1> QED BY <1>1, <1>2, <1>3

LEMMA AfterDeleteEffect ==
    ASSUME Types, NEW c \in Calls, AfterDelete(c)
    PROVE  /\ (Ends(c) /\ ~call[c].ok) \/ Reloads(c)
           /\ call[c].kind = "delete"
           /\ deleteFile' \in {deleteFile, None}
           /\ UNCHANGED <<server, list, newest, permissionsFile, rows, newestRows, begun, unanswered>>
<1>1. /\ call[c].pc = "answered" /\ call[c].kind = "delete" /\ deleteFile' \in {deleteFile, None}
      /\ UNCHANGED <<server, list, newest, permissionsFile, rows, newestRows, begun, unanswered>>
  BY DEF AfterDelete, Answered
<1>2. CASE ~call[c].ok
  BY <1>1, <1>2, Finished DEF AfterDelete, Ends
<1>3. CASE call[c].ok
  <2>1. "files" \in AskedKinds /\ "delete" \in Buttons
    BY DEF AskedKinds, Buttons
  <2>2. Send(c, "files", None, "delete")
    BY <1>3 DEF AfterDelete
  <2> QED BY <1>1, <2>1, <2>2, SentOne DEF Reloads
<1> QED BY <1>1, <1>2, <1>3

LEMMA AfterPermissionChangeEffect ==
    ASSUME Types, CallsMakeSense, NEW c \in Calls, AfterPermissionChange(c)
    PROVE  /\ call[c].kind \in {"grant", "revoke"} /\ call[c].file \in Files
           /\ \/ Ends(c) /\ ~call[c].ok /\ UNCHANGED rows
              \/ /\ \E d \in Calls : ReloadsBoth(c, d)
                 /\ rows' \in {NoRows, Loading(call[c].file)}
           /\ UNCHANGED <<server, list, newest, permissionsFile, newestRows, deleteFile, begun,
                          unanswered>>
<1>1. /\ call[c].pc = "answered" /\ call[c].kind \in {"grant", "revoke"}
      /\ UNCHANGED <<server, list, newest, permissionsFile, newestRows, deleteFile, begun,
                     unanswered>>
  BY DEF AfterPermissionChange, Answered
<1>2. call[c].file \in Files /\ call[c] \in Call /\ call \in [Calls -> Call]
  BY <1>1 DEF CallsMakeSense, AboutFiles, Types
<1>3. CASE ~call[c].ok /\ Finish(c) /\ UNCHANGED rows
  BY <1>1, <1>2, <1>3, Finished DEF Ends
<1>4. ASSUME NEW d \in Calls, FirstIdle(d),
             call' = [call EXCEPT
                    ![c] = Request("files", None, call[c].button),
                    ![d] = Request("permissions", call[c].file, call[c].button)]
      PROVE  ReloadsBoth(c, d)
  <2>1. PICK r \in {Request("files", None, call[c].button)} : TRUE
    OBVIOUS
  <2>2. PICK s \in {Request("permissions", call[c].file, call[c].button)} : TRUE
    OBVIOUS
  <2>3. call[c].button \in Buttons /\ "files" \in AskedKinds /\ "permissions" \in AskedKinds
    BY <1>2, Fields DEF Buttons, AskedKinds
  <2>4. PICK b \in Buttons, f \in Files : b = call[c].button /\ f = call[c].file
    BY <1>2, <2>3
  <2>5. r \in Call /\ r.pc = "sent" /\ r.kind = "files" /\ r.file = None /\ r.version = 0
    BY <2>1, <2>3, <2>4, RequestIsCall
  <2>6. s \in Call /\ s.pc = "sent" /\ s.kind = "permissions" /\ s.file = f /\ s.version = 0
    BY <2>2, <2>3, <2>4, RequestIsCall
  <2>7. c # d /\ call[d].pc = "idle"
    BY <1>1, <1>4 DEF FirstIdle, Idle
  <2>8. call' = [call EXCEPT ![c] = r, ![d] = s]
    BY <1>4, <2>1, <2>2
  <2>9. /\ call' \in [Calls -> Call] /\ call'[c] = r /\ call'[d] = s
        /\ \A e \in Calls : e # c /\ e # d => call'[e] = call[e]
    BY <1>2, <2>5, <2>6, <2>7, <2>8
  <2> QED BY <1>1, <2>4, <2>5, <2>6, <2>7, <2>9 DEF ReloadsBoth
<1>5. CASE /\ call[c].ok
           /\ \E d \in Calls :
                /\ FirstIdle(d)
                /\ call' = [call EXCEPT
                    ![c] = Request("files", None, call[c].button),
                    ![d] = Request("permissions", call[c].file, call[c].button)]
           /\ rows' = IF permissionsFile = None THEN NoRows ELSE Loading(call[c].file)
  BY <1>1, <1>2, <1>4, <1>5
<1> QED BY <1>3, <1>5 DEF AfterPermissionChange

-----------------------------------------------------------------------------
(* The calls.                                                              *)

Moves(c) ==
    /\ call[c].pc = "sent"
    /\ \E r \in Call :
         /\ Becomes(c, r)
         /\ r.pc = "answered" /\ r.kind = call[c].kind /\ r.file = call[c].file
         /\ r.button = call[c].button

CallStep ==
    \/ UNCHANGED call
    \/ \E c \in Calls, kind \in AskedKinds, file \in Files \union {None} :
         Asks(c, kind, file) /\ (file \in Files <=> kind \in AboutFiles)
    \/ \E c \in Calls : Moves(c)
    \/ \E c \in Calls : Ends(c) \/ Reloads(c)
    \/ \E c, d \in Calls : ReloadsBoth(c, d) /\ call[c].file \in Files

LEMMA NextCallStep ==
    ASSUME Types, CallsMakeSense, [Next]_vars
    PROVE  CallStep
<1>1. CASE UNCHANGED vars
  BY <1>1 DEF vars, CallStep
<1>2. CASE Dialogs
  BY <1>2 DEF Dialogs, ClosePermissions, CancelDelete, OpenDelete, CallStep
<1>3. ASSUME NEW c \in Calls, User(c) PROVE CallStep
  <2>1. PICK kind \in AskedKinds, file \in Files \union {None} : Starts(c, kind, file)
    BY <1>3, UserEffect
  <2> QED BY <2>1 DEF Starts, CallStep
<1>4. ASSUME NEW c \in Calls, Server(c) PROVE CallStep
  <2>1. CASE Read(c) \/ Refuse(c)
    BY <2>1, ReadEffect DEF Answers, Moves, CallStep
  <2>2. ASSUME NEW ok \in BOOLEAN, Change(c, ok) PROVE CallStep
    <3>1. Changed(c, ok)
      BY <2>2, ChangeEffect
    <3>2. Moves(c)
      BY <3>1 DEF Changed, Moves
    <3> QED BY <3>2 DEF CallStep
  <2> QED BY <1>4, <2>1, <2>2 DEF Server
<1>5. ASSUME NEW c \in Calls, Page(c) PROVE CallStep
  <2>1. CASE ShowFiles(c)
    BY <2>1, ShowFilesEffect DEF CallStep
  <2>2. CASE ShowPermissions(c)
    BY <2>2, ShowPermissionsEffect DEF CallStep
  <2>3. CASE AfterUpload(c)
    BY <2>3, AfterUploadEffect DEF CallStep
  <2>4. CASE AfterDelete(c)
    BY <2>4, AfterDeleteEffect DEF CallStep
  <2>5. CASE AfterPermissionChange(c)
    BY <2>5, AfterPermissionChangeEffect DEF CallStep
  <2> QED BY <1>5, <2>1, <2>2, <2>3, <2>4, <2>5 DEF Page
<1> QED BY <1>1, <1>2, <1>3, <1>4, <1>5 DEF Next

LEMMA NextCallType ==
    ASSUME Types, CallStep
    PROVE  call' \in [Calls -> Call]
  BY DEF CallStep, Types, Asks, Moves, Ends, Reloads, ReloadsBoth, Becomes

LEMMA NextCallsMakeSense ==
    ASSUME Types, CallsMakeSense, CallStep
    PROVE  CallsMakeSense'
<1> USE DEF CallsMakeSense
<1>1. CASE UNCHANGED call
  BY <1>1
<1>2. ASSUME NEW c \in Calls, NEW kind \in AskedKinds, NEW file \in Files \union {None},
             Asks(c, kind, file), file \in Files <=> kind \in AboutFiles
      PROVE  CallsMakeSense'
  BY <1>2 DEF Asks, Becomes, AskedKinds, Changes
<1>3. ASSUME NEW c \in Calls, Moves(c) PROVE CallsMakeSense'
  BY <1>3 DEF Moves, Becomes
<1>4. ASSUME NEW c \in Calls, Ends(c) PROVE CallsMakeSense'
  BY <1>4, IdleIsCall DEF Ends, Becomes, AboutFiles, Single
<1>5. ASSUME NEW c \in Calls, Reloads(c) PROVE CallsMakeSense'
  BY <1>5 DEF Reloads, Becomes, AboutFiles, Single
<1>6. ASSUME NEW c \in Calls, NEW d \in Calls, ReloadsBoth(c, d), call[c].file \in Files
      PROVE  CallsMakeSense'
  BY <1>6 DEF ReloadsBoth, AboutFiles, Single
<1> QED BY <1>1, <1>2, <1>3, <1>4, <1>5, <1>6 DEF CallStep

LEMMA NextOneAtATime ==
    ASSUME Types, CallsMakeSense, OneAtATime, CallStep
    PROVE  OneAtATime'
<1> USE DEF OneAtATime
<1>1. CASE UNCHANGED call
  BY <1>1
<1>2. ASSUME NEW c \in Calls, NEW kind \in AskedKinds, NEW file \in Files \union {None},
             Asks(c, kind, file)
      PROVE  OneAtATime'
  BY <1>2 DEF Asks, Becomes, CallsMakeSense
<1>3. ASSUME NEW c \in Calls, Moves(c) PROVE OneAtATime'
  BY <1>3 DEF Moves, Becomes
<1>4. ASSUME NEW c \in Calls, Ends(c) PROVE OneAtATime'
  BY <1>4, IdleIsCall DEF Ends, Becomes, Single
<1>5. ASSUME NEW c \in Calls, Reloads(c) PROVE OneAtATime'
  BY <1>5 DEF Reloads, Becomes, Single
<1>6. ASSUME NEW c \in Calls, NEW d \in Calls, ReloadsBoth(c, d)
      PROVE  OneAtATime'
  BY <1>6 DEF ReloadsBoth, Single
<1> QED BY <1>1, <1>2, <1>3, <1>4, <1>5, <1>6 DEF CallStep

-----------------------------------------------------------------------------
(* Every change was asked for, so that the counters stay within MaxActions.*)

NoNewChange ==
    \A c \in Calls : call'[c].pc = "sent" /\ call'[c].kind \in Changes => call'[c] = call[c]

LEMMA OldChanges ==
    /\ UNCHANGED call => NoNewChange
    /\ \A c \in Calls : \A kind, file : Asks(c, kind, file) /\ kind \notin Changes => NoNewChange
    /\ \A c \in Calls : Moves(c) \/ Ends(c) \/ Reloads(c) => NoNewChange
    /\ \A c, d \in Calls : ReloadsBoth(c, d) => NoNewChange
<1>1. ASSUME NEW c \in Calls, NEW kind, NEW file, Asks(c, kind, file), kind \notin Changes
      PROVE  NoNewChange
  BY <1>1 DEF Asks, Becomes, NoNewChange
<1>2. ASSUME NEW c \in Calls, Moves(c) PROVE NoNewChange
  BY <1>2 DEF Moves, Becomes, NoNewChange
<1>3. ASSUME NEW c \in Calls, Ends(c) PROVE NoNewChange
  BY <1>3, IdleIsCall DEF Ends, Becomes, NoNewChange
<1>4. ASSUME NEW c \in Calls, Reloads(c) PROVE NoNewChange
  BY <1>4 DEF Reloads, Becomes, NoNewChange, Changes
<1>5. ASSUME NEW c \in Calls, NEW d \in Calls, ReloadsBoth(c, d) PROVE NoNewChange
  BY <1>5 DEF ReloadsBoth, NoNewChange, Changes
<1>6. UNCHANGED call => NoNewChange
  BY DEF NoNewChange
<1> QED BY <1>1, <1>2, <1>3, <1>4, <1>5, <1>6

ListDue == listed + Owed(Uploading) + Owed(DeletionOpen) + Owed(DeletionSent)

LEMMA LessDue ==
    ASSUME Types, NoNewChange, UNCHANGED <<listed, removed, deleteFile>>
    PROVE  listed' \in Nat /\ ListDue' <= ListDue
<1>1. listed \in Nat
  BY DEF Types, Version
<1>2. Uploading' => Uploading
  BY DEF NoNewChange, Uploading, Sent, Changes
<1>3. DeletionOpen' => DeletionOpen
  BY DEF DeletionOpen
<1>4. DeletionSent' => DeletionSent
  BY DEF NoNewChange, DeletionSent, Sent, Changes
<1> QED BY <1>1, <1>2, <1>3, <1>4 DEF ListDue, Owed

LEMMA ChangeOfList ==
    ASSUME Types, CallsMakeSense, OneAtATime, NEW c \in Calls, NEW ok \in BOOLEAN, Change(c, ok),
           call[c].kind \in {"upload", "delete"}
    PROVE  /\ listed' \in Nat /\ ListDue' <= ListDue
           /\ listed' = listed + 1 /\ listed' <= ListDue
           /\ removed' \subseteq Files /\ UNCHANGED changed
<1>0. listed \in Nat /\ Changed(c, ok) /\ UNCHANGED <<page, begun>>
  BY ChangeEffect DEF Types, Version
<1>1. PICK r \in Call :
         /\ Becomes(c, r)
         /\ r.pc = "answered" /\ r.kind = call[c].kind /\ r.file = call[c].file
         /\ r.button = call[c].button
  BY <1>0 DEF Changed
<1>2. call'[c].pc = "answered" /\ \A d \in Calls : d # c => call'[d] = call[d]
  BY <1>1 DEF Becomes
<1>3. call[c].pc = "sent" /\ call[c].file \notin removed
  BY <1>0 DEF Changed
<1>4. UNCHANGED deleteFile
  BY <1>0 DEF page
<1>5. CASE call[c].kind = "upload"
  <2>1. listed' = listed + 1 /\ UNCHANGED <<changed, removed>>
    BY <1>5 DEF Change, Carry
  <2>2. Uploading /\ ~Uploading'
    BY <1>2, <1>3, <1>5 DEF Uploading, Sent, OneAtATime, Single
  <2>3. (DeletionOpen' <=> DeletionOpen) /\ (DeletionSent' => DeletionSent)
    BY <1>2, <1>4, <2>1 DEF DeletionOpen, DeletionSent, Sent
  <2> QED BY <1>0, <2>1, <2>2, <2>3 DEF ListDue, Owed, Types
<1>6. CASE call[c].kind = "delete"
  <2>1. /\ listed' = listed + 1 /\ UNCHANGED changed
        /\ removed' = removed \union {call[c].file} /\ call[c].file \in Files
    BY <1>6 DEF Change, Carry, CallsMakeSense, AboutFiles
  <2>2. Uploading' => Uploading
    BY <1>2 DEF Uploading, Sent
  <2>3. ~DeletionSent'
    BY <1>2, <1>3, <1>6 DEF DeletionSent, Sent, OneAtATime, Single
  <2>4. CASE call[c].file = deleteFile
    <3>1. DeletionOpen /\ ~DeletionOpen'
      BY <1>3, <1>4, <2>1, <2>4 DEF DeletionOpen
    <3> QED BY <1>0, <2>1, <2>2, <2>3, <3>1 DEF ListDue, Owed, Types
  <2>5. CASE call[c].file # deleteFile
    <3>1. DeletionSent
      BY <1>3, <1>6, <2>5 DEF DeletionSent, Sent
    <3>2. DeletionOpen' => DeletionOpen
      BY <1>4, <2>1 DEF DeletionOpen
    <3> QED BY <1>0, <2>1, <2>2, <2>3, <3>1, <3>2 DEF ListDue, Owed, Types
  <2> QED BY <2>4, <2>5
<1> QED BY <1>5, <1>6

LEMMA StartDue ==
    ASSUME Types, CallsMakeSense, OneAtATime, NEW c \in Calls,
           NEW kind \in AskedKinds, NEW file \in Files \union {None}, Starts(c, kind, file)
    PROVE  listed' \in Nat /\ ListDue' - begun' <= ListDue - begun
<1>0. /\ listed \in Nat /\ begun \in Nat /\ begun' \in Nat
      /\ UNCHANGED <<listed, removed, deleteFile>>
      /\ Asks(c, kind, file)
  BY DEF Types, Version, Starts
<1>1. PICK r \in Call :
        /\ Becomes(c, r)
        /\ r.pc = "sent" /\ r.kind = kind /\ r.file = file
        /\ kind \in Single => r.button = kind
        /\ r.version = 0
  BY <1>0 DEF Asks
<1>2. call'[c] = r /\ \A d \in Calls : d # c => call'[d] = call[d]
  BY <1>1 DEF Becomes
<1>3. DeletionOpen' <=> DeletionOpen
  BY <1>0 DEF DeletionOpen
<1>4. DeletionSent' => DeletionSent
  <2>1. kind = "delete" => file = deleteFile
    BY DEF Starts
  <2> QED BY <1>0, <1>1, <1>2, <2>1 DEF DeletionSent, Sent
<1>5. CASE kind = "upload"
  <2>1. ~Uploading
    BY <1>0, <1>5 DEF Asks, Uploading, Sent, CallsMakeSense, Single
  <2>2. begun' = begun + 1
    BY <1>5 DEF Starts
  <2> QED BY <1>0, <1>3, <1>4, <2>1, <2>2 DEF ListDue, Owed
<1>6. CASE kind # "upload"
  <2>1. Uploading' => Uploading
    BY <1>1, <1>2, <1>6 DEF Uploading, Sent
  <2>2. begun' >= begun
    BY <1>0 DEF Starts
  <2>3. ListDue' <= ListDue /\ ListDue' \in Nat /\ ListDue \in Nat
    BY <1>0, <1>3, <1>4, <2>1 DEF ListDue, Owed
  <2>4. PICK due \in Nat, dueAfter \in Nat : due = ListDue /\ dueAfter = ListDue'
    BY <2>3
  <2>5. PICK b \in Nat, bAfter \in Nat : b = begun /\ bAfter = begun'
    BY <1>0
  <2>6. dueAfter <= due /\ b <= bAfter
    BY <2>2, <2>3, <2>4, <2>5
  <2>7. dueAfter - bAfter <= due - b
    BY <2>6
  <2>8. listed' \in Nat
    BY <1>0
  <2> QED BY <2>4, <2>5, <2>7, <2>8
<1> QED BY <1>5, <1>6

LEMMA CloseDue ==
    ASSUME Types, NoNewChange, UNCHANGED <<listed, removed>>, deleteFile' \in {deleteFile, None}
    PROVE  listed' \in Nat /\ ListDue' <= ListDue
<1>1. CASE deleteFile' = deleteFile
  BY <1>1, LessDue
<1>2. CASE deleteFile' = None
  <2>1. listed \in Nat
    BY DEF Types, Version
  <2>2. Uploading' => Uploading
    BY DEF NoNewChange, Uploading, Sent, Changes
  <2>3. ~DeletionOpen'
    BY <1>2 DEF DeletionOpen
  <2>4. DeletionSent' => DeletionSent \/ DeletionOpen
    <3>1. ASSUME NEW c \in Calls, Sent(c, "delete")', call'[c].file \notin removed',
                 call'[c].file # deleteFile'
          PROVE  DeletionSent \/ DeletionOpen
      <4>1. Sent(c, "delete") /\ call[c].file \notin removed /\ call[c].file # None
        BY <1>2, <3>1 DEF NoNewChange, Sent, Changes
      <4> QED BY <4>1 DEF DeletionSent, DeletionOpen
    <3> QED BY <3>1 DEF DeletionSent
  <2> QED BY <2>1, <2>2, <2>3, <2>4 DEF ListDue, Owed
<1> QED BY <1>1, <1>2

LEMMA OpenDue ==
    ASSUME Types, CallsMakeSense, NEW f \in Files, OpenDelete(f)
    PROVE  /\ UNCHANGED <<listed, changed, removed, call>>
           /\ begun' = begun + 1 /\ begun' \in Version
           /\ listed' \in Nat /\ ListDue' <= ListDue + 1
<1>1. /\ listed \in Nat /\ deleteFile = None /\ UNCHANGED <<listed, changed, removed, call>>
      /\ begun' = begun + 1 /\ begun' \in Version
  BY DEF OpenDelete, NoDialog, Types, Version, server, Act
<1>2. Uploading' <=> Uploading
  BY <1>1 DEF Uploading, Sent
<1>3. DeletionSent' => DeletionSent
  BY <1>1 DEF DeletionSent, Sent, CallsMakeSense, AboutFiles
<1> QED BY <1>1, <1>2, <1>3 DEF ListDue, Owed

LEMMA DueBounds ==
    ASSUME listed \in Nat
    PROVE  ListDue \in Nat /\ listed <= ListDue
  BY DEF ListDue, Owed

LEMMA DueBoundsNext ==
    ASSUME listed' \in Nat
    PROVE  ListDue' \in Nat /\ listed' <= ListDue'
<1>1. (Uploading' \/ ~Uploading') /\ (DeletionOpen' \/ ~DeletionOpen') /\ (DeletionSent' \/ ~DeletionSent')
  OBVIOUS
<1>2. Owed(Uploading)' \in 0 .. 1 /\ Owed(DeletionOpen)' \in 0 .. 1 /\ Owed(DeletionSent)' \in 0 .. 1
  BY DEF Owed
<1>3. PICK a \in 0 .. 1, b \in 0 .. 1, d \in 0 .. 1 :
        a = Owed(Uploading)' /\ b = Owed(DeletionOpen)' /\ d = Owed(DeletionSent)'
  BY <1>2
<1>4. PICK n \in Nat : n = listed'
  OBVIOUS
<1>5. PICK due : due = n + a + b + d
  OBVIOUS
<1>6. due \in Nat /\ n <= due
  BY <1>5
<1>7. ListDue' = due
  BY <1>3, <1>4, <1>5 DEF ListDue
<1> QED BY <1>4, <1>6, <1>7

LEMMA NextListDue ==
    ASSUME Types, CallsMakeSense, OneAtATime, ListDue <= begun, [Next]_vars
    PROVE  listed' \in Nat /\ begun' \in Version /\ ListDue' <= begun'
<1>0. /\ begun \in Nat /\ begun \in Version /\ listed \in Nat /\ ListDue \in Nat
  <2>1. listed \in Nat /\ begun \in Nat /\ begun \in Version
    BY DEF Types, Version
  <2> QED BY <2>1 DEF ListDue, Owed
<1>a. ASSUME NoNewChange, UNCHANGED <<listed, removed, begun>>, deleteFile' \in {deleteFile, None}
      PROVE  listed' \in Nat /\ begun' \in Version /\ ListDue' <= begun'
  <2>1. listed' \in Nat /\ ListDue' <= ListDue
    BY <1>a, CloseDue
  <2>2. ListDue' \in Nat
    BY <2>1, DueBoundsNext
  <2> QED BY <1>0, <1>a, <2>1, <2>2
<1>1. CASE UNCHANGED vars
  BY <1>1, <1>a, OldChanges DEF vars
<1>2. CASE ClosePermissions \/ CancelDelete
  <2>1. UNCHANGED <<listed, removed, begun, call>> /\ deleteFile' \in {deleteFile, None}
    BY <1>2 DEF ClosePermissions, CancelDelete, server
  <2> QED BY <2>1, <1>a, OldChanges
<1>3. ASSUME NEW f \in Files, OpenDelete(f)
      PROVE  listed' \in Nat /\ begun' \in Version /\ ListDue' <= begun'
  <2>1. /\ begun' = begun + 1 /\ begun' \in Version
        /\ listed' \in Nat /\ ListDue' <= ListDue + 1
    BY <1>3, OpenDue
  <2>2. ListDue' \in Nat
    BY <2>1, DueBoundsNext
  <2> QED BY <1>0, <2>1, <2>2
<1>4. ASSUME NEW c \in Calls, User(c)
      PROVE  listed' \in Nat /\ begun' \in Version /\ ListDue' <= begun'
  <2>1. PICK kind \in AskedKinds, file \in Files \union {None} : Starts(c, kind, file)
    BY <1>4, UserEffect
  <2>2. listed' \in Nat /\ ListDue' - begun' <= ListDue - begun
    BY <2>1, StartDue
  <2>3. begun' \in Version /\ begun' \in Nat
    BY <2>1 DEF Starts, Version
  <2>4. ListDue' \in Nat
    BY <2>2, DueBoundsNext
  <2>5. PICK due \in Nat, dueAfter \in Nat, b \in Nat, bAfter \in Nat :
          due = ListDue /\ dueAfter = ListDue' /\ b = begun /\ bAfter = begun'
    BY <1>0, <2>3, <2>4
  <2>6. dueAfter - bAfter <= due - b /\ due <= b
    BY <2>2, <2>5
  <2>7. dueAfter <= bAfter
    BY <2>6
  <2> QED BY <2>2, <2>3, <2>5, <2>7
<1>5. ASSUME NEW c \in Calls, Read(c) \/ Refuse(c)
      PROVE  listed' \in Nat /\ begun' \in Version /\ ListDue' <= begun'
  <2>1. Moves(c) /\ UNCHANGED <<listed, removed, begun, deleteFile>>
    BY <1>5, ReadEffect DEF Answers, Moves, server, page
  <2> QED BY <2>1, <1>a, OldChanges
<1>6. ASSUME NEW c \in Calls, NEW ok \in BOOLEAN, Change(c, ok)
      PROVE  listed' \in Nat /\ begun' \in Version /\ ListDue' <= begun'
  <2>1. Changed(c, ok) /\ UNCHANGED <<begun, deleteFile>>
    BY <1>6, ChangeEffect DEF page
  <2>2. CASE call[c].kind \in {"upload", "delete"}
    <3>1. listed' \in Nat /\ ListDue' <= ListDue
      BY <1>6, <2>2, ChangeOfList
    <3>2. ListDue' \in Nat
      BY <3>1, DueBoundsNext
    <3> QED BY <1>0, <2>1, <3>1, <3>2
  <2>3. CASE call[c].kind \notin {"upload", "delete"}
    <3>1. UNCHANGED <<listed, removed>>
      BY <1>6, <2>3 DEF Change, Carry
    <3>2. Moves(c)
      BY <2>1 DEF Changed, Moves
    <3> QED BY <1>a, <2>1, <3>1, <3>2, OldChanges
  <2> QED BY <2>2, <2>3
<1>7. ASSUME NEW c \in Calls, Page(c)
      PROVE  listed' \in Nat /\ begun' \in Version /\ ListDue' <= begun'
  <2>1. UNCHANGED <<listed, removed, begun>> /\ deleteFile' \in {deleteFile, None}
    BY <1>7, ShowFilesEffect, ShowPermissionsEffect, AfterUploadEffect, AfterDeleteEffect,
       AfterPermissionChangeEffect DEF Page, server, page
  <2>2. Ends(c) \/ Reloads(c) \/ \E d \in Calls : ReloadsBoth(c, d)
    BY <1>7, ShowFilesEffect, ShowPermissionsEffect, AfterUploadEffect, AfterDeleteEffect,
       AfterPermissionChangeEffect DEF Page
  <2> QED BY <1>a, <2>1, <2>2, OldChanges
<1> QED BY <1>1, <1>2, <1>3, <1>4, <1>5, <1>6, <1>7 DEF Next, Dialogs, Server

LEMMA ChangingIsFinite ==
    \A f : IsFiniteSet(Changing(f)) /\ Cardinality(Changing(f)) \in Nat
<1>1. IsFiniteSet(Calls)
  BY FS_Interval DEF Calls
<1> QED BY <1>1, FS_Subset, FS_CardinalityType DEF Changing

LEMMA ChangingIsFiniteNext ==
    \A f : IsFiniteSet(Changing(f)') /\ Cardinality(Changing(f)') \in Nat
<1>1. IsFiniteSet(Calls)
  BY FS_Interval DEF Calls
<1> QED BY <1>1, FS_Subset, FS_CardinalityType DEF Changing

FewerChanging == \A f \in Files : Changing(f)' \subseteq Changing(f)

LEMMA OldChanging == NoNewChange => FewerChanging
  BY DEF NoNewChange, FewerChanging, Changing, Sent, Changes

ChangesDue ==
    \A f \in Files : changed[f] + Cardinality(Changing(f)) <= begun

LEMMA NoMoreChanging ==
    ASSUME Types, ChangesDue, FewerChanging, UNCHANGED changed,
           begun' \in Nat, begun <= begun'
    PROVE  changed' \in [Files -> Nat] /\ ChangesDue'
<1>1. changed' \in [Files -> Nat] /\ begun \in Nat
  BY DEF Types, Version
<1>2. ASSUME NEW f \in Files
      PROVE  changed'[f] + Cardinality(Changing(f)') <= begun'
  <2>1. PICK n \in Nat, m \in Nat : n = Cardinality(Changing(f)') /\ m = Cardinality(Changing(f))
    BY ChangingIsFinite, ChangingIsFiniteNext
  <2>2. n <= m
    BY <2>1, ChangingIsFinite, FS_Subset DEF FewerChanging
  <2>3. changed[f] + m <= begun /\ changed'[f] = changed[f] /\ changed[f] \in Nat
    BY <1>1, <2>1 DEF ChangesDue
  <2>4. changed'[f] + n <= begun'
    BY <1>1, <2>2, <2>3
  <2> QED BY <2>1, <2>4
<1> QED BY <1>1, <1>2 DEF ChangesDue

LEMMA StartChanging ==
    ASSUME Types, ChangesDue, NEW c \in Calls, NEW kind \in {"grant", "revoke"},
           NEW file \in Files \union {None}, Starts(c, kind, file)
    PROVE  changed' \in [Files -> Nat] /\ ChangesDue'
<1>1. /\ changed' \in [Files -> Nat] /\ changed' = changed
      /\ begun \in Nat /\ begun' = begun + 1 /\ Asks(c, kind, file)
  BY DEF Types, Version, Starts
<1>2. \A d \in Calls : d # c => call'[d] = call[d]
  BY <1>1 DEF Asks, Becomes
<1>3. ASSUME NEW f \in Files
      PROVE  changed'[f] + Cardinality(Changing(f)') <= begun'
  <2>1. PICK n \in Nat, m \in Nat : n = Cardinality(Changing(f)') /\ m = Cardinality(Changing(f))
    BY ChangingIsFinite, ChangingIsFiniteNext
  <2>2. Changing(f)' \subseteq Changing(f) \union {c}
    BY <1>2 DEF Changing, Sent
  <2>3. PICK S, T : S = Changing(f)' /\ T = Changing(f)
    OBVIOUS
  <2>4. IsFiniteSet(T) /\ Cardinality(T) = m /\ Cardinality(S) = n
    BY <2>1, <2>3, ChangingIsFinite
  <2>5. IsFiniteSet(T \union {c}) /\ Cardinality(T \union {c}) <= m + 1
    BY <2>4, FS_AddElement
  <2>6. PICK k : k = Cardinality(T \union {c})
    OBVIOUS
  <2>7. k \in Nat /\ k <= m + 1 /\ n <= k
    BY <2>2, <2>3, <2>4, <2>5, <2>6, FS_Subset, FS_CardinalityType
  <2>8. changed[f] + m <= begun /\ changed'[f] = changed[f] /\ changed[f] \in Nat
    BY <1>1, <2>1 DEF ChangesDue
  <2>9. changed'[f] + n <= begun'
    BY <1>1, <2>7, <2>8
  <2> QED BY <2>1, <2>9
<1> QED BY <1>1, <1>3 DEF ChangesDue

LEMMA MakeChange ==
    ASSUME Types, CallsMakeSense, ChangesDue, NEW c \in Calls, NEW ok \in BOOLEAN, Change(c, ok),
           call[c].kind \in {"grant", "revoke"}
    PROVE  /\ changed' \in [Files -> Nat] /\ ChangesDue'
           /\ call[c].file \in Files
           /\ changed' = [changed EXCEPT ![call[c].file] = @ + 1]
<1>1. /\ changed' = [changed EXCEPT ![call[c].file] = @ + 1]
      /\ changed \in [Files -> Nat] /\ begun \in Nat
      /\ call[c].file \in Files
  BY DEF Types, Version, Change, Carry, CallsMakeSense, AboutFiles
<1>2. Changed(c, ok) /\ begun' = begun
  BY ChangeEffect
<1>3. /\ call[c].pc = "sent" /\ call'[c].pc = "answered"
      /\ \A d \in Calls : d # c => call'[d] = call[d]
  BY <1>2 DEF Changed, Becomes
<1>4. changed' \in [Files -> Nat]
  BY <1>1
<1>5. ASSUME NEW f \in Files
      PROVE  changed'[f] + Cardinality(Changing(f)') <= begun'
  <2>1. PICK n \in Nat, m \in Nat : n = Cardinality(Changing(f)') /\ m = Cardinality(Changing(f))
    BY ChangingIsFinite, ChangingIsFiniteNext
  <2>2. Changing(f)' \subseteq Changing(f) \ {c}
    BY <1>3 DEF Changing, Sent
  <2>3. changed[f] + m <= begun /\ changed[f] \in Nat
    BY <1>1, <2>1 DEF ChangesDue
  <2>4. CASE f = call[c].file
    <3>1. c \in Changing(f)
      BY <1>3, <2>4 DEF Changing, Sent
    <3>2. PICK S, T : S = Changing(f)' /\ T = Changing(f)
      OBVIOUS
    <3>3. IsFiniteSet(T) /\ Cardinality(T) = m /\ Cardinality(S) = n /\ c \in T /\ S \subseteq T \ {c}
      BY <2>1, <2>2, <3>1, <3>2, ChangingIsFinite
    <3>4. IsFiniteSet(T \ {c}) /\ Cardinality(T \ {c}) = m - 1
      BY <3>3, FS_RemoveElement
    <3>5. n <= m - 1
      BY <3>3, <3>4, FS_Subset
    <3>6. changed'[f] = changed[f] + 1
      BY <1>1, <2>4
    <3>7. changed'[f] + n <= begun'
      BY <1>1, <1>2, <2>3, <3>5, <3>6
    <3> QED BY <2>1, <3>7
  <2>5. CASE f # call[c].file
    <3>1. Changing(f)' \subseteq Changing(f)
      BY <2>2
    <3>2. n <= m
      BY <2>1, <3>1, ChangingIsFinite, FS_Subset
    <3>3. changed'[f] = changed[f]
      BY <1>1, <2>5
    <3>4. changed'[f] + n <= begun'
      BY <1>1, <1>2, <2>3, <3>2, <3>3
    <3> QED BY <2>1, <3>4
  <2> QED BY <2>4, <2>5
<1> QED BY <1>1, <1>4, <1>5 DEF ChangesDue

LEMMA NextChanging ==
    ASSUME Types, CallsMakeSense, ChangesDue, [Next]_vars
    PROVE  changed' \in [Files -> Nat] /\ ChangesDue'
<1>0. begun \in Nat /\ begun <= begun
  BY DEF Types, Version
<1>a. ASSUME NoNewChange, UNCHANGED <<changed, begun>>
      PROVE  changed' \in [Files -> Nat] /\ ChangesDue'
  BY <1>0, <1>a, OldChanging, NoMoreChanging
<1>1. CASE UNCHANGED vars
  BY <1>1, <1>a, OldChanges DEF vars
<1>2. CASE ClosePermissions \/ CancelDelete
  BY <1>2, <1>a, OldChanges DEF ClosePermissions, CancelDelete, server
<1>3. ASSUME NEW f \in Files, OpenDelete(f)
      PROVE  changed' \in [Files -> Nat] /\ ChangesDue'
  <2>1. UNCHANGED <<changed, call>> /\ begun' = begun + 1
    BY <1>3 DEF OpenDelete, server, Act
  <2> QED BY <1>0, <2>1, OldChanges, OldChanging, NoMoreChanging
<1>4. ASSUME NEW c \in Calls, User(c)
      PROVE  changed' \in [Files -> Nat] /\ ChangesDue'
  <2>1. PICK kind \in AskedKinds, file \in Files \union {None} : Starts(c, kind, file)
    BY <1>4, UserEffect
  <2>2. CASE kind \in {"grant", "revoke"}
    BY <2>1, <2>2, StartChanging
  <2>3. CASE kind \notin {"grant", "revoke"}
    <3>1. UNCHANGED changed /\ begun' \in Nat /\ begun <= begun'
      BY <1>0, <2>1 DEF Starts, Version
    <3>2. FewerChanging
      BY <2>1, <2>3 DEF Starts, Asks, Becomes, FewerChanging, Changing, Sent
    <3> QED BY <3>1, <3>2, NoMoreChanging
  <2> QED BY <2>2, <2>3
<1>5. ASSUME NEW c \in Calls, Read(c) \/ Refuse(c)
      PROVE  changed' \in [Files -> Nat] /\ ChangesDue'
  <2>1. Moves(c) /\ UNCHANGED <<changed, begun>>
    BY <1>5, ReadEffect DEF Answers, Moves, server
  <2> QED BY <2>1, <1>a, OldChanges
<1>6. ASSUME NEW c \in Calls, NEW ok \in BOOLEAN, Change(c, ok)
      PROVE  changed' \in [Files -> Nat] /\ ChangesDue'
  <2>1. Changed(c, ok) /\ UNCHANGED begun
    BY <1>6, ChangeEffect
  <2>2. CASE call[c].kind \in {"grant", "revoke"}
    BY <1>6, <2>2, MakeChange
  <2>3. CASE call[c].kind \notin {"grant", "revoke"}
    <3>1. UNCHANGED changed
      BY <1>6, <2>1, <2>3 DEF Change, Carry, Changes
    <3>2. Moves(c)
      BY <2>1 DEF Changed, Moves
    <3> QED BY <1>a, <2>1, <3>1, <3>2, OldChanges
  <2> QED BY <2>2, <2>3
<1>7. ASSUME NEW c \in Calls, Page(c)
      PROVE  changed' \in [Files -> Nat] /\ ChangesDue'
  <2>1. UNCHANGED <<changed, begun>>
    BY <1>7, ShowFilesEffect, ShowPermissionsEffect, AfterUploadEffect, AfterDeleteEffect,
       AfterPermissionChangeEffect DEF Page, server
  <2>2. Ends(c) \/ Reloads(c) \/ \E d \in Calls : ReloadsBoth(c, d)
    BY <1>7, ShowFilesEffect, ShowPermissionsEffect, AfterUploadEffect, AfterDeleteEffect,
       AfterPermissionChangeEffect DEF Page
  <2> QED BY <1>a, <2>1, <2>2, OldChanges
<1> QED BY <1>1, <1>2, <1>3, <1>4, <1>5, <1>6, <1>7 DEF Next, Dialogs, Server

LEMMA NextAskedFor ==
    ASSUME Types, CallsMakeSense, OneAtATime, AskedFor, [Next]_vars
    PROVE  /\ AskedFor'
           /\ begun' \in Version /\ listed' \in Version /\ changed' \in [Files -> Version]
<1>1. ListDue <= begun /\ ChangesDue
  BY DEF AskedFor, ListDue, ChangesDue
<1>2. listed' \in Nat /\ begun' \in Version /\ ListDue' <= begun'
  BY <1>1, NextListDue
<1>3. changed' \in [Files -> Nat] /\ ChangesDue'
  BY <1>1, NextChanging
<1>4. AskedFor'
  BY <1>2, <1>3 DEF AskedFor, ListDue, ChangesDue
<1>5. begun' \in Nat /\ begun' <= MaxActions
  BY <1>2 DEF Version
<1>6. listed' \in Version
  <2>1. ListDue' \in Nat /\ listed' <= ListDue'
    BY <1>2, DueBoundsNext
  <2>2. PICK due \in Nat : due = ListDue'
    BY <2>1
  <2>3. due <= begun' /\ listed' <= due
    BY <1>2, <2>1, <2>2
  <2> QED BY <1>2, <1>5, <2>3 DEF Version
<1>7. ASSUME NEW f \in Files PROVE changed'[f] \in Version
  <2>1. PICK n \in Nat : n = Cardinality(Changing(f)')
    BY ChangingIsFiniteNext
  <2>2. changed'[f] \in Nat /\ changed'[f] + n <= begun'
    BY <1>3, <2>1 DEF ChangesDue
  <2> QED BY <1>5, <2>2 DEF Version
<1> QED BY <1>2, <1>3, <1>4, <1>6, <1>7

-----------------------------------------------------------------------------
(* What the page has seen.                                                 *)

LEMMA NewerIsOne == \A a, b : Newer(a, b) \in {a, b}
  BY DEF Newer

LEMMA RowsTypes ==
    /\ NoRows \in Rows /\ NoRows.state = "empty"
    /\ \A f \in Files : Loading(f) \in Rows /\ Loading(f).state = "loading"
  BY DEF NoRows, Loading, Rows, Version

PageTypes ==
    /\ newest \in Version /\ newestRows \in [Files -> Version]
    /\ list \in [state: {"loading", "shown", "failed"}, version: Version]
    /\ permissionsFile \in Files \union {None} /\ deleteFile \in Files \union {None}
    /\ rows \in Rows

LEMMA NextPageTypes ==
    ASSUME Types, CallsMakeSense, [Next]_vars
    PROVE  PageTypes' /\ unanswered' \in BOOLEAN /\ removed' \subseteq Files
<1>0. /\ PageTypes /\ unanswered \in BOOLEAN /\ removed \subseteq Files
      /\ call \in [Calls -> Call]
  BY DEF Types, PageTypes
<1>v. \A c \in Calls : call[c].version \in Version
  BY <1>0, Fields
<1>p. UNCHANGED page => PageTypes'
  BY <1>0 DEF page, PageTypes
<1>1. CASE UNCHANGED vars
  BY <1>0, <1>p, <1>1 DEF vars, page
<1>2. CASE Dialogs
  <2>1. PageTypes'
    BY <1>0, <1>2, RowsTypes DEF Dialogs, ClosePermissions, CancelDelete, OpenDelete, PageTypes
  <2> QED BY <1>0, <1>2, <2>1 DEF Dialogs, ClosePermissions, CancelDelete, OpenDelete, server
<1>3. ASSUME NEW c \in Calls, User(c)
      PROVE  PageTypes' /\ unanswered' \in BOOLEAN /\ removed' \subseteq Files
  <2>1. PICK kind \in AskedKinds, file \in Files \union {None} : Starts(c, kind, file)
    BY <1>3, UserEffect
  <2>2. UNCHANGED <<removed, unanswered, list, newest, newestRows, deleteFile>>
    BY <2>1 DEF Starts
  <2>3. CASE UNCHANGED <<permissionsFile, rows>>
    BY <1>0, <2>2, <2>3 DEF PageTypes
  <2>4. CASE kind = "permissions" /\ permissionsFile' = file /\ rows' = Loading(file)
    <3>1. file \in Files
      BY <2>1, <2>4 DEF Starts, AboutFiles
    <3> QED BY <1>0, <2>2, <2>4, <3>1, RowsTypes DEF PageTypes
  <2> QED BY <2>1, <2>3, <2>4 DEF Starts
<1>4. ASSUME NEW c \in Calls, Read(c) \/ Refuse(c)
      PROVE  PageTypes' /\ unanswered' \in BOOLEAN /\ removed' \subseteq Files
  <2>1. UNCHANGED <<page, removed, unanswered>>
    BY <1>4, ReadEffect DEF server
  <2> QED BY <1>0, <1>p, <2>1
<1>5. ASSUME NEW c \in Calls, NEW ok \in BOOLEAN, Change(c, ok)
      PROVE  PageTypes' /\ unanswered' \in BOOLEAN /\ removed' \subseteq Files
  <2>1. UNCHANGED page /\ unanswered' \in BOOLEAN
    BY <1>5, ChangeEffect
  <2>2. removed' \subseteq Files
    BY <1>0, <1>5 DEF Change, Carry, CallsMakeSense, AboutFiles
  <2> QED BY <1>p, <2>1, <2>2
<1>6. ASSUME NEW c \in Calls, Page(c)
      PROVE  PageTypes' /\ unanswered' \in BOOLEAN /\ removed' \subseteq Files
  <2>0. UNCHANGED <<removed, unanswered>>
    BY <1>6, ShowFilesEffect, ShowPermissionsEffect, AfterUploadEffect, AfterDeleteEffect,
       AfterPermissionChangeEffect DEF Page, server
  <2>1. CASE ShowFiles(c)
    <3>1. /\ list' \in [state: {"loading", "shown", "failed"}, version: Version]
          /\ newest' = Newer(newest, call[c].version)
          /\ UNCHANGED <<permissionsFile, rows, newestRows, deleteFile>>
      BY <2>1, ShowFilesEffect
    <3>2. newest' \in Version
      BY <1>0, <1>v, <3>1, NewerIsOne DEF PageTypes
    <3> QED BY <1>0, <2>0, <3>1, <3>2 DEF PageTypes
  <2>2. CASE ShowPermissions(c)
    <3>1. UNCHANGED <<list, newest, permissionsFile, deleteFile>>
      BY <2>2, ShowPermissionsEffect
    <3>2. CASE UNCHANGED <<rows, newestRows>>
      BY <1>0, <2>0, <3>1, <3>2 DEF PageTypes
    <3>3. CASE /\ rows' \in [state: {"empty", "loading", "shown", "failed"},
                             of: {call[c].file}, version: {call[c].version}]
               /\ newestRows' = [newestRows EXCEPT
                                    ![call[c].file] = Newer(@, call[c].version)]
      <4>1. call[c].file \in Files
        BY <2>2, ShowPermissionsEffect DEF CallsMakeSense, AboutFiles
      <4>2. rows' \in Rows
        BY <1>v, <3>3, <4>1 DEF Rows
      <4>3. newestRows' \in [Files -> Version]
        BY <1>0, <1>v, <3>3, <4>1, NewerIsOne DEF PageTypes
      <4> QED BY <1>0, <2>0, <3>1, <4>2, <4>3 DEF PageTypes
    <3> QED BY <2>2, <3>2, <3>3, ShowPermissionsEffect
  <2>3. CASE AfterUpload(c)
    BY <1>0, <1>p, <2>0, <2>3, AfterUploadEffect
  <2>4. CASE AfterDelete(c)
    BY <1>0, <2>0, <2>4, AfterDeleteEffect DEF PageTypes
  <2>5. CASE AfterPermissionChange(c)
    BY <1>0, <2>0, <2>5, AfterPermissionChangeEffect, RowsTypes DEF PageTypes
  <2> QED BY <1>6, <2>1, <2>2, <2>3, <2>4, <2>5 DEF Page
<1> QED BY <1>1, <1>2, <1>3, <1>4, <1>5, <1>6 DEF Next, Server

LEMMA NextTypes ==
    ASSUME Types, CallsMakeSense, OneAtATime, AskedFor, [Next]_vars
    PROVE  Types'
<1>1. PageTypes' /\ unanswered' \in BOOLEAN /\ removed' \subseteq Files
  BY NextPageTypes
<1>2. begun' \in Version /\ listed' \in Version /\ changed' \in [Files -> Version]
  BY NextAskedFor
<1>3. call' \in [Calls -> Call]
  BY NextCallStep, NextCallType
<1> QED BY <1>1, <1>2, <1>3 DEF Types, PageTypes

LEMMA Grow ==
    ASSUME Types, CallsMakeSense, [Next]_vars
    PROVE  /\ listed' \in Nat /\ listed <= listed'
           /\ \A f \in Files : changed'[f] \in Nat /\ changed[f] <= changed'[f]
<1>0. listed \in Nat /\ changed \in [Files -> Nat]
  BY DEF Types, Version
<1>a. ASSUME UNCHANGED <<listed, changed>>
      PROVE  /\ listed' \in Nat /\ listed <= listed'
             /\ \A f \in Files : changed'[f] \in Nat /\ changed[f] <= changed'[f]
  BY <1>0, <1>a
<1>1. CASE UNCHANGED vars
  BY <1>1, <1>a DEF vars
<1>2. CASE Dialogs
  BY <1>2, <1>a DEF Dialogs, ClosePermissions, CancelDelete, OpenDelete, server
<1>3. CASE \E c \in Calls : User(c)
  BY <1>3, <1>a, UserEffect DEF Starts
<1>4. CASE \E c \in Calls : Read(c) \/ Refuse(c)
  BY <1>4, <1>a, ReadEffect DEF server
<1>5. ASSUME NEW c \in Calls, NEW ok \in BOOLEAN, Change(c, ok)
      PROVE  /\ listed' \in Nat /\ listed <= listed'
             /\ \A f \in Files : changed'[f] \in Nat /\ changed[f] <= changed'[f]
  <2>1. \/ listed' = listed + 1 /\ UNCHANGED changed
        \/ UNCHANGED listed /\ changed' = [changed EXCEPT ![call[c].file] = @ + 1]
    BY <1>5 DEF Change, Carry
  <2> QED BY <1>0, <2>1
<1>6. CASE \E c \in Calls : Page(c)
  BY <1>6, <1>a, ShowFilesEffect, ShowPermissionsEffect, AfterUploadEffect, AfterDeleteEffect,
     AfterPermissionChangeEffect DEF Page, server
<1> QED BY <1>1, <1>2, <1>3, <1>4, <1>5, <1>6 DEF Next, Server

\* Nothing but the answer to a list says more than it did.
LEMMA QuietAnswers ==
    ASSUME Types, CallsMakeSense, AnswersKnown, [Next]_vars,
           \A d \in Calls : \/ call'[d] = call[d]
                            \/ call'[d].kind \notin {"files", "permissions"}
                            \/ call'[d].version = 0 /\ (call'[d].kind = "permissions" => call'[d].file \in Files)
    PROVE  AnswersKnown'
<1>1. /\ listed' \in Nat /\ listed <= listed'
      /\ \A f \in Files : changed'[f] \in Nat /\ changed[f] <= changed'[f]
  BY Grow
<1>2. ASSUME NEW d \in Calls, call'[d] = call[d]
      PROVE  /\ call'[d].kind = "files" => call'[d].version <= listed'
             /\ call'[d].kind = "permissions" => call'[d].version <= changed'[call'[d].file]
  <2>1. call[d].version \in Nat /\ listed \in Nat /\ changed \in [Files -> Nat]
    BY Fields DEF Types, Version
  <2>2. call[d].kind = "permissions" => call[d].file \in Files
    BY DEF CallsMakeSense, AboutFiles
  <2> QED BY <1>1, <1>2, <2>1, <2>2 DEF AnswersKnown
<1> QED BY <1>1, <1>2 DEF AnswersKnown

LEMMA NextAnswersKnown ==
    ASSUME Types, CallsMakeSense, AnswersKnown, [Next]_vars
    PROVE  AnswersKnown'
<1>1. CASE UNCHANGED vars
  BY <1>1, QuietAnswers DEF vars
<1>2. CASE Dialogs
  BY <1>2, QuietAnswers DEF Dialogs, ClosePermissions, CancelDelete, OpenDelete
<1>3. ASSUME NEW c \in Calls, User(c) PROVE AnswersKnown'
  <2>1. PICK kind \in AskedKinds, file \in Files \union {None} : Starts(c, kind, file)
    BY <1>3, UserEffect
  <2> QED BY <2>1, QuietAnswers DEF Starts, Asks, Becomes, AboutFiles
<1>4. ASSUME NEW c \in Calls, Read(c) \/ Refuse(c) PROVE AnswersKnown'
  <2>1. Answers(c) /\ UNCHANGED <<listed, changed>>
    BY <1>4, ReadEffect DEF server
  <2>2. /\ call'[c].kind = call[c].kind /\ call'[c].file = call[c].file
        /\ call[c].kind \in {"files", "permissions"} => call'[c].version = Current(c)
        /\ \A d \in Calls : d # c => call'[d] = call[d]
    BY <2>1 DEF Answers, Becomes
  <2>3. listed \in Nat /\ changed \in [Files -> Nat]
    BY DEF Types, Version
  <2>4. call[c].kind = "permissions" => call[c].file \in Files
    BY DEF CallsMakeSense, AboutFiles
  <2> QED BY <2>1, <2>2, <2>3, <2>4 DEF AnswersKnown, Current
<1>5. ASSUME NEW c \in Calls, NEW ok \in BOOLEAN, Change(c, ok) PROVE AnswersKnown'
  <2>1. Changed(c, ok)
    BY <1>5, ChangeEffect
  <2> QED BY <2>1, QuietAnswers DEF Changed, Becomes, Changes
<1>6. ASSUME NEW c \in Calls, Page(c) PROVE AnswersKnown'
  <2>1. CASE Ends(c)
    BY <2>1, QuietAnswers, IdleIsCall DEF Ends, Becomes
  <2>2. CASE Reloads(c)
    BY <2>2, QuietAnswers DEF Reloads, Becomes
  <2>3. ASSUME NEW d \in Calls, ReloadsBoth(c, d), call[c].file \in Files PROVE AnswersKnown'
    BY <2>3, QuietAnswers DEF ReloadsBoth
  <2> QED BY <1>6, <2>1, <2>2, <2>3, ShowFilesEffect, ShowPermissionsEffect, AfterUploadEffect,
       AfterDeleteEffect, AfterPermissionChangeEffect DEF Page
<1> QED BY <1>1, <1>2, <1>3, <1>4, <1>5, <1>6 DEF Next, Server

LEMMA NextSeenIsKnown ==
    ASSUME Types, CallsMakeSense, AnswersKnown, SeenIsKnown, [Next]_vars
    PROVE  SeenIsKnown'
<1>0. /\ listed \in Nat /\ newest \in Nat /\ list.version \in Nat
      /\ changed \in [Files -> Nat] /\ newestRows \in [Files -> Nat]
  BY DEF Types, Version
<1>v. \A c \in Calls : call[c].version \in Nat
  BY Fields DEF Types, Version
<1>g. /\ listed' \in Nat /\ listed <= listed'
      /\ \A f \in Files : changed'[f] \in Nat /\ changed[f] <= changed'[f]
  BY Grow
<1>a. ASSUME UNCHANGED <<newest, list, newestRows>> PROVE SeenIsKnown'
  BY <1>0, <1>g, <1>a DEF SeenIsKnown
<1>1. CASE UNCHANGED vars
  BY <1>1, <1>a DEF vars
<1>2. CASE Dialogs
  BY <1>2, <1>a DEF Dialogs, ClosePermissions, CancelDelete, OpenDelete
<1>3. CASE \E c \in Calls : User(c)
  BY <1>3, <1>a, UserEffect DEF Starts
<1>4. CASE \E c \in Calls : Read(c) \/ Refuse(c)
  BY <1>4, <1>a, ReadEffect DEF page
<1>5. CASE \E c \in Calls, ok \in BOOLEAN : Change(c, ok)
  BY <1>5, <1>a, ChangeEffect DEF page
<1>6. ASSUME NEW c \in Calls, Page(c) PROVE SeenIsKnown'
  <2>1. CASE ShowFiles(c)
    <3>1. /\ list'.version = call[c].version /\ newest' = Newer(newest, call[c].version)
          /\ call[c].kind = "files" /\ UNCHANGED <<listed, changed, newestRows>>
      BY <2>1, ShowFilesEffect DEF server
    <3>2. call[c].version <= listed
      BY <3>1 DEF AnswersKnown
    <3> QED BY <1>0, <1>v, <3>1, <3>2 DEF SeenIsKnown, Newer
  <2>2. CASE ShowPermissions(c)
    <3>1. /\ UNCHANGED <<listed, changed, list, newest>> /\ call[c].kind = "permissions"
          /\ \/ UNCHANGED newestRows
             \/ newestRows' = [newestRows EXCEPT ![call[c].file] = Newer(@, call[c].version)]
      BY <2>2, ShowPermissionsEffect DEF server
    <3>2. call[c].file \in Files /\ call[c].version <= changed[call[c].file]
      BY <3>1 DEF AnswersKnown, CallsMakeSense, AboutFiles
    <3> QED BY <1>0, <1>v, <3>1, <3>2 DEF SeenIsKnown, Newer
  <2>3. CASE ~ShowFiles(c) /\ ~ShowPermissions(c)
    BY <1>6, <1>a, <2>3, AfterUploadEffect, AfterDeleteEffect, AfterPermissionChangeEffect
       DEF Page, page
  <2> QED BY <2>1, <2>2, <2>3
<1> QED BY <1>1, <1>2, <1>3, <1>4, <1>5, <1>6 DEF Next, Server

LEMMA NextRowsFit ==
    ASSUME Types, CallsMakeSense, RowsFit, [Next]_vars
    PROVE  RowsFit'
<1>a. ASSUME UNCHANGED <<permissionsFile, rows, newestRows>> PROVE RowsFit'
  BY <1>a DEF RowsFit
<1>b. ASSUME rows'.state # "shown" PROVE RowsFit'
  BY <1>b DEF RowsFit
<1>1. CASE UNCHANGED vars
  BY <1>1, <1>a DEF vars
<1>2. CASE Dialogs
  <2>1. CASE ClosePermissions
    BY <2>1, <1>b, RowsTypes DEF ClosePermissions
  <2>2. CASE CancelDelete
    BY <2>2, <1>a DEF CancelDelete
  <2>3. CASE \E f \in Files : OpenDelete(f)
    BY <2>3, <1>a DEF OpenDelete
  <2> QED BY <1>2, <2>1, <2>2, <2>3 DEF Dialogs
<1>3. ASSUME NEW c \in Calls, User(c) PROVE RowsFit'
  <2>1. PICK kind \in AskedKinds, file \in Files \union {None} : Starts(c, kind, file)
    BY <1>3, UserEffect
  <2>2. CASE UNCHANGED <<permissionsFile, rows>>
    BY <2>1, <2>2, <1>a DEF Starts
  <2>3. CASE kind = "permissions" /\ rows' = Loading(file)
    BY <2>1, <2>3, <1>b, RowsTypes DEF Starts, AboutFiles
  <2> QED BY <2>1, <2>2, <2>3 DEF Starts
<1>4. CASE \E c \in Calls : Read(c) \/ Refuse(c)
  BY <1>4, <1>a, ReadEffect DEF page
<1>5. CASE \E c \in Calls, ok \in BOOLEAN : Change(c, ok)
  BY <1>5, <1>a, ChangeEffect DEF page
<1>6. ASSUME NEW c \in Calls, Page(c) PROVE RowsFit'
  <2>1. CASE ShowFiles(c)
    BY <2>1, <1>a, ShowFilesEffect
  <2>2. CASE ShowPermissions(c)
    <3>1. CASE UNCHANGED <<rows, newestRows>>
      BY <2>2, <3>1, <1>a, ShowPermissionsEffect
    <3>2. CASE ~UNCHANGED <<rows, newestRows>>
      <4>1. /\ permissionsFile = call[c].file /\ UNCHANGED permissionsFile
            /\ rows' \in [state: {"empty", "loading", "shown", "failed"},
                          of: {call[c].file}, version: {call[c].version}]
            /\ newestRows' = [newestRows EXCEPT ![call[c].file] = Newer(@, call[c].version)]
        BY <2>2, <3>2, ShowPermissionsEffect
      <4>2. call[c].file \in Files /\ call[c].version \in Nat /\ newestRows \in [Files -> Nat]
        BY <2>2, ShowPermissionsEffect, Fields DEF CallsMakeSense, AboutFiles, Types, Version
      <4>3. rows'.of = permissionsFile' /\ rows'.version = call[c].version
        BY <4>1
      <4>4. call[c].version <= newestRows'[call[c].file]
        BY <4>1, <4>2 DEF Newer
      <4> QED BY <4>1, <4>3, <4>4 DEF RowsFit
    <3> QED BY <3>1, <3>2
  <2>3. CASE AfterUpload(c)
    BY <2>3, <1>a, AfterUploadEffect DEF page
  <2>4. CASE AfterDelete(c)
    BY <2>4, <1>a, AfterDeleteEffect
  <2>5. CASE AfterPermissionChange(c)
    <3>1. UNCHANGED <<permissionsFile, newestRows>> /\ call[c].file \in Files
          /\ (UNCHANGED rows \/ rows' \in {NoRows, Loading(call[c].file)})
      BY <2>5, AfterPermissionChangeEffect
    <3>2. CASE UNCHANGED rows
      BY <3>1, <3>2, <1>a
    <3>3. CASE rows' \in {NoRows, Loading(call[c].file)}
      BY <3>1, <3>3, <1>b, RowsTypes
    <3> QED BY <3>1, <3>2, <3>3
  <2> QED BY <1>6, <2>1, <2>2, <2>3, <2>4, <2>5 DEF Page
<1> QED BY <1>1, <1>2, <1>3, <1>4, <1>5, <1>6 DEF Next, Server

-----------------------------------------------------------------------------
(* The last change is shown or on its way.                                 *)

LEMMA ListStays ==
    ASSUME ListIsOnItsWay, UNCHANGED <<newest, listed>>, unanswered => unanswered',
           \A d \in Calls : BringsList(d) => call'[d] = call[d]
    PROVE  ListIsOnItsWay'
<1>1. CASE unanswered \/ newest = listed
  BY <1>1 DEF ListIsOnItsWay
<1>2. ASSUME NEW d \in Calls, BringsList(d) PROVE ListIsOnItsWay'
  <2>1. BringsList(d)'
    BY <1>2 DEF BringsList, Sent, Answered
  <2> QED BY <2>1 DEF ListIsOnItsWay
<1> QED BY <1>1, <1>2 DEF ListIsOnItsWay

LEMMA NextListIsOnItsWay ==
    ASSUME Types, CallsMakeSense, AnswersKnown, SeenIsKnown, ListIsOnItsWay, [Next]_vars
    PROVE  ListIsOnItsWay'
<1>0. listed \in Nat /\ newest \in Nat /\ newest <= listed
  BY DEF Types, Version, SeenIsKnown
<1>1. CASE UNCHANGED vars
  BY <1>1, ListStays DEF vars
<1>2. CASE Dialogs
  BY <1>2, ListStays DEF Dialogs, ClosePermissions, CancelDelete, OpenDelete, server
<1>3. ASSUME NEW c \in Calls, User(c) PROVE ListIsOnItsWay'
  <2>1. PICK kind \in AskedKinds, file \in Files \union {None} : Starts(c, kind, file)
    BY <1>3, UserEffect
  <2>2. /\ call[c].pc = "idle" /\ UNCHANGED <<newest, listed, unanswered>>
        /\ \A d \in Calls : d # c => call'[d] = call[d]
    BY <2>1 DEF Starts, Asks, Becomes
  <2>3. ~BringsList(c)
    BY <2>2 DEF BringsList, Sent, Answered
  <2> QED BY <2>2, <2>3, ListStays
<1>4. ASSUME NEW c \in Calls, Read(c) \/ Refuse(c) PROVE ListIsOnItsWay'
  <2>1. Answers(c) /\ UNCHANGED <<newest, listed, unanswered>>
    BY <1>4, ReadEffect DEF server, page
  <2>2. /\ call[c].pc = "sent" /\ call'[c].pc = "answered" /\ call'[c].kind = call[c].kind
        /\ call[c].kind = "files" => call'[c].version = listed
        /\ \A d \in Calls : d # c => call'[d] = call[d]
    BY <2>1 DEF Answers, Becomes, Current
  <2>3. CASE call[c].kind = "files"
    <3>1. BringsList(c)'
      BY <2>1, <2>2, <2>3 DEF BringsList, Answered
    <3> QED BY <3>1 DEF ListIsOnItsWay
  <2>4. CASE call[c].kind # "files"
    <3>1. ~BringsList(c)
      BY <2>2, <2>4 DEF BringsList, Sent, Answered
    <3> QED BY <2>1, <2>2, <3>1, ListStays
  <2> QED BY <2>3, <2>4
<1>5. ASSUME NEW c \in Calls, NEW ok \in BOOLEAN, Change(c, ok) PROVE ListIsOnItsWay'
  <2>1. Changed(c, ok) /\ (~unanswered' => ~unanswered /\ ok) /\ UNCHANGED newest
    BY <1>5, ChangeEffect DEF page
  <2>2. PICK r \in Call :
         /\ Becomes(c, r)
         /\ r.pc = "answered" /\ r.kind = call[c].kind /\ r.file = call[c].file
         /\ r.button = call[c].button
         /\ ok => r.ok
    BY <2>1 DEF Changed
  <2>3. /\ call[c].pc = "sent" /\ call[c].kind \in Changes /\ call'[c] = r
        /\ \A d \in Calls : d # c => call'[d] = call[d]
    BY <2>1, <2>2 DEF Changed, Becomes
  <2>4. CASE call[c].kind \in {"upload", "delete"}
    <3>1. unanswered' \/ BringsList(c)'
      BY <2>1, <2>2, <2>3, <2>4 DEF BringsList, Answered
    <3> QED BY <3>1 DEF ListIsOnItsWay
  <2>5. CASE call[c].kind \notin {"upload", "delete"}
    <3>1. UNCHANGED listed
      BY <1>5, <2>5 DEF Change, Carry
    <3>2. ~BringsList(c)
      BY <2>3 DEF BringsList, Sent, Answered, Changes
    <3> QED BY <2>1, <2>3, <3>1, <3>2, ListStays
  <2> QED BY <2>4, <2>5
<1>6. ASSUME NEW c \in Calls, Page(c) PROVE ListIsOnItsWay'
  <2>1. CASE ShowFiles(c)
    <3>1. /\ newest' = Newer(newest, call[c].version) /\ UNCHANGED <<listed, unanswered>>
          /\ call[c].kind = "files" /\ Ends(c)
      BY <2>1, ShowFilesEffect DEF server
    <3>2. /\ call[c].pc = "answered" /\ call[c].version \in Nat /\ call[c].version <= listed
          /\ \A d \in Calls : d # c => call'[d] = call[d]
      BY <3>1, Fields DEF Ends, Becomes, AnswersKnown, Types, Version
    <3>3. CASE newest = listed \/ call[c].version = listed
      <4>1. newest' = listed'
        BY <1>0, <3>1, <3>2, <3>3 DEF Newer
      <4> QED BY <4>1 DEF ListIsOnItsWay
    <3>4. CASE newest # listed /\ call[c].version # listed
      <4>1. ~BringsList(c)
        BY <3>1, <3>2, <3>4 DEF BringsList, Sent, Answered
      <4>2. ASSUME NEW d \in Calls, BringsList(d) PROVE ListIsOnItsWay'
        <5>1. call'[d] = call[d]
          BY <3>2, <4>1, <4>2
        <5>2. BringsList(d)'
          BY <3>1, <4>2, <5>1 DEF BringsList, Sent, Answered
        <5> QED BY <5>2 DEF ListIsOnItsWay
      <4> QED BY <3>1, <3>4, <4>2 DEF ListIsOnItsWay
    <3> QED BY <3>3, <3>4
  <2>2. ASSUME ~ShowFiles(c), Ends(c), ~BringsList(c) PROVE ListIsOnItsWay'
    <3>1. UNCHANGED <<listed, newest, unanswered>>
      BY <1>6, <2>2, ShowPermissionsEffect, AfterUploadEffect, AfterDeleteEffect,
         AfterPermissionChangeEffect DEF Page, server, page
    <3> QED BY <2>2, <3>1, ListStays DEF Ends, Becomes
  <2>3. CASE ShowPermissions(c)
    <3>1. Ends(c) /\ call[c].kind = "permissions"
      BY <2>3, ShowPermissionsEffect
    <3>2. ~BringsList(c) /\ ~ShowFiles(c)
      BY <3>1 DEF BringsList, Sent, Answered, ShowFiles
    <3> QED BY <2>2, <3>1, <3>2
  <2>4. CASE Reloads(c)
    <3>1. BringsList(c)'
      BY <2>4 DEF Reloads, Becomes, BringsList, Sent
    <3> QED BY <3>1 DEF ListIsOnItsWay
  <2>5. ASSUME NEW d \in Calls, ReloadsBoth(c, d) PROVE ListIsOnItsWay'
    <3>1. BringsList(c)'
      BY <2>5 DEF ReloadsBoth, BringsList, Sent
    <3> QED BY <3>1 DEF ListIsOnItsWay
  <2>6. CASE Ends(c) /\ ~call[c].ok /\ (AfterUpload(c) \/ AfterDelete(c) \/ AfterPermissionChange(c))
    <3>1. call[c].kind \notin {"files"} /\ call[c].pc = "answered"
      BY <2>6, AfterUploadEffect, AfterDeleteEffect, AfterPermissionChangeEffect DEF Ends
    <3>2. ~BringsList(c) /\ ~ShowFiles(c)
      BY <2>6, <3>1 DEF BringsList, Sent, Answered, ShowFiles
    <3> QED BY <2>2, <2>6, <3>2
  <2> QED BY <1>6, <2>1, <2>3, <2>4, <2>5, <2>6, AfterUploadEffect, AfterDeleteEffect,
        AfterPermissionChangeEffect DEF Page
<1> QED BY <1>1, <1>2, <1>3, <1>4, <1>5, <1>6 DEF Next, Server

LEMMA RowsStay ==
    ASSUME RowsAreOnTheirWay, UNCHANGED <<permissionsFile, newestRows>>, unanswered => unanswered',
           permissionsFile # None => changed'[permissionsFile] = changed[permissionsFile],
           permissionsFile # None =>
               \A d \in Calls : BringsRows(d, permissionsFile) => call'[d] = call[d]
    PROVE  RowsAreOnTheirWay'
<1>1. CASE \/ unanswered \/ permissionsFile = None
           \/ newestRows[permissionsFile] = changed[permissionsFile]
  BY <1>1 DEF RowsAreOnTheirWay
<1>2. ASSUME NEW d \in Calls, BringsRows(d, permissionsFile), permissionsFile # None
      PROVE RowsAreOnTheirWay'
  <2>1. PICK p : p = permissionsFile
    OBVIOUS
  <2>2. BringsRows(d, p)'
    BY <1>2, <2>1 DEF BringsRows, Sent, Answered
  <2>3. permissionsFile' = p
    BY <2>1
  <2>4. \E c \in Calls : BringsRows(c, permissionsFile)'
    BY <2>2, <2>3 DEF BringsRows
  <2> QED BY <2>4 DEF RowsAreOnTheirWay
<1> QED BY <1>1, <1>2 DEF RowsAreOnTheirWay

\* What brings the rows of the file the dialog is about.
LEMMA Bringer ==
    ASSUME NEW d \in Calls, BringsRows(d, permissionsFile)'
    PROVE  RowsAreOnTheirWay'
  BY DEF RowsAreOnTheirWay

LEMMA NextRowsAreOnTheirWay ==
    ASSUME Types, CallsMakeSense, AnswersKnown, SeenIsKnown, RowsAreOnTheirWay, [Next]_vars
    PROVE  RowsAreOnTheirWay'
<1>0. /\ changed \in [Files -> Nat] /\ newestRows \in [Files -> Nat]
      /\ \A f \in Files : newestRows[f] <= changed[f]
      /\ permissionsFile \in Files \union {None}
  BY DEF Types, Version, SeenIsKnown
<1>a. ASSUME permissionsFile' = None PROVE RowsAreOnTheirWay'
  BY <1>a DEF RowsAreOnTheirWay
<1>1. CASE UNCHANGED vars
  BY <1>1, RowsStay DEF vars
<1>2. CASE Dialogs
  <2>1. CASE ClosePermissions
    BY <2>1, <1>a DEF ClosePermissions
  <2>2. CASE CancelDelete \/ \E f \in Files : OpenDelete(f)
    BY <2>2, RowsStay DEF CancelDelete, OpenDelete, server
  <2> QED BY <1>2, <2>1, <2>2 DEF Dialogs
<1>3. ASSUME NEW c \in Calls, User(c) PROVE RowsAreOnTheirWay'
  <2>1. PICK kind \in AskedKinds, file \in Files \union {None} : Starts(c, kind, file)
    BY <1>3, UserEffect
  <2>2. /\ call[c].pc = "idle" /\ UNCHANGED <<newestRows, changed, unanswered>>
        /\ call'[c].pc = "sent" /\ call'[c].kind = kind /\ call'[c].file = file
        /\ \A d \in Calls : d # c => call'[d] = call[d]
    BY <2>1 DEF Starts, Asks, Becomes
  <2>3. CASE UNCHANGED <<permissionsFile, rows>>
    <3>1. ~BringsRows(c, permissionsFile)
      BY <2>2 DEF BringsRows, Sent, Answered
    <3> QED BY <2>2, <2>3, <3>1, RowsStay
  <2>4. CASE kind = "permissions" /\ permissionsFile' = file
    <3>1. BringsRows(c, permissionsFile)'
      BY <2>2, <2>4 DEF BringsRows, Sent
    <3> QED BY <3>1, Bringer
  <2> QED BY <2>1, <2>3, <2>4 DEF Starts
<1>4. ASSUME NEW c \in Calls, Read(c) \/ Refuse(c) PROVE RowsAreOnTheirWay'
  <2>1. Answers(c) /\ UNCHANGED <<newestRows, changed, unanswered, permissionsFile>>
    BY <1>4, ReadEffect DEF server, page
  <2>2. /\ call[c].pc = "sent" /\ call'[c].pc = "answered" /\ call'[c].kind = call[c].kind
        /\ call'[c].file = call[c].file
        /\ call[c].kind = "permissions" => call'[c].version = changed[call[c].file]
        /\ \A d \in Calls : d # c => call'[d] = call[d]
    BY <2>1 DEF Answers, Becomes, Current
  <2>3. CASE call[c].kind = "permissions" /\ call[c].file = permissionsFile
    <3>1. BringsRows(c, permissionsFile)'
      BY <2>1, <2>2, <2>3 DEF BringsRows, Answered
    <3> QED BY <3>1, Bringer
  <2>4. CASE ~(call[c].kind = "permissions" /\ call[c].file = permissionsFile)
    <3>1. ~BringsRows(c, permissionsFile)
      BY <2>2, <2>4 DEF BringsRows, Sent, Answered
    <3> QED BY <2>1, <2>2, <3>1, RowsStay
  <2> QED BY <2>3, <2>4
<1>5. ASSUME NEW c \in Calls, NEW ok \in BOOLEAN, Change(c, ok) PROVE RowsAreOnTheirWay'
  <2>1. /\ Changed(c, ok) /\ (~unanswered' => ~unanswered /\ ok)
        /\ UNCHANGED <<newestRows, permissionsFile>>
    BY <1>5, ChangeEffect DEF page
  <2>2. PICK r \in Call :
         /\ Becomes(c, r)
         /\ r.pc = "answered" /\ r.kind = call[c].kind /\ r.file = call[c].file
         /\ r.button = call[c].button
         /\ ok => r.ok
    BY <2>1 DEF Changed
  <2>3. /\ call[c].pc = "sent" /\ call[c].kind \in Changes /\ call'[c] = r
        /\ \A d \in Calls : d # c => call'[d] = call[d]
    BY <2>1, <2>2 DEF Changed, Becomes
  <2>4. CASE call[c].kind \in {"grant", "revoke"} /\ call[c].file = permissionsFile
    <3>1. CASE unanswered'
      BY <3>1 DEF RowsAreOnTheirWay
    <3>2. CASE ~unanswered'
      <4>1. BringsRows(c, permissionsFile)'
        BY <2>1, <2>2, <2>3, <2>4, <3>2 DEF BringsRows, Answered
      <4> QED BY <4>1, Bringer
    <3> QED BY <3>1, <3>2
  <2>5. CASE ~(call[c].kind \in {"grant", "revoke"} /\ call[c].file = permissionsFile)
    <3>1. permissionsFile # None => changed'[permissionsFile] = changed[permissionsFile]
      BY <1>0, <1>5, <2>3, <2>5 DEF Change, Carry, Changes
    <3>2. ~BringsRows(c, permissionsFile)
      BY <2>3, <2>5 DEF BringsRows, Sent, Answered, Changes
    <3> QED BY <2>1, <2>3, <3>1, <3>2, RowsStay
  <2> QED BY <2>4, <2>5
<1>6. ASSUME NEW c \in Calls, Page(c) PROVE RowsAreOnTheirWay'
  <2>0. UNCHANGED <<changed, unanswered, permissionsFile>>
    BY <1>6, ShowFilesEffect, ShowPermissionsEffect, AfterUploadEffect, AfterDeleteEffect,
       AfterPermissionChangeEffect DEF Page, server, page
  <2>1. ASSUME Ends(c), ~BringsRows(c, permissionsFile), UNCHANGED newestRows
        PROVE  RowsAreOnTheirWay'
    BY <2>0, <2>1, RowsStay DEF Ends, Becomes
  <2>2. ASSUME Reloads(c), call[c].kind \notin {"permissions", "grant", "revoke"},
               UNCHANGED newestRows
        PROVE  RowsAreOnTheirWay'
    <3>1. ~BringsRows(c, permissionsFile)
      BY <2>2 DEF BringsRows, Sent, Answered
    <3> QED BY <2>0, <2>2, <3>1, RowsStay DEF Reloads, Becomes
  <2>3. CASE ShowFiles(c)
    <3>1. Ends(c) /\ call[c].kind = "files" /\ UNCHANGED newestRows
      BY <2>3, ShowFilesEffect
    <3>2. ~BringsRows(c, permissionsFile)
      BY <3>1 DEF BringsRows, Sent, Answered
    <3> QED BY <2>1, <3>1, <3>2
  <2>4. CASE ShowPermissions(c)
    <3>1. Ends(c) /\ call[c].kind = "permissions" /\ call[c].file \in Files
      BY <2>4, ShowPermissionsEffect DEF CallsMakeSense, AboutFiles
    <3>2. /\ call[c].pc = "answered" /\ call[c].version \in Nat
          /\ call[c].version <= changed[call[c].file]
          /\ \A d \in Calls : d # c => call'[d] = call[d]
      BY <3>1, Fields DEF Ends, Becomes, AnswersKnown, Types, Version
    <3>3. CASE permissionsFile # call[c].file
      <4>1. UNCHANGED newestRows
        BY <2>4, <3>3, ShowPermissionsEffect
      <4>2. ~BringsRows(c, permissionsFile)
        BY <3>3 DEF BringsRows
      <4> QED BY <2>1, <3>1, <4>1, <4>2
    <3>4. CASE permissionsFile = call[c].file
      <4>1. newestRows' = [newestRows EXCEPT ![call[c].file] = Newer(@, call[c].version)]
        BY <2>4, <3>4, ShowPermissionsEffect
      <4>2. PICK p \in Files : p = call[c].file
        BY <3>1
      <4>3. newestRows'[p] = Newer(newestRows[p], call[c].version)
        BY <1>0, <4>1, <4>2
      <4>4. permissionsFile = p /\ permissionsFile' = p /\ changed'[p] = changed[p]
        BY <2>0, <3>4, <4>2
      <4>5. CASE newestRows[p] = changed[p] \/ call[c].version = changed[p]
        <5>1. newestRows'[p] = changed'[p]
          BY <1>0, <3>2, <4>2, <4>3, <4>4, <4>5 DEF Newer
        <5> QED BY <4>4, <5>1 DEF RowsAreOnTheirWay
      <4>6. CASE newestRows[p] # changed[p] /\ call[c].version # changed[p]
        <5>1. ~BringsRows(c, p)
          BY <3>1, <3>2, <4>6 DEF BringsRows, Sent, Answered
        <5>2. ASSUME NEW d \in Calls, BringsRows(d, permissionsFile) PROVE RowsAreOnTheirWay'
          <6>1. BringsRows(d, p) /\ call'[d] = call[d]
            BY <3>2, <4>4, <5>1, <5>2
          <6>2. BringsRows(d, permissionsFile)'
            BY <2>0, <4>4, <6>1 DEF BringsRows, Sent, Answered
          <6> QED BY <6>2, Bringer
        <5>3. CASE unanswered \/ permissionsFile = None
          BY <2>0, <5>3 DEF RowsAreOnTheirWay
        <5> QED BY <4>4, <4>6, <5>2, <5>3 DEF RowsAreOnTheirWay
      <4> QED BY <4>5, <4>6
    <3> QED BY <3>3, <3>4
  <2>5. CASE AfterUpload(c) \/ AfterDelete(c)
    <3>1. /\ call[c].kind \notin {"permissions", "grant", "revoke"} /\ UNCHANGED newestRows
          /\ Ends(c) \/ Reloads(c)
      BY <2>5, AfterUploadEffect, AfterDeleteEffect DEF page
    <3>2. ~BringsRows(c, permissionsFile)
      BY <3>1 DEF BringsRows, Sent, Answered
    <3> QED BY <2>1, <2>2, <3>1, <3>2
  <2>6. CASE AfterPermissionChange(c)
    <3>1. call[c].kind \in {"grant", "revoke"} /\ UNCHANGED newestRows
      BY <2>6, AfterPermissionChangeEffect
    <3>2. CASE Ends(c) /\ ~call[c].ok
      <4>1. ~BringsRows(c, permissionsFile)
        BY <3>1, <3>2 DEF BringsRows, Sent, Answered, Ends
      <4> QED BY <2>1, <3>1, <3>2, <4>1
    <3>3. ASSUME NEW d \in Calls, ReloadsBoth(c, d) PROVE RowsAreOnTheirWay'
      <4>1. CASE call[c].file = permissionsFile
        <5>1. BringsRows(d, permissionsFile)'
          BY <2>0, <3>3, <4>1 DEF ReloadsBoth, BringsRows, Sent
        <5> QED BY <5>1, Bringer
      <4>2. CASE call[c].file # permissionsFile
        <5>1. ~BringsRows(c, permissionsFile) /\ ~BringsRows(d, permissionsFile)
          BY <3>3, <4>2 DEF ReloadsBoth, BringsRows, Sent, Answered
        <5> QED BY <2>0, <3>1, <3>3, <5>1, RowsStay DEF ReloadsBoth
      <4> QED BY <4>1, <4>2
    <3> QED BY <2>6, <3>2, <3>3, AfterPermissionChangeEffect
  <2> QED BY <1>6, <2>3, <2>4, <2>5, <2>6 DEF Page
<1> QED BY <1>1, <1>2, <1>3, <1>4, <1>5, <1>6 DEF Next, Server

-----------------------------------------------------------------------------
(* The theorems.                                                           *)

LEMMA InitIInv == Init => IInv
<1> SUFFICES ASSUME Init PROVE IInv
  OBVIOUS
<1>1. 0 \in Version /\ 1 \in Calls
  BY DEF Version, Calls
<1>2. PICK r \in {Request("files", None, "none")} : TRUE
  OBVIOUS
<1>3. r \in Call /\ r.pc = "sent" /\ r.kind = "files" /\ r.file = None /\ r.button = "none"
      /\ r.version = 0
  BY <1>2, RequestIsCall DEF AskedKinds, Buttons
<1>4. /\ call \in [Calls -> Call] /\ call[1] = r
      /\ \A d \in Calls : d # 1 => call[d] = IdleCall
  BY <1>1, <1>2, <1>3, IdleIsCall DEF Init
<1>5. Types
  BY <1>1, <1>4, RowsTypes DEF Init, Types
<1>6. CallsMakeSense
  BY <1>3, <1>4, IdleIsCall DEF CallsMakeSense, AboutFiles, Single
<1>7. OneAtATime
  BY <1>3, <1>4, IdleIsCall DEF OneAtATime, Single
<1>8. AskedFor
  <2>1. ~Uploading /\ ~DeletionOpen /\ ~DeletionSent
    BY <1>3, <1>4, IdleIsCall DEF Uploading, DeletionOpen, DeletionSent, Sent, Init
  <2>2. \A f \in Files : Changing(f) = {}
    BY <1>3, <1>4, IdleIsCall DEF Changing, Sent
  <2>3. \A f \in Files : Cardinality(Changing(f)) = 0
    BY <2>2, FS_EmptySet
  <2> QED BY <2>1, <2>3 DEF AskedFor, Owed, Init
<1>9. AnswersKnown
  BY <1>3, <1>4, IdleIsCall DEF AnswersKnown, Init
<1>10. SeenIsKnown /\ RowsFit /\ ListIsOnItsWay /\ RowsAreOnTheirWay
  BY DEF Init, SeenIsKnown, RowsFit, ListIsOnItsWay, RowsAreOnTheirWay
<1> QED BY <1>5, <1>6, <1>7, <1>8, <1>9, <1>10 DEF IInv

LEMMA NextIInv == IInv /\ [Next]_vars => IInv'
<1> SUFFICES ASSUME IInv, [Next]_vars PROVE IInv'
  OBVIOUS
<1>1. /\ Types /\ CallsMakeSense /\ OneAtATime /\ AskedFor /\ AnswersKnown
      /\ SeenIsKnown /\ RowsFit /\ ListIsOnItsWay /\ RowsAreOnTheirWay
  BY DEF IInv
<1>2. CallStep
  BY <1>1, NextCallStep
<1>3. Types' /\ CallsMakeSense' /\ OneAtATime' /\ AskedFor'
  BY <1>1, <1>2, NextTypes, NextCallsMakeSense, NextOneAtATime, NextAskedFor
<1>4. AnswersKnown' /\ SeenIsKnown' /\ RowsFit'
  BY <1>1, NextAnswersKnown, NextSeenIsKnown, NextRowsFit
<1>5. ListIsOnItsWay' /\ RowsAreOnTheirWay'
  BY <1>1, NextListIsOnItsWay, NextRowsAreOnTheirWay
<1> QED BY <1>3, <1>4, <1>5 DEF IInv

\* What the page knows is the truth or on its way, whatever is in flight.
THEOREM PageIsSound == Spec => []IInv
  BY InitIInv, NextIInv, PTL DEF Spec

LEMMA IInvTypeOK == IInv => TypeOK
<1> SUFFICES ASSUME IInv PROVE TypeOK
  OBVIOUS
<1>1. ASSUME NEW kind \in {"upload", "grant", "delete"}
      PROVE  Cardinality({c \in Calls : call[c].kind = kind}) <= 1
  <2>1. \A c, d \in {e \in Calls : call[e].kind = kind} : c = d
    BY <1>1 DEF IInv, OneAtATime, Single
  <2>2. PICK S : S = {c \in Calls : call[c].kind = kind}
    OBVIOUS
  <2>3. ASSUME S = {} PROVE Cardinality(S) <= 1
    <3>1. Cardinality(S) = 0
      BY <2>3, FS_EmptySet
    <3>2. Cardinality(S) <= 1
      BY <3>1
    <3> QED BY <3>2
  <2>4. ASSUME S # {} PROVE Cardinality(S) <= 1
    <3>1. PICK c \in S : TRUE
      BY <2>4
    <3>2. S = {c}
      BY <2>1, <2>2, <3>1
    <3>3. Cardinality(S) = 1
      BY <3>2, FS_Singleton
    <3>4. Cardinality(S) <= 1
      BY <3>3
    <3> QED BY <3>4
  <2>5. Cardinality(S) <= 1
    BY <2>3, <2>4
  <2> QED BY <2>2, <2>5
<1> QED BY <1>1 DEF IInv, Types, TypeOK

\* Page, calls and server stay well formed, and no handler whose button is busy
\* runs a second time (setButtonBusy).
THEOREM PageStaysWellFormed == Spec => []TypeOK
  BY PageIsSound, IInvTypeOK, PTL

\* The permissions dialog never shows the rows of another file than the one it
\* names (loadPermissions), in whatever order the answers arrive.
THEOREM RowsAreTheDialogs == Spec => []RowsBelongToDialog
<1>1. IInv => RowsBelongToDialog
  BY DEF IInv, RowsFit, RowsBelongToDialog
<1> QED BY <1>1, PageIsSound, PTL

\* When nothing is in flight, the page shows the owner's own changes, but for
\* the answers an older one has replaced and the changes reported as errors
\* (refreshFiles, loadPermissions and the handlers that call them).
THEOREM QuietPageIsCurrent == Spec => []ShownIsCurrent
<1>1. ASSUME IInv PROVE ShownIsCurrent
  <2>0. /\ newest \in Nat /\ list.version \in Nat /\ listed \in Nat
        /\ newestRows \in [Files -> Nat] /\ changed \in [Files -> Nat]
        /\ permissionsFile \in Files \union {None} /\ rows.version \in Nat
    BY <1>1 DEF IInv, Types, Version, Rows
  <2>1. ASSUME Quiet, ~unanswered
        PROVE  /\ newest = listed
               /\ permissionsFile # None
                    => newestRows[permissionsFile] = changed[permissionsFile]
    <3>1. \A c \in Calls : call[c].pc = "idle"
      BY <2>1 DEF Quiet, Idle
    <3>2. \A c \in Calls : ~BringsList(c) /\ ~BringsRows(c, permissionsFile)
      BY <3>1 DEF BringsList, BringsRows, Sent, Answered
    <3> QED BY <1>1, <2>1, <3>2 DEF IInv, ListIsOnItsWay, RowsAreOnTheirWay
  <2>2. list.version <= newest
    BY <1>1 DEF IInv, SeenIsKnown
  <2>3. permissionsFile # None /\ rows.state = "shown"
          => rows.version <= newestRows[permissionsFile]
    BY <1>1 DEF IInv, RowsFit
  <2> QED BY <2>0, <2>1, <2>2, <2>3 DEF ShownIsCurrent, Overtaken, RowsOvertaken
<1> QED BY <1>1, PageIsSound, PTL
=============================================================================
