------------------------------ MODULE FileAccess ------------------------------
(***************************************************************************)
(* What private files promise, with neither storage nor transactions: who  *)
(* may read a file, who decides that, and that a deleted file stays        *)
(* deleted.  A file lives once.  Every step is atomic here; the services   *)
(* check first and commit later (FileVault).                               *)
(***************************************************************************)
CONSTANTS Users, Readings, Files, None

VARIABLES
    life,    \* "new", "live" or "gone"
    owner,   \* of a live file
    shared,  \* users its owner shares it with
    reading  \* downloads under way: whose, of what, and whether bytes flow

vars == <<life, owner, shared, reading>>

NotReading == [user |-> None, file |-> None, open |-> FALSE]

Init ==
    /\ life = [f \in Files |-> "new"]
    /\ owner = [f \in Files |-> None]
    /\ shared = [f \in Files |-> {}]
    /\ reading = [r \in Readings |-> NotReading]

Publish(f, u) ==
    /\ life[f] = "new"
    /\ life' = [life EXCEPT ![f] = "live"]
    /\ owner' = [owner EXCEPT ![f] = u]
    /\ UNCHANGED <<shared, reading>>

\* Only while the file is there, and never with its owner.
Share(f, u) ==
    /\ life[f] = "live"
    /\ u \notin shared[f] \union {owner[f]}
    /\ shared' = [shared EXCEPT ![f] = @ \union {u}]
    /\ UNCHANGED <<life, owner, reading>>

Unshare(f, u) ==
    /\ u \in shared[f]
    /\ shared' = [shared EXCEPT ![f] = @ \ {u}]
    /\ UNCHANGED <<life, owner, reading>>

\* Takes every share with it.
Remove(f) ==
    /\ life[f] = "live"
    /\ life' = [life EXCEPT ![f] = "gone"]
    /\ owner' = [owner EXCEPT ![f] = None]
    /\ shared' = [shared EXCEPT ![f] = {}]
    /\ UNCHANGED reading

MayRead(u, f) == life[f] = "live" /\ u \in shared[f] \union {owner[f]}

\* A download is admitted on what holds at one moment; a later Unshare does
\* not call it back.
Admit(r, u, f) ==
    /\ reading[r] = NotReading
    /\ MayRead(u, f)
    /\ reading' = [reading EXCEPT ![r] = [user |-> u, file |-> f, open |-> FALSE]]
    /\ UNCHANGED <<life, owner, shared>>

\* The bytes are those of the file that was admitted, for the same user.
Open(r) ==
    /\ reading[r] # NotReading
    /\ reading' = [reading EXCEPT ![r].open = TRUE]
    /\ UNCHANGED <<life, owner, shared>>

End(r) ==
    /\ reading[r] # NotReading
    /\ reading' = [reading EXCEPT ![r] = NotReading]
    /\ UNCHANGED <<life, owner, shared>>

Next ==
    \/ \E f \in Files : Remove(f)
    \/ \E f \in Files, u \in Users : Publish(f, u) \/ Share(f, u) \/ Unshare(f, u)
    \/ \E r \in Readings, f \in Files, u \in Users : Admit(r, u, f)
    \/ \E r \in Readings : Open(r) \/ End(r)

Spec == Init /\ [][Next]_vars
=============================================================================
