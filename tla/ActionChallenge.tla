-------------------------- MODULE ActionChallenge --------------------------
(***************************************************************************)
(* What account-action links promise, with no outbox, worker or clock: an  *)
(* account has at most one usable link per purpose, a link is used at most *)
(* once, and a credential changes only through the current recovery link   *)
(* or an authenticated change of a verified account.                       *)
(***************************************************************************)
EXTENDS Naturals

CONSTANTS Users, Links, Verification, Reset

VARIABLES
    verified,  \* users whose address is verified
    usable,    \* the links a confirmation would accept, per user and purpose
    spent,     \* links that were usable once and never will be again
    changes    \* how often each user's password has been replaced

vars == <<verified, usable, spent, changes>>

Purposes == {Verification, Reset}

Init ==
    /\ verified \in SUBSET Users
    /\ usable = [u \in Users |-> [p \in Purposes |-> {}]]
    /\ spent = {}
    /\ changes = [u \in Users |-> 0]

Known == spent \union UNION {usable[u][p] : u \in Users, p \in Purposes}

\* A new link replaces its predecessor; a verified address gets no new one.
Issue(u, p, t) ==
    /\ t \notin Known
    /\ p = Verification => u \notin verified
    /\ usable' = [usable EXCEPT ![u][p] = {t}]
    /\ spent' = spent \union usable[u][p]
    /\ UNCHANGED <<verified, changes>>

\* Links expire, are superseded, or are given up after a failed delivery.
Withdraw(lost) ==
    /\ usable' = [u \in Users |-> [p \in Purposes |-> usable[u][p] \ lost]]
    /\ spent' = spent \union (Known \intersect lost)
    /\ UNCHANGED <<verified, changes>>

Verify(u) ==
    /\ usable[u][Verification] # {}
    /\ verified' = verified \union {u}
    /\ usable' = [usable EXCEPT ![u][Verification] = {}]
    /\ spent' = spent \union usable[u][Verification]
    /\ UNCHANGED changes

\* Recovery proves control of the address and kills every link of the account.
Recover(u) ==
    /\ usable[u][Reset] # {}
    /\ verified' = verified \union {u}
    /\ usable' = [usable EXCEPT ![u] = [p \in Purposes |-> {}]]
    /\ spent' = spent \union usable[u][Verification] \union usable[u][Reset]
    /\ changes' = [changes EXCEPT ![u] = @ + 1]

ChangePassword(u) ==
    /\ u \in verified
    /\ usable' = [usable EXCEPT ![u][Reset] = {}]
    /\ spent' = spent \union usable[u][Reset]
    /\ changes' = [changes EXCEPT ![u] = @ + 1]
    /\ UNCHANGED verified

Next == \/ \E u \in Users : \/ \E p \in Purposes, t \in Links : Issue(u, p, t)
                            \/ Verify(u)
                            \/ Recover(u)
                            \/ ChangePassword(u)
        \/ \E lost \in SUBSET Links : Withdraw(lost)

Spec == Init /\ [][Next]_vars
=============================================================================
