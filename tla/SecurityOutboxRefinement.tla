---------------------- MODULE SecurityOutboxRefinement ----------------------
(***************************************************************************)
(* The outbox implements ActionChallenge: the links a user and purpose can *)
(* use are the rows that are neither consumed, invalidated nor expired,    *)
(* and a password has changed as often as a notice was queued.             *)
(***************************************************************************)
EXTENDS SecurityOutbox

UsableLinks ==
    [u \in Users |-> [p \in Challenges |->
        {t \in TokenId : Usable(t) /\ tokens[t].user = u /\ tokens[t].purpose = p}]]

PasswordChanges ==
    [u \in Users |-> Cardinality({j \in JobId : jobs[j].user = u /\ jobs[j].kind = Changed})]

Abstract == INSTANCE ActionChallenge WITH
    Links <- TokenId,
    usable <- UsableLinks,
    spent <- {t \in 1 .. tokenCount : ~Usable(t)},
    changes <- PasswordChanges

\* Every behaviour of the outbox, with its retries, lost leases, late workers
\* and expiring links, is one ActionChallenge allows
\* (email_outbox_service.py and account_token_service.py as a whole).
ImplementsActionChallenge == Abstract!Spec
=============================================================================
