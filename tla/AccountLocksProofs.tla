------------------------ MODULE AccountLocksProofs ------------------------
(***************************************************************************)
(* Proofs about AccountLocks: transactions that lock the user row before   *)
(* any other, or lock one row only, never wait for each other in a circle, *)
(* however many run.                                                       *)
(***************************************************************************)
EXTENDS AccountLocks, TLAPS

USE KindsAssumption, NoneAssumption

\* What the order of the statements in the code gives.
UserFirst(kind) == Len(Program[kind]) = 1 \/ Program[kind][1] = "user"

LEMMA ProgramRows ==
    \A kind \in DOMAIN Program : Program[kind] \in Seq(Rows) /\ Len(Program[kind]) \in Nat
<1>1. "user" \in Rows /\ "job" \in Rows /\ "link" \in Rows /\ "session" \in Rows
  BY DEF Rows
<1>2. /\ Enqueue \in Seq(Rows) /\ ChangePassword \in Seq(Rows)
      /\ ConfirmVerification \in Seq(Rows) /\ ConfirmReset \in Seq(Rows)
  BY <1>1 DEF Enqueue, ChangePassword, ConfirmVerification, ConfirmReset
<1>3. /\ ClaimJob \in Seq(Rows) /\ IssueLink \in Seq(Rows) /\ SendNotice \in Seq(Rows)
      /\ CloseJob \in Seq(Rows) /\ RescheduleFailure \in Seq(Rows)
      /\ Login \in Seq(Rows) /\ TouchSession \in Seq(Rows)
  BY <1>1 DEF ClaimJob, IssueLink, SendNotice, CloseJob, RescheduleFailure, Login, TouchSession
<1>4. \A kind \in DOMAIN Program : Program[kind] \in Seq(Rows)
  BY <1>2, <1>3 DEF Program
<1> QED BY <1>4

LEMMA MostLockUserFirst ==
    \A kind \in DOMAIN Program : kind # "RescheduleFailure" => UserFirst(kind)
  BY DEF UserFirst, Program, Enqueue, ChangePassword, ConfirmVerification, ConfirmReset, ClaimJob,
     IssueLink, SendNotice, CloseJob, RescheduleFailure, Login, TouchSession

LEMMA RunningProgram ==
    ASSUME TypeOK, NEW t \in Txns, running[t] # None
    PROVE  /\ running[t] \in Kinds /\ running[t] \in DOMAIN Program
           /\ Program[running[t]] \in Seq(Rows)
           /\ Len(Program[running[t]]) \in Nat /\ done[t] \in Nat
           /\ done[t] <= Len(Program[running[t]])
           /\ ~Finished(t) => NextRow(t) \in Rows /\ done[t] < Len(Program[running[t]])
<1>1. running[t] \in Kinds /\ done[t] \in Nat /\ done[t] <= Len(Program[running[t]])
  BY DEF TypeOK
<1>2. Program[running[t]] \in Seq(Rows) /\ Len(Program[running[t]]) \in Nat
  BY <1>1, ProgramRows
<1>3. ~Finished(t) => NextRow(t) \in Rows /\ done[t] < Len(Program[running[t]])
  BY <1>1, <1>2 DEF Finished, NextRow
<1> QED BY <1>1, <1>2, <1>3

-----------------------------------------------------------------------------
(* A connection holds exactly the rows it has locked.                      *)

LEMMA NextTypeOK == TypeOK /\ [Next]_vars => TypeOK'
<1> SUFFICES ASSUME TypeOK, [Next]_vars PROVE TypeOK'
  OBVIOUS
<1>0. /\ running \in [Txns -> Kinds \union {None}] /\ done \in [Txns -> Nat]
      /\ holder \in [Rows -> Txns \union {None}]
  BY DEF TypeOK
<1>1. ASSUME NEW t \in Txns, NEW kind \in Kinds, Begin(t, kind) PROVE TypeOK'
  <2>1. running[t] = None /\ running' = [running EXCEPT ![t] = kind] /\ UNCHANGED <<done, holder>>
    BY <1>1 DEF Begin
  <2>2. Program[kind] \in Seq(Rows) /\ Len(Program[kind]) \in Nat
    BY ProgramRows
  <2>3. done[t] = 0 /\ running'[t] = kind /\ \A s \in Txns \ {t} : running'[s] = running[s]
    BY <1>0, <2>1 DEF TypeOK
  <2>4. running' \in [Txns -> Kinds \union {None}]
    BY <1>0, <2>1
  <2>5. \A s \in Txns : IF running'[s] = None THEN done[s] = 0
                       ELSE done[s] <= Len(Program[running'[s]])
    BY <2>2, <2>3 DEF TypeOK
  <2>6. ASSUME NEW r \in Rows, NEW s \in Txns
        PROVE  holder[r] = s <=> /\ running'[s] # None
                                 /\ \E i \in 1 .. done[s] : Program[running'[s]][i] = r
    <3>1. holder[r] = s <=> /\ running[s] # None
                            /\ \E i \in 1 .. done[s] : Program[running[s]][i] = r
      BY DEF TypeOK
    <3>2. CASE s = t
      BY <2>1, <2>3, <3>1, <3>2
    <3>3. CASE s # t
      BY <2>3, <3>1, <3>3
    <3> QED BY <3>2, <3>3
  <2> QED BY <1>0, <2>1, <2>4, <2>5, <2>6 DEF TypeOK
<1>2. ASSUME NEW t \in Txns, Lock(t) PROVE TypeOK'
  <2>1. PICK r \in Rows : r = NextRow(t)
    BY <1>2, RunningProgram DEF Lock
  <2>2. /\ running[t] # None /\ ~Finished(t) /\ holder[r] \in {None, t}
        /\ holder' = [holder EXCEPT ![r] = t]
        /\ done' = [done EXCEPT ![t] = done[t] + 1]
        /\ running' = running
        /\ r = Program[running[t]][done[t] + 1]
    BY <1>2, <2>1 DEF Lock, NextRow
  <2>3. done[t] \in Nat /\ done[t] < Len(Program[running[t]]) /\ Len(Program[running[t]]) \in Nat
    BY <2>2, RunningProgram
  <2>4. \A i : i \in 1 .. (done[t] + 1) <=> i \in 1 .. done[t] \/ i = done[t] + 1
    BY <2>3
  <2>5. /\ done'[t] = done[t] + 1 /\ \A s \in Txns \ {t} : done'[s] = done[s]
        /\ holder'[r] = t /\ \A q \in Rows \ {r} : holder'[q] = holder[q]
        /\ done' \in [Txns -> Nat] /\ holder' \in [Rows -> Txns \union {None}]
    BY <1>0, <2>2, <2>3
  <2>6. ASSUME NEW q \in Rows, NEW s \in Txns
        PROVE  holder'[q] = s <=> /\ running[s] # None
                                  /\ \E i \in 1 .. done'[s] : Program[running[s]][i] = q
    <3>1. holder[q] = s <=> /\ running[s] # None
                            /\ \E i \in 1 .. done[s] : Program[running[s]][i] = q
      BY DEF TypeOK
    <3>2. CASE s = t
      BY <2>2, <2>4, <2>5, <3>1, <3>2
    <3>3. CASE s # t /\ q # r
      BY <2>5, <3>1, <3>3
    <3>4. CASE s # t /\ q = r
      BY <2>2, <2>5, <3>1, <3>4
    <3> QED BY <3>2, <3>3, <3>4
  <2>7. \A s \in Txns : IF running[s] = None THEN done'[s] = 0
                       ELSE done'[s] <= Len(Program[running[s]])
    BY <2>2, <2>3, <2>5 DEF TypeOK
  <2> QED BY <2>2, <2>5, <2>6, <2>7 DEF TypeOK
<1>3. ASSUME NEW t \in Txns, EndTxn(t) PROVE TypeOK'
  <2>1. /\ running' = [running EXCEPT ![t] = None]
        /\ done' = [done EXCEPT ![t] = 0]
        /\ holder' = [r \in Rows |-> IF holder[r] = t THEN None ELSE holder[r]]
    BY <1>3 DEF EndTxn
  <2>2. running' \in [Txns -> Kinds \union {None}] /\ done' \in [Txns -> Nat]
        /\ holder' \in [Rows -> Txns \union {None}]
    BY <1>0, <2>1
  <2>3. ASSUME NEW r \in Rows, NEW s \in Txns
        PROVE  holder'[r] = s <=> /\ running'[s] # None
                                  /\ \E i \in 1 .. done'[s] : Program[running'[s]][i] = r
    <3>1. holder[r] = s <=> /\ running[s] # None
                            /\ \E i \in 1 .. done[s] : Program[running[s]][i] = r
      BY DEF TypeOK
    <3>2. CASE s = t
      BY <1>0, <2>1, <3>2
    <3>3. CASE s # t
      BY <1>0, <2>1, <3>1, <3>3
    <3> QED BY <3>2, <3>3
  <2>4. \A s \in Txns : IF running'[s] = None THEN done'[s] = 0
                       ELSE done'[s] <= Len(Program[running'[s]])
    BY <1>0, <2>1 DEF TypeOK
  <2> QED BY <2>2, <2>3, <2>4 DEF TypeOK
<1>4. CASE UNCHANGED vars
  BY <1>4 DEF vars, TypeOK
<1> QED BY <1>1, <1>2, <1>3, <1>4 DEF Next, Commit, Rollback

LEMMA InitTypeOK == Init => TypeOK
  BY DEF Init, TypeOK

\* A connection holds exactly the rows of the statements its transaction has
\* run, and gives all of them back when it ends, by a commit or an exception
\* (SELECT ... FOR UPDATE, UPDATE and DELETE in the account services).
THEOREM LocksAreHeld == Spec => []TypeOK
  BY InitTypeOK, NextTypeOK, PTL DEF Spec

-----------------------------------------------------------------------------
(* No circle.                                                              *)

\* Whoever waits with a row in hand has the user row.
LEMMA WaitingHoldsUser ==
    ASSUME TypeOK, "RescheduleFailure" \notin Kinds,
           NEW t \in Txns, running[t] # None, ~Finished(t), NEW r \in Rows, holder[r] = t
    PROVE  holder["user"] = t
<1>1. PICK i \in 1 .. done[t] : Program[running[t]][i] = r
  BY DEF TypeOK
<1>2. 1 \in 1 .. done[t] /\ Len(Program[running[t]]) # 1
  <2>1. done[t] \in Nat /\ Len(Program[running[t]]) \in Nat /\ done[t] < Len(Program[running[t]])
    BY RunningProgram
  <2>2. PICK n \in Nat : n = done[t]
    BY <2>1
  <2>3. i \in 1 .. n
    BY <2>2
  <2>4. 1 <= n
    BY <2>3
  <2>5. PICK length \in Nat : length = Len(Program[running[t]])
    BY <2>1
  <2>6. n < length
    BY <2>1, <2>2, <2>5
  <2>7. 1 \in 1 .. n /\ length # 1
    BY <2>4, <2>6
  <2>8. 1 \in 1 .. done[t]
    BY <2>2, <2>7
  <2>9. Len(Program[running[t]]) # 1
    BY <2>5, <2>7
  <2> QED BY <2>8, <2>9
<1>3. Program[running[t]][1] = "user"
  BY <1>2, RunningProgram, MostLockUserFirst DEF UserFirst
<1> QED BY <1>2, <1>3 DEF TypeOK, Rows

LEMMA UserFirstNoCircle ==
    ASSUME TypeOK, "RescheduleFailure" \notin Kinds
    PROVE  NoDeadlock
<1> SUFFICES ASSUME NEW S \in SUBSET Txns, S # {},
                    \A t \in S : \E s \in S : WaitsFor(t, s)
             PROVE  FALSE
  BY DEF NoDeadlock
<1>1. ASSUME NEW t \in S, NEW s \in S, WaitsFor(t, s)
      PROVE  holder["user"] = s
  <2>1. NextRow(t) \in Rows /\ holder[NextRow(t)] = s
    BY <1>1, RunningProgram DEF WaitsFor
  <2>2. running[s] # None /\ ~Finished(s)
    BY DEF WaitsFor
  <2> QED BY <2>1, <2>2, WaitingHoldsUser
<1>2. PICK t \in S, s \in S : WaitsFor(t, s)
  OBVIOUS
<1>3. PICK u \in S : WaitsFor(s, u)
  OBVIOUS
<1>4. s = u
  BY <1>1, <1>2, <1>3
<1> QED BY <1>3, <1>4 DEF WaitsFor

\* "takes the user lock first.  This ... avoids PostgreSQL deadlocks"
\* (email_outbox_service.py:152) is true of any number of connections running
\* any of the transactions but _reschedule_delivery_failure, which locks a link
\* and then a job without the user row: the run locks_deadlock shows what that
\* one does.
THEOREM UserFirstAvoidsDeadlock ==
    ASSUME "RescheduleFailure" \notin Kinds
    PROVE  Spec => []NoDeadlock
<1>1. TypeOK => NoDeadlock
  BY UserFirstNoCircle
<1> QED BY <1>1, LocksAreHeld, PTL
=============================================================================
