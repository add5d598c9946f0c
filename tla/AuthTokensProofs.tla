--------------------------- MODULE AuthTokensProofs ---------------------------
(***************************************************************************)
(* Theorems about AuthTokens, for any number of concurrent calls and any   *)
(* lives of the tokens.                                                    *)
(***************************************************************************)
EXTENDS AuthTokens, TLAPS

\* a refresh that has spent its token is about to issue the next one
SpentBeforeIssue ==
  \A r \in Requests : pc[r] = "issue" /\ held[r] \in Seconds => session[held[r]] = "revoked"

\* a forgotPassword that has not stored its token yet has no row
NoRowYet == \A r \in Requests : pc[r] \in {"new", "create"} => reset[r] = "none"

\* what a forgotPassword swept were rows
SweptExisted == \A r \in Requests : \A k \in swept[r] : reset[k] # "none"

\* a reset that goes on has seen its token
UsedExisted == \A r \in Requests : pc[r] = "apply" => reset[using[r]] # "none"

\* a token is marked used by a replacement
UsedMeansApplied == \A k \in Requests : reset[k] = "used" => applied[k] > 0

\* a second in which nothing was issued has no session to be a parent of
OnlyIssuedHaveParents == \A t \in Seconds : session[t] = "none" => parent[t] = NoToken

\* The inductive invariant: the four safety invariants, the type invariant and
\* the facts about calls under way that carry them from one step to the next.
IInv ==
  /\ TypeOK
  /\ ParentIsRevoked
  /\ LiveSessionsAreFresh
  /\ AppliedMeansUsed
  /\ ForgotSupersedes
  /\ SpentBeforeIssue
  /\ NoRowYet
  /\ SweptExisted
  /\ UsedExisted
  /\ UsedMeansApplied
  /\ OnlyIssuedHaveParents

ResetParts ==
  /\ AppliedMeansUsed /\ ForgotSupersedes /\ NoRowYet /\ SweptExisted /\ UsedExisted
  /\ UsedMeansApplied

SessionParts ==
  ParentIsRevoked /\ LiveSessionsAreFresh /\ SpentBeforeIssue /\ OnlyIssuedHaveParents

LEMMA InitIInv == Init => IInv
BY AuthAssumption DEF Init, IInv, TypeOK, Steps, Seconds, ParentIsRevoked,
   LiveSessionsAreFresh, AppliedMeansUsed, ForgotSupersedes, SpentBeforeIssue, NoRowYet,
   SweptExisted, UsedExisted, UsedMeansApplied, OnlyIssuedHaveParents

\* Every step preserves the types.
LEMMA StepTypes ==
  ASSUME TypeOK, [Next]_vars PROVE TypeOK'
<1> USE AuthAssumption DEF TypeOK, Steps, store, calls, history
<1>1. ASSUME NEW r \in Requests,
             \/ LoginCheck(r) \/ RefreshRevoke(r) \/ IssueTokens(r) \/ IssueCollides(r)
      PROVE  TypeOK'
  BY <1>1 DEF LoginCheck, RefreshRevoke, IssueTokens, IssueCollides, Goto, Finish
<1>2. ASSUME NEW r \in Requests, ForgotDelete(r) \/ ForgotCreate(r)
      PROVE  TypeOK'
  <2>1. CASE ForgotDelete(r)
    BY <2>1 DEF ForgotDelete, Goto
  <2>2. CASE ForgotCreate(r)
    <3>1. now \in Nat
      BY DEF Seconds
    <3>2. QED
      BY <2>2, <3>1 DEF ForgotCreate, Goto, Finish
  <2>3. QED
    BY <1>2, <2>1, <2>2
<1>3. ASSUME NEW r \in Requests, ResetApply(r) \/ ResetRolledBack(r) \/ Fail(r)
      PROVE  TypeOK'
  BY <1>3 DEF ResetApply, ResetRolledBack, Fail, Replace, RevokeAll, Goto, Finish
<1>4. ASSUME NEW r \in Requests, NEW t \in Seconds, RefreshCheck(r, t) \/ Logout(r, t)
      PROVE  TypeOK'
  BY <1>4 DEF RefreshCheck, Logout, Goto, Finish
<1>5. ASSUME NEW r \in Requests, NEW k \in Requests, ResetCheck(r, k)
      PROVE  TypeOK'
  BY <1>5 DEF ResetCheck, Goto
<1>6. CASE Tick \/ UNCHANGED vars
  BY <1>6 DEF Tick, Seconds, vars
<1>7. QED
  BY <1>1, <1>2, <1>3, <1>4, <1>5, <1>6 DEF Next

\* Every step preserves what is said of the sessions.
LEMMA StepSessions ==
  ASSUME TypeOK, SessionParts, [Next]_vars PROVE SessionParts'
<1> USE AuthAssumption DEF TypeOK, SessionParts, ParentIsRevoked, LiveSessionsAreFresh,
        SpentBeforeIssue, OnlyIssuedHaveParents, store, calls, history
<1>1. ASSUME NEW r \in Requests, RefreshRevoke(r)
      PROVE  SessionParts'
  BY <1>1 DEF RefreshRevoke, Goto
<1>2. ASSUME NEW r \in Requests, IssueTokens(r)
      PROVE  SessionParts'
  BY <1>2 DEF IssueTokens, Goto, Finish
<1>3. ASSUME NEW r \in Requests, ResetApply(r)
      PROVE  SessionParts'
  BY <1>3 DEF ResetApply, Replace, RevokeAll, Goto, Finish
<1>4. ASSUME NEW r \in Requests, NEW t \in Seconds, Logout(r, t)
      PROVE  SessionParts'
  BY <1>4 DEF Logout, Goto, Finish
<1>5. ASSUME NEW r \in Requests, NEW t \in Seconds, RefreshCheck(r, t)
      PROVE  SessionParts'
  BY <1>5 DEF RefreshCheck, Goto
<1>6. ASSUME NEW r \in Requests,
             \/ IssueCollides(r) \/ ForgotDelete(r) \/ ForgotCreate(r)
             \/ ResetRolledBack(r) \/ Fail(r) \/ \E k \in Requests : ResetCheck(r, k)
      PROVE  SessionParts'
  BY <1>6 DEF IssueCollides, ForgotDelete, ForgotCreate, ResetRolledBack, Fail, ResetCheck,
     Goto, Finish
<1>7. ASSUME NEW r \in Requests, LoginCheck(r)
      PROVE  SessionParts'
  BY <1>7 DEF LoginCheck, Goto
<1>8. CASE Tick \/ UNCHANGED vars
  BY <1>8 DEF Tick, vars
<1>9. QED
  BY <1>1, <1>2, <1>3, <1>4, <1>5, <1>6, <1>7, <1>8 DEF Next

\* Every step preserves what is said of the reset tokens.
LEMMA StepResets ==
  ASSUME TypeOK, ResetParts, [Next]_vars PROVE ResetParts'
<1> USE AuthAssumption DEF TypeOK, ResetParts, AppliedMeansUsed, ForgotSupersedes, NoRowYet,
        SweptExisted, UsedExisted, UsedMeansApplied, store, calls, history
<1>1. ASSUME NEW r \in Requests, ForgotDelete(r)
      PROVE  ResetParts'
  BY <1>1 DEF ForgotDelete, Goto
<1>2. ASSUME NEW r \in Requests, ForgotCreate(r)
      PROVE  ResetParts'
  BY <1>2 DEF ForgotCreate, Goto, Finish
<1>3. ASSUME NEW r \in Requests, ResetApply(r)
      PROVE  ResetParts'
  BY <1>3 DEF ResetApply, Replace, Goto, Finish
<1>4. ASSUME NEW r \in Requests, NEW t \in Seconds, RefreshCheck(r, t) \/ Logout(r, t)
      PROVE  ResetParts'
  BY <1>4 DEF RefreshCheck, Logout, Goto, Finish
<1>5. ASSUME NEW r \in Requests,
             \/ LoginCheck(r) \/ RefreshRevoke(r) \/ IssueTokens(r) \/ IssueCollides(r)
             \/ ResetRolledBack(r) \/ Fail(r) \/ \E k \in Requests : ResetCheck(r, k)
      PROVE  ResetParts'
  BY <1>5 DEF LoginCheck, RefreshRevoke, IssueTokens, IssueCollides, ResetRolledBack, Fail,
     ResetCheck, Goto, Finish
<1>6. CASE Tick \/ UNCHANGED vars
  BY <1>6 DEF Tick, vars
<1>7. QED
  BY <1>1, <1>2, <1>3, <1>4, <1>5, <1>6 DEF Next

LEMMA Invariance == Spec => []IInv
<1>1. IInv /\ [Next]_vars => IInv'
  BY StepTypes, StepSessions, StepResets DEF IInv, SessionParts, ResetParts
<1>2. QED
  BY InitIInv, <1>1, PTL DEF Spec

-------------------------------------------------------------------------------

\* Rows, clock and local variables keep their types (TypeOK).
THEOREM TypeCorrect == Spec => []TypeOK
<1>1. IInv => TypeOK
  BY DEF IInv
<1>2. QED
  BY Invariance, <1>1, PTL

\* A token that was exchanged is revoked before its successor exists.
THEOREM RotationRevokes == Spec => []ParentIsRevoked
<1>1. IInv => ParentIsRevoked
  BY DEF IInv
<1>2. QED
  BY Invariance, <1>1, PTL

\* A reset leaves no session of an earlier password alive.
THEOREM ResetSignsOut == Spec => []LiveSessionsAreFresh
<1>1. IInv => LiveSessionsAreFresh
  BY DEF IInv
<1>2. QED
  BY Invariance, <1>1, PTL

\* The password changes only as the token that allows it is marked used, a
\* token that was used or deleted and is in no reset's hands replaces nothing
\* more, and one that a forgotPassword found before it had replaced anything
\* never does (resetPassword, createPasswordResetToken).
THEOREM ResetsAreAtomic == Spec => ResetTokensSettle
<1> DEFINE Kept(k) == /\ Spent(k) => Spent(k)' /\ applied'[k] = applied[k]
                      /\ Disarmed(k) => Disarmed(k)'
<1>1. IInv => AppliedMeansUsed /\ ForgotSupersedes
  BY DEF IInv
<1>2. IInv /\ [Next]_vars => [\A k \in Requests : Kept(k)]_vars
  <2> SUFFICES ASSUME IInv, Next, NEW k \in Requests PROVE Kept(k)
    OBVIOUS
  <2> USE AuthAssumption DEF IInv, TypeOK, NoRowYet, SweptExisted, ForgotSupersedes, Spent,
          Disarmed, store, calls, history
  <2>1. ASSUME NEW r \in Requests, ForgotDelete(r)
        PROVE  Kept(k)
    BY <2>1 DEF ForgotDelete, Goto
  <2>2. ASSUME NEW r \in Requests, ForgotCreate(r)
        PROVE  Kept(k)
    BY <2>2 DEF ForgotCreate, Goto, Finish
  <2>3. ASSUME NEW r \in Requests, ResetApply(r)
        PROVE  Kept(k)
    <3>1. /\ using[r] \in Requests /\ reset[using[r]] # "deleted" /\ using' = using /\ swept' = swept
          /\ reset' = [reset EXCEPT ![using[r]] = "used"]
          /\ applied' = [applied EXCEPT ![using[r]] = @ + 1]
          /\ \A q \in Requests : pc'[q] = "apply" => pc[q] = "apply"
      BY <2>3 DEF ResetApply, Replace, Goto, Finish
    <3>2. Spent(k) => using[r] # k
      BY <2>3 DEF ResetApply
    <3>3. Spent(k) => Spent(k)' /\ applied'[k] = applied[k]
      BY <3>1, <3>2
    <3>4. ASSUME Disarmed(k) PROVE Disarmed(k)'
      <4>1. reset[k] # "unused" /\ reset[k] # "none" /\ applied[k] = 0
        BY <3>4
      <4>2. CASE using[r] = k
        BY <3>1, <4>1, <4>2 DEF UsedMeansApplied
      <4>3. CASE using[r] # k
        BY <3>1, <3>4, <4>3
      <4>4. QED
        BY <4>2, <4>3
    <3>5. QED
      BY <3>3, <3>4
  <2>4. ASSUME NEW r \in Requests, NEW t \in Seconds, RefreshCheck(r, t) \/ Logout(r, t)
        PROVE  Kept(k)
    BY <2>4 DEF RefreshCheck, Logout, Goto, Finish
  <2>5. ASSUME NEW r \in Requests, NEW j \in Requests, ResetCheck(r, j)
        PROVE  Kept(k)
    BY <2>5 DEF ResetCheck, Goto
  <2>6. ASSUME NEW r \in Requests,
               \/ LoginCheck(r) \/ RefreshRevoke(r) \/ IssueTokens(r) \/ IssueCollides(r)
               \/ ResetRolledBack(r) \/ Fail(r)
        PROVE  Kept(k)
    BY <2>6 DEF LoginCheck, RefreshRevoke, IssueTokens, IssueCollides, ResetRolledBack, Fail,
       Goto, Finish
  <2>7. CASE Tick
    BY <2>7 DEF Tick
  <2>8. QED
    BY <2>1, <2>2, <2>3, <2>4, <2>5, <2>6, <2>7 DEF Next
<1>3. QED
  BY Invariance, <1>1, <1>2, PTL DEF Spec, ResetTokensSettle

\* A refresh token that is revoked and in nobody's hands opens no session.
THEOREM RetiredForGood == Spec => RetiredIsFinal
<1>1. TypeOK /\ OnlyIssuedHaveParents /\ [Next]_vars =>
        [\A t \in Seconds : Retired(t) => Retired(t)' /\ Children(t)' = Children(t)]_vars
  <2> SUFFICES ASSUME TypeOK, OnlyIssuedHaveParents, Next, NEW t \in Seconds, Retired(t)
               PROVE  Retired(t)' /\ Children(t)' = Children(t)
    OBVIOUS
  <2> USE AuthAssumption DEF TypeOK, OnlyIssuedHaveParents, Retired, Children, store, calls, history
  <2>1. ASSUME NEW r \in Requests, RefreshRevoke(r) \/ IssueTokens(r) \/ IssueCollides(r)
        PROVE  Retired(t)' /\ Children(t)' = Children(t)
    BY <2>1 DEF RefreshRevoke, IssueTokens, IssueCollides, Goto, Finish
  <2>2. ASSUME NEW r \in Requests, NEW u \in Seconds, RefreshCheck(r, u) \/ Logout(r, u)
        PROVE  Retired(t)' /\ Children(t)' = Children(t)
    BY <2>2 DEF RefreshCheck, Logout, Goto, Finish
  <2>3. ASSUME NEW r \in Requests, LoginCheck(r)
        PROVE  Retired(t)' /\ Children(t)' = Children(t)
    BY <2>3 DEF LoginCheck, Goto
  <2>4. ASSUME NEW r \in Requests,
               \/ ForgotDelete(r) \/ ForgotCreate(r) \/ ResetApply(r) \/ ResetRolledBack(r)
               \/ Fail(r) \/ \E k \in Requests : ResetCheck(r, k)
        PROVE  Retired(t)' /\ Children(t)' = Children(t)
    BY <2>4 DEF ForgotDelete, ForgotCreate, ResetApply, Replace, RevokeAll, ResetRolledBack,
       Fail, ResetCheck, Goto, Finish
  <2>5. CASE Tick
    BY <2>5 DEF Tick
  <2>6. QED
    BY <2>1, <2>2, <2>3, <2>4, <2>5 DEF Next
<1>2. IInv => TypeOK /\ OnlyIssuedHaveParents
  BY DEF IInv
<1>3. QED
  BY Invariance, <1>1, <1>2, PTL DEF Spec, RetiredIsFinal
===============================================================================
