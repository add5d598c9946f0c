------------------------------ MODULE AuthTokens ------------------------------
(***************************************************************************)
(* The credentials of one account of auth-service: the refresh tokens that *)
(* carry its sessions and the tokens that reset its password. Login,       *)
(* refresh, logout, forgotPassword and resetPassword are sequences of      *)
(* database round trips; only the three updates of resetPassword share a   *)
(* transaction. One action is one round trip, or that transaction.         *)
(*                                                                         *)
(* A refresh token is a JWT signed over the user and the current second,   *)
(* so within one account it is identified by the second of its issue, and  *)
(* the unique index on tokenHash refuses a second one.                     *)
(***************************************************************************)
EXTENDS Integers

CONSTANTS
  Requests,     \* calls of the five operations
  MaxTime,      \* bound: the clock stops here
  RefreshLife,  \* life of a refresh token, in seconds ("30d")
  ResetLife,    \* life of a reset token ("60 * 60 * 1000" ms)
  NoToken       \* for a request that holds none

Seconds == 0..MaxTime

ASSUME AuthAssumption ==
  /\ MaxTime \in Nat
  /\ RefreshLife \in Nat \ {0}
  /\ ResetLife \in Nat \ {0}
  /\ NoToken \notin Seconds
  /\ NoToken \notin Requests

VARIABLES
  \* RefreshToken rows, by the second of their issue
  session,  \* "live" is revokedAt = null
  \* PasswordResetToken rows, by the forgotPassword call that made them
  reset,    \* "unused" is usedAt = null
  madeAt,   \* expiresAt - ResetLife
  \* User row
  password, \* version of passwordHash: how often it was replaced
  \* the calls
  pc,       \* the next round trip
  held,     \* the refresh token a refresh exchanges
  using,    \* the reset token a resetPassword applies
  now,      \* clock
  \* history
  parent,   \* the refresh token a session was exchanged for
  bornAt,   \* the password version when a session was issued
  applied,  \* how often a reset token replaced the password
  swept     \* the reset tokens that existed when a forgotPassword made its own

store   == <<session, reset, madeAt, password>>
calls   == <<pc, held, using>>
history == <<parent, bornAt, applied, swept>>
vars    == <<store, calls, now, history>>

Steps == {"new", "revoke", "issue", "create", "apply", "ok", "failed"}

Init ==
  /\ session = [t \in Seconds |-> "none"]
  /\ reset = [k \in Requests |-> "none"]
  /\ madeAt = [k \in Requests |-> 0]
  /\ password = 0
  /\ pc = [r \in Requests |-> "new"]
  /\ held = [r \in Requests |-> NoToken]
  /\ using = [r \in Requests |-> NoToken]
  /\ now = 0
  /\ parent = [t \in Seconds |-> NoToken]
  /\ bornAt = [t \in Seconds |-> 0]
  /\ applied = [k \in Requests |-> 0]
  /\ swept = [r \in Requests |-> {}]

Goto(r, step) == pc' = [pc EXCEPT ![r] = step]

\* the answer of the last round trip may be lost: its effect stays
Finish(r) == \E outcome \in {"ok", "failed"} : Goto(r, outcome)

\* updateMany where revokedAt is null
RevokeAll == [t \in Seconds |-> IF session[t] = "live" THEN "revoked" ELSE session[t]]

\* what the transaction of resetPassword writes, but for the sessions
Replace(k) ==
  /\ password' = password + 1
  /\ reset' = [reset EXCEPT ![k] = "used"]
  /\ applied' = [applied EXCEPT ![k] = @ + 1]

-------------------------------------------------------------------------------
(* Plausible mistakes. None of them is part of Next: each variant is what a  *)
(* property of this module is there to tell apart from the action it alters. *)

\* wrong: revokedAt is not looked at
RefreshCheckExistsOnly(r, t) ==
  /\ pc[r] = "new"
  /\ session[t] # "none"
  /\ now < t + RefreshLife
  /\ held' = [held EXCEPT ![r] = t]
  /\ Goto(r, "revoke")
  /\ UNCHANGED <<store, using, now, history>>

\* wrong: the token that was presented is forgotten
RefreshCheckForgetful(r, t) ==
  /\ pc[r] = "new"
  /\ session[t] = "live"
  /\ now < t + RefreshLife
  /\ Goto(r, "revoke")
  /\ UNCHANGED <<store, held, using, now, history>>

\* wrong: the old token stays valid beside the new one
RefreshWithoutRotation(r) ==
  /\ pc[r] = "revoke"
  /\ Goto(r, "issue")
  /\ UNCHANGED <<store, held, using, now, history>>

\* wrong: the sessions opened with the old password go on
ResetKeepsSessions(r) ==
  /\ pc[r] = "apply"
  /\ reset[using[r]] # "deleted"
  /\ Replace(using[r])
  /\ Finish(r)
  /\ UNCHANGED <<session, madeAt, held, using, now, parent, bornAt, swept>>

\* wrong: no transaction, the password is replaced before the token is missed
ResetOutsideTransaction(r) ==
  /\ pc[r] = "apply"
  /\ password' = password + 1
  /\ applied' = [applied EXCEPT ![using[r]] = @ + 1]
  /\ session' = RevokeAll
  /\ Finish(r)
  /\ UNCHANGED <<reset, madeAt, held, using, now, parent, bornAt, swept>>

\* wrong: usedAt is not looked at
ResetCheckAnyToken(r, k) ==
  /\ pc[r] = "new"
  /\ reset[k] \notin {"none", "deleted"}
  /\ now < madeAt[k] + ResetLife
  /\ using' = [using EXCEPT ![r] = k]
  /\ Goto(r, "apply")
  /\ UNCHANGED <<store, held, now, history>>

\* wrong: earlier reset tokens stay valid
ForgotKeepsOthers(r) ==
  /\ pc[r] = "new"
  /\ swept' = [swept EXCEPT ![r] = {k \in Requests : reset[k] # "none"}]
  /\ Goto(r, "create")
  /\ UNCHANGED <<store, held, using, now, parent, bornAt, applied>>

-------------------------------------------------------------------------------
(* Sessions. A call that is refused at its first read changes nothing.       *)

\* login reads the user and compares the password
LoginCheck(r) ==
  /\ pc[r] = "new"
  /\ Goto(r, "issue")
  /\ UNCHANGED <<store, held, using, now, history>>

\* refresh verifies the JWT and reads the row
RefreshCheck(r, t) ==
  /\ pc[r] = "new"
  /\ session[t] = "live"
  /\ now < t + RefreshLife
  /\ held' = [held EXCEPT ![r] = t]
  /\ Goto(r, "revoke")
  /\ UNCHANGED <<store, using, now, history>>

\* refresh, its update: by tokenHash alone, whatever happened since
RefreshRevoke(r) ==
  /\ pc[r] = "revoke"
  /\ session' = [session EXCEPT ![held[r]] = "revoked"]
  /\ Goto(r, "issue")
  /\ UNCHANGED <<reset, madeAt, password, held, using, now, history>>

\* issueTokens signs over the current second and stores the hash
IssueTokens(r) ==
  /\ pc[r] = "issue"
  /\ session[now] = "none"
  /\ session' = [session EXCEPT ![now] = "live"]
  /\ parent' = [parent EXCEPT ![now] = held[r]]
  /\ bornAt' = [bornAt EXCEPT ![now] = password]
  /\ Finish(r)
  /\ UNCHANGED <<reset, madeAt, password, held, using, now, applied, swept>>

\* issueTokens in a second that has its token: the unique index throws
IssueCollides(r) ==
  /\ pc[r] = "issue"
  /\ session[now] # "none"
  /\ Goto(r, "failed")
  /\ UNCHANGED <<store, held, using, now, history>>

\* logout: one updateMany where revokedAt is null
Logout(r, t) ==
  /\ pc[r] = "new"
  /\ session[t] # "none"
  /\ session' = [session EXCEPT ![t] = "revoked"]
  /\ Finish(r)
  /\ UNCHANGED <<reset, madeAt, password, held, using, now, history>>

-------------------------------------------------------------------------------
(* The password *)

\* createPasswordResetToken, its deleteMany where usedAt is null
ForgotDelete(r) ==
  /\ pc[r] = "new"
  /\ reset' = [k \in Requests |-> IF reset[k] = "unused" THEN "deleted" ELSE reset[k]]
  /\ swept' = [swept EXCEPT ![r] = {k \in Requests : reset[k] # "none"}]
  /\ Goto(r, "create")
  /\ UNCHANGED <<session, madeAt, password, held, using, now, parent, bornAt, applied>>

\* createPasswordResetToken, its create; the mail is sent in the background
ForgotCreate(r) ==
  /\ pc[r] = "create"
  /\ reset' = [reset EXCEPT ![r] = "unused"]
  /\ madeAt' = [madeAt EXCEPT ![r] = now]
  /\ Finish(r)
  /\ UNCHANGED <<session, password, held, using, now, history>>

\* resetPassword reads the token
ResetCheck(r, k) ==
  /\ pc[r] = "new"
  /\ reset[k] = "unused"
  /\ now < madeAt[k] + ResetLife
  /\ using' = [using EXCEPT ![r] = k]
  /\ Goto(r, "apply")
  /\ UNCHANGED <<store, held, now, history>>

\* resetPassword, its transaction: by ids, whatever happened since
ResetApply(r) ==
  /\ pc[r] = "apply"
  /\ reset[using[r]] # "deleted"
  /\ Replace(using[r])
  /\ session' = RevokeAll
  /\ Finish(r)
  /\ UNCHANGED <<madeAt, held, using, now, parent, bornAt, swept>>

\* the token row is gone: the transaction is rolled back
ResetRolledBack(r) ==
  /\ pc[r] = "apply"
  /\ reset[using[r]] = "deleted"
  /\ Goto(r, "failed")
  /\ UNCHANGED <<store, held, using, now, history>>

-------------------------------------------------------------------------------

\* a round trip throws or the process dies between two of them
Fail(r) ==
  /\ pc[r] \in {"revoke", "issue", "create", "apply"}
  /\ Goto(r, "failed")
  /\ UNCHANGED <<store, held, using, now, history>>

Tick ==
  /\ now < MaxTime
  /\ now' = now + 1
  /\ UNCHANGED <<store, calls, history>>

Next ==
  \/ \E r \in Requests :
       \/ LoginCheck(r) \/ RefreshRevoke(r) \/ IssueTokens(r) \/ IssueCollides(r)
       \/ ForgotDelete(r) \/ ForgotCreate(r) \/ ResetApply(r) \/ ResetRolledBack(r)
       \/ Fail(r)
       \/ \E t \in Seconds : RefreshCheck(r, t) \/ Logout(r, t)
       \/ \E k \in Requests : ResetCheck(r, k)
  \/ Tick

Spec == Init /\ [][Next]_vars

-------------------------------------------------------------------------------
(* Properties *)

\* Types, and the local variables: a refresh that goes on knows its token, a
\* reset that goes on knows the row it was allowed to use.
TypeOK ==
  /\ session \in [Seconds -> {"none", "live", "revoked"}]
  /\ reset \in [Requests -> {"none", "unused", "used", "deleted"}]
  /\ madeAt \in [Requests -> Nat]
  /\ password \in Nat
  /\ pc \in [Requests -> Steps]
  /\ held \in [Requests -> Seconds \cup {NoToken}]
  /\ using \in [Requests -> Requests \cup {NoToken}]
  /\ now \in Seconds
  /\ parent \in [Seconds -> Seconds \cup {NoToken}]
  /\ bornAt \in [Seconds -> Nat]
  /\ applied \in [Requests -> Nat]
  /\ swept \in [Requests -> SUBSET Requests]
  /\ \A r \in Requests :
       /\ pc[r] = "new" => held[r] = NoToken
       /\ pc[r] = "revoke" => held[r] \in Seconds
       /\ pc[r] = "apply" => using[r] \in Requests

\* Rotation: a session that a refresh opened never coexists with the token it
\* was exchanged for, however refreshes, logouts and resets interleave.
ParentIsRevoked ==
  \A t \in Seconds : parent[t] \in Seconds => session[parent[t]] = "revoked"

\* A reset signs the account out everywhere: each live session was issued after
\* the password it lives under was set (lines 216-236 are one transaction).
LiveSessionsAreFresh ==
  \A t \in Seconds : session[t] = "live" => bornAt[t] = password

\* A password is replaced only together with its token: a token that a
\* forgotPassword deleted between the check of line 209 and the transaction
\* replaces nothing.
AppliedMeansUsed ==
  \A k \in Requests : applied[k] > 0 => reset[k] = "used"

\* No token that a forgotPassword found when it made its own is unused since.
\* Two tokens are valid at once only if neither call found the other's row: if
\* both deleted before either created (lines 1075-1089).
ForgotSupersedes ==
  \A r \in Requests : \A k \in swept[r] : reset[k] # "unused"

\* k was used or deleted, and no reset that read it unused is under way
Spent(k) ==
  /\ reset[k] \in {"used", "deleted"}
  /\ \A r \in Requests : ~(using[r] = k /\ pc[r] = "apply")

\* Found by a forgotPassword before it had replaced anything
Disarmed(k) == applied[k] = 0 /\ \E r \in Requests : k \in swept[r]

\* How a reset token ends. It replaces the password only as it is marked used;
\* once spent it replaces nothing more; and one that a forgotPassword found
\* before its first replacement never makes one, though a reset had read it by
\* then. (A used token in the hands of a second reset does replace the password
\* again, before a later forgotPassword and after it: ResetTokenIsOneTime.)
ResetTokensSettle ==
  /\ [](AppliedMeansUsed /\ ForgotSupersedes)
  /\ [][\A k \in Requests :
          /\ Spent(k) => Spent(k)' /\ applied'[k] = applied[k]
          /\ Disarmed(k) => Disarmed(k)']_vars

\* t is revoked and no refresh that accepted it is still under way
Retired(t) ==
  /\ session[t] = "revoked"
  /\ \A r \in Requests : ~(held[r] = t /\ pc[r] \in {"revoke", "issue"})

Children(t) == {u \in Seconds : parent[u] = t}

\* A token that was exchanged, logged out or swept away by a reset opens no
\* session any more, except through refreshes that had already accepted it.
RetiredIsFinal ==
  [][\A t \in Seconds : Retired(t) => Retired(t)' /\ Children(t)' = Children(t)]_vars

\* docs/database-schema-and-tech-stack.md:25: "one-time password reset tokens".
ResetTokenIsOneTime == \A k \in Requests : applied[k] <= 1
===============================================================================
