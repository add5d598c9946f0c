-------------------------- MODULE EmailVerification --------------------------
(***************************************************************************)
(* The links that verify the address of one account. Registration answers  *)
(* before the link is made; a resend deletes the unused links, answers,    *)
(* and makes a new one in the background. One action is one round trip,    *)
(* or the transaction of verifyEmail.                                      *)
(***************************************************************************)
EXTENDS Integers, FiniteSets

CONSTANTS
  Resends,   \* calls of resendVerification
  Verifies,  \* calls of verifyEmail: the page makes one when it is opened
  Register,  \* the call of register
  MaxTime,   \* the clock stops here
  Life,      \* of a link: 24 hours
  NoLink

Links    == Resends \cup {Register}  \* by the call that makes them
Handlers == Links \cup Verifies

VerificationAssumption ==
  /\ Register \notin Resends /\ Links \cap Verifies = {} /\ NoLink \notin Links
  /\ MaxTime \in Nat /\ Life \in Nat \ {0}

VARIABLES
  verified,  \* emailVerifiedAt
  link,      \* EmailVerificationToken rows: "none", "unused", "used", "deleted"
  madeAt,    \* expiresAt - Life
  mailbox,   \* links that reached the user
  pc,        \* the next round trip of a call, or of what it left behind
  using,     \* the link of a verifyEmail
  now,
  \* history
  pending    \* the calls whose link was on its way when a resend deleted the others

vars == <<verified, link, madeAt, mailbox, pc, using, now, pending>>

Init ==
  /\ verified = FALSE /\ now = 0
  /\ link = [l \in Links |-> "none"] /\ madeAt = [l \in Links |-> 0] /\ mailbox = {}
  /\ pc = [r \in Handlers |-> IF r = Register THEN "create" ELSE "new"]
  /\ using = [v \in Verifies |-> NoLink]
  /\ pending = [r \in Links |-> {}]

Goto(r, step) == pc' = [pc EXCEPT ![r] = step]

-------------------------------------------------------------------------------
(* Plausible mistakes: not part of the system. *)

\* earlier links stay valid
SweepNothing(r) ==
  /\ pc[r] = "sweep" /\ Goto(r, "create")
  /\ pending' = [pending EXCEPT ![r] = {s \in Links \ {r} : pc[s] = "create"}]
  /\ UNCHANGED <<verified, link, madeAt, mailbox, using, now>>

\* no transaction: the account is verified before the link is missed
VerifyOutsideTransaction(v) ==
  /\ pc[v] = "apply" /\ verified' = TRUE
  /\ IF link[using[v]] = "deleted"
     THEN Goto(v, "failed") /\ link' = link
     ELSE Goto(v, "ok") /\ link' = [link EXCEPT ![using[v]] = "used"]
  /\ UNCHANGED <<madeAt, mailbox, using, now, pending>>

-------------------------------------------------------------------------------
(* resendVerification *)

ResendRead(r) ==
  /\ r \in Resends /\ pc[r] = "new"
  /\ Goto(r, IF verified THEN "done" ELSE "sweep")
  /\ UNCHANGED <<verified, link, madeAt, mailbox, using, now, pending>>

\* deleteMany where usedAt is null; the caller has his answer after it
Sweep(r) ==
  /\ pc[r] = "sweep" /\ Goto(r, "create")
  /\ link' = [l \in Links |-> IF link[l] = "unused" THEN "deleted" ELSE link[l]]
  /\ pending' = [pending EXCEPT ![r] = {s \in Links \ {r} : pc[s] = "create"}]
  /\ UNCHANGED <<verified, madeAt, mailbox, using, now>>

-------------------------------------------------------------------------------
(* sendVerificationEmail, which nobody waits for: a failure is only logged *)

Create(r) ==
  /\ pc[r] = "create" /\ Goto(r, "mail")
  /\ link' = [link EXCEPT ![r] = "unused"] /\ madeAt' = [madeAt EXCEPT ![r] = now]
  /\ UNCHANGED <<verified, mailbox, using, now, pending>>

\* EmailDeliveryService.send
Mail(r) ==
  /\ pc[r] = "mail" /\ Goto(r, "done")
  /\ mailbox' = mailbox \cup {r}
  /\ UNCHANGED <<verified, link, madeAt, using, now, pending>>

Dispatch(r) == Create(r) \/ Mail(r)

\* the database, the provider or the process fails
DispatchFails(r) ==
  /\ pc[r] \in {"create", "mail"} /\ Goto(r, "failed")
  /\ UNCHANGED <<verified, link, madeAt, mailbox, using, now, pending>>

-------------------------------------------------------------------------------
(* verifyEmail *)

VerifyRead(v, l) ==
  /\ v \in Verifies /\ pc[v] = "new" /\ l \in mailbox
  /\ using' = [using EXCEPT ![v] = l]
  /\ Goto(v, IF link[l] = "unused" /\ now < madeAt[l] + Life THEN "apply" ELSE "failed")
  /\ UNCHANGED <<verified, link, madeAt, mailbox, now, pending>>

\* the transaction: without the row of the link nothing is written
VerifyApply(v) ==
  /\ pc[v] = "apply"
  /\ IF link[using[v]] = "deleted"
     THEN Goto(v, "failed") /\ UNCHANGED <<verified, link>>
     ELSE /\ Goto(v, "ok") /\ verified' = TRUE
          /\ link' = [link EXCEPT ![using[v]] = "used"]
  /\ UNCHANGED <<madeAt, mailbox, using, now, pending>>

Tick ==
  /\ now < MaxTime /\ now' = now + 1
  /\ UNCHANGED <<verified, link, madeAt, mailbox, pc, using, pending>>

-------------------------------------------------------------------------------
Next ==
  \/ \E r \in Links : ResendRead(r) \/ Sweep(r) \/ Dispatch(r) \/ DispatchFails(r)
  \/ \E v \in Verifies : VerifyApply(v) \/ \E l \in Links : VerifyRead(v, l)
  \/ Tick

Spec == Init /\ [][Next]_vars

-------------------------------------------------------------------------------
TypeOK ==
  /\ verified \in BOOLEAN /\ now \in 0..MaxTime
  /\ link \in [Links -> {"none", "unused", "used", "deleted"}]
  /\ madeAt \in [Links -> 0..MaxTime] /\ mailbox \subseteq Links
  /\ pc \in [Handlers -> {"new", "sweep", "create", "mail", "apply", "done", "ok", "failed"}]
  /\ using \in [Verifies -> Links \cup {NoLink}] /\ pending \in [Links -> SUBSET Links]

\* The account is verified exactly if one of the links the user received was
\* used up, and then a call was answered so, however many calls and resends
\* overlap (AU 241-272)
VerifiedByLink ==
  /\ verified <=> \E l \in mailbox : link[l] = "used"
  /\ \A v \in Verifies : pc[v] = "ok" => verified /\ link[using[v]] = "used"

\* A resend leaves one valid link, its own: a second one can only come from a
\* call that was already answered and whose link was still to be made (AU
\* 287-296, 55-58)
ResendSupersedes ==
  \A r, s \in Links : r # s /\ link[r] = "unused" /\ link[s] = "unused"
    => r \in pending[s] \/ s \in pending[r]

LinksAreTrue == VerifiedByLink /\ ResendSupersedes
=============================================================================
