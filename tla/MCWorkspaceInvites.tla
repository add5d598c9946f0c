-------------------------- MODULE MCWorkspaceInvites --------------------------
(* Small instances of WorkspaceInvites for TLC. *)
EXTENDS WorkspaceInvites, TLC

CONSTANTS owner, ann, bob

\* a link for one member, and one for owners without a limit that admits one
\* address only
MixedTerms ==
  {[role |-> "MEMBER", maxUses |-> 1, recipients |-> {ann, bob}, life |-> 2],
   [role |-> "OWNER", maxUses |-> 0, recipients |-> {ann}, life |-> 1]}

Symmetry == Permutations(Requests)
===============================================================================
