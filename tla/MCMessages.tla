------------------------------ MODULE MCMessages ------------------------------
(* Small instances of Messages for TLC. *)
EXTENDS Messages, TLC

Symmetry == Permutations(Requests) \cup Permutations(ThreadIds)
              \cup Permutations(MessageIds) \cup Permutations(Channels)
===============================================================================
