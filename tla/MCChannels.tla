------------------------------ MODULE MCChannels ------------------------------
(* Small instances of Channels for TLC. *)
EXTENDS Channels, TLC

Symmetry == Permutations(Requests) \cup Permutations(ChannelIds) \cup Permutations(Founders)
===============================================================================
