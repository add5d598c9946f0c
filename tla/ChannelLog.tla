----------------------------- MODULE ChannelLog -----------------------------
(***************************************************************************)
(* The ordering guarantee of a channel: its messages form a log that only  *)
(* grows at its end, and a request puts at most one message in it.         *)
(***************************************************************************)
EXTENDS Sequences

CONSTANTS Channels, Requests

VARIABLE log  \* the requests whose messages a channel holds, in order

Init == log = [c \in Channels |-> <<>>]

InLog(r) == \E c \in Channels : \E i \in DOMAIN log[c] : log[c][i] = r

Post(c, r) ==
  /\ ~InLog(r)
  /\ log' = [log EXCEPT ![c] = Append(@, r)]

Next == \E c \in Channels, r \in Requests : Post(c, r)

Spec == Init /\ [][Next]_log
===============================================================================
