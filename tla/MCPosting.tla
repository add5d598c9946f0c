------------------------------ MODULE MCPosting ------------------------------
(* A small instance of Posting for TLC. *)
EXTENDS Posting, TLC

CONSTANTS c1, c2, r1, r2, r3

Call(source, channel, valid, files, mentions, notifies) ==
  [source |-> source, channel |-> channel, valid |-> valid,
   files |-> files, mentions |-> mentions, notifies |-> notifies]

Upload  == Call("send", c1, TRUE, TRUE, FALSE, FALSE)
Plain   == Call("send", c1, TRUE, FALSE, FALSE, FALSE)
Reply   == Call("reply", c1, TRUE, FALSE, TRUE, TRUE)
Command == Call("command", c1, TRUE, FALSE, FALSE, FALSE)
Bot     == Call("botSend", c1, TRUE, FALSE, FALSE, FALSE)
Other   == Call("botSend", c2, TRUE, FALSE, FALSE, FALSE)
Refused == Call("send", c2, FALSE, FALSE, FALSE, FALSE)

MixedPayloads == {Upload, Plain, Reply, Command, Bot, Other, Refused}

\* three calls at a time: every kind, and writers of both services on one channel
Mixes ==
  {<<Upload, Command, Bot>>, <<Reply, Plain, Other>>, <<Reply, Command, Refused>>,
   <<Plain, Plain, Bot>>, <<Plain, Bot, Bot>>}

MixedInit == Init /\ <<payload[r1], payload[r2], payload[r3]>> \in Mixes

MixedFairSpec == MixedInit /\ [][Next]_vars /\ \A r \in Requests : WF_vars(Serve(r))
===============================================================================
