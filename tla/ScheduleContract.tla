--------------------------- MODULE ScheduleContract ---------------------------
(***************************************************************************)
(* What a user is promised about a scheduled message, whatever the number  *)
(* of messaging-service replicas, their crashes and the cancellations that *)
(* race with them: a schedule that is armed either fires exactly once or   *)
(* is dropped, and neither fires nor comes back after that.                *)
(***************************************************************************)

CONSTANT Schedules  \* identities of ScheduledMessage rows

VARIABLES
  armed,      \* schedules that may still put a message in their channel
  delivered,  \* schedules that have put their message in the channel
  dropped     \* schedules that will never do so

vars == <<armed, delivered, dropped>>

Init ==
  /\ armed = {}
  /\ delivered = {}
  /\ dropped = {}

Arm(s) ==
  /\ s \notin armed \cup delivered \cup dropped
  /\ armed' = armed \cup {s}
  /\ UNCHANGED <<delivered, dropped>>

Fire(s) ==
  /\ s \in armed
  /\ armed' = armed \ {s}
  /\ delivered' = delivered \cup {s}
  /\ UNCHANGED dropped

Drop(s) ==
  /\ s \in armed
  /\ armed' = armed \ {s}
  /\ dropped' = dropped \cup {s}
  /\ UNCHANGED delivered

Next == \E s \in Schedules : Arm(s) \/ Fire(s) \/ Drop(s)

Spec == Init /\ [][Next]_vars
===============================================================================
