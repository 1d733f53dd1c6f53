---------------------------- MODULE MCReminders ----------------------------
(* Instances of Reminders.                                                   *)
EXTENDS Reminders, TLC

CONSTANTS r1, r2

OneReminder == {r1}
TwoReminders == {r1, r2}
SecondMuted == {r2}

CommonOps == {"create", "move", "complete", "remove"}
=============================================================================
