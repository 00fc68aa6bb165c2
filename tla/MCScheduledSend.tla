--------------------------- MODULE MCScheduledSend ---------------------------
(* Instances of ScheduledSend for TLC: the constants that are functions.   *)
EXTENDS ScheduledSend, TLC

CONSTANTS i1, i2, r1

OneRoom == [i \in Items |-> r1]
AllPlain == [i \in Items |-> "plain"]
PlainAndBadTime == [i \in Items |-> IF i = i1 THEN "plain" ELSE "bad_time"]
==============================================================================
