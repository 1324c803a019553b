---------------------------- MODULE MCFeedSchedule ----------------------------
(* Two feeds with defaults of one and two units of time. *)
EXTENDS FeedSchedule

CONSTANTS gas, storage

MCFeedOrder == <<gas, storage>>
MCDefault == [p \in {gas, storage} |-> IF p = gas THEN 1 ELSE 2]
=============================================================================
