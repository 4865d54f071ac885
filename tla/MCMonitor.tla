----------------------------- MODULE MCMonitor -----------------------------
(* MonitorGuest with three characters to print and ^S, ^Q twice on their way.     *)
EXTENDS MonitorGuest

MCCode == {"start", "open", "idle", "call", "tick", "emt"} \cup Output \cup KeyService
MCEntry == [s \in Sources |-> CASE s = MON -> "clear" [] s = KBD -> "take"
                                [] s = TIMER -> "tick" [] s = TRAP -> "emt"]
MCVectorPS == [s \in Sources |-> IF s = TRAP THEN 0 ELSE 7]
MCKeys == <<"^S", "^Q", "^S", "^Q">>
=============================================================================
