---------------------------- MODULE MCSchedules ----------------------------
(* Instances of Schedules for TLC.                                         *)
EXTENDS Schedules

CONSTANTS r1, j1, j2

MCRoleOf == [j \in Jobs |-> r1]

Text  == [trigger |-> "at", tier |-> "instant"]
Daily == [trigger |-> "cron", tier |-> "soft"]
Every == [trigger |-> "interval", tier |-> "instant"]

\* One job takes every form; the other stands by, its time does not come.
MCForms   == [j \in Jobs |-> IF j = j1 THEN {Text, Daily, Every} ELSE {Text}]
MCAtTimes == [j \in Jobs |-> IF j = j1 THEN {1} ELSE {MaxTime + 1}]
MCMaxEdits == [j \in Jobs |-> IF j = j1 THEN 1 ELSE 0]
=============================================================================
