---------------------------- MODULE MCScheduler ----------------------------
(* Scheduler for TLC: a chain of three steps beside a step of its own. *)
EXTENDS Scheduler

CONSTANTS s1, s2, s3, s4, m1, m2, phase2, freebuff

Graph == [s \in Steps |-> CASE s = s2 -> {s1} [] s = s3 -> {s2} [] OTHER -> {}]
Ranks == [s \in Steps |-> IF s = s4 THEN 2 ELSE 1]
Pool  == [m \in Models |-> IF m = m2 THEN freebuff ELSE phase2]
Lists == {Models, {m2}, {}}
Caps  == [p \in {phase2, freebuff} |-> 1]
=============================================================================
