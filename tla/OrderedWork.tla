---------------------------- MODULE OrderedWork ----------------------------
(***************************************************************************)
(* What the execution of a task graph promises, whatever models answer and *)
(* however often a pulse dies: a step is done only when the steps it       *)
(* depends on are, and a step that is sent back takes everything that was  *)
(* built on it along.                                                      *)
(***************************************************************************)
CONSTANTS Work, Needs   \* the steps, and Needs[s]: the steps s depends on

VARIABLE done

Init == done = {}

Finish(s) == Needs[s] \subseteq done /\ done' = done \cup {s}

\* A set of steps that holds every step built on one of its members.
Closed(T) == \A s \in Work : Needs[s] \cap T # {} => s \in T

SendBack(T) == Closed(T) /\ done' = done \ T

Next == (\E s \in Work : Finish(s)) \/ (\E T \in SUBSET Work : SendBack(T))

Spec == Init /\ [][Next]_done
============================================================================
