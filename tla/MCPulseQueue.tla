---------------------------- MODULE MCPulseQueue ----------------------------
(* PulseQueue for TLC: dependency graphs over the model-value tasks. *)
EXTENDS PulseQueue, TLC

CONSTANTS t1, t2

NoDeps == [t \in Tasks |-> {}]
Chain  == [t \in Tasks |-> IF t = t2 THEN {t1} ELSE {}]

Perms == Permutations(Pulses)
=============================================================================
