-------------------------- MODULE MCRulePackCache --------------------------
(* Small instances of RulePackCache: constants only. *)
EXTENDS RulePackCache

CONSTANTS p1, p2

Latest == [pin |-> 0, override |-> 0, net |-> TRUE]
Pinned(v) == [pin |-> v, override |-> 0, net |-> TRUE]
File(v, pin) == [pin |-> pin, override |-> v, net |-> TRUE]

\* An older build that wants the latest pack beside a newer one that also pins.
SharedRequests ==
    [p \in Procs |-> IF p = p1 THEN {Latest} ELSE {Latest, Pinned(1), File(2, 1)}]

MixedEngines == [p \in Procs |-> IF p = p1 THEN {1} ELSE Versions]
=============================================================================
