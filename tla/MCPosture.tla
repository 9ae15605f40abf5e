----------------------------- MODULE MCPosture -----------------------------
(* A small instance of Posture: every kind of resource, two resources of it. *)
EXTENDS Posture, FiniteSets

CONSTANTS us, eu, mine, theirs

AllKinds == DOMAIN Steps
\* One statement that allows somebody, alone or beside one that denies somebody.
Root(a) == [account |-> a, who |-> "root"]
RoleOf(a) == [account |-> a, who |-> "role"]
Who == {{Anyone}, {Root(mine)}, {Root(theirs)}, {RoleOf(theirs)}}
\* An Allow with at most one condition, a Deny with at most two.
Says(e, most) ==
    {[effect |-> e, assume |-> TRUE, aws |-> w, others |-> FALSE, conds |-> cs] :
       w \in Who, cs \in {c \in SUBSET Conditions : Cardinality(c) <= most}}
SomePolicies ==
    {<<a>> : a \in Says("Allow", 1)}
      \cup {<<a, d>> : a \in Says("Allow", 1), d \in Says("Deny", 2)}
=============================================================================
