---------------------------- MODULE MCDiscovery ----------------------------
(* Small instances of Discovery: constants only. *)
EXTENDS Discovery, TLC

CONSTANTS r1, r2, role, instance, snapshot, cluster

\* A global type with a service-linked entry, and the three other ways of listing.
KindOf == role :> "bare" @@ instance :> "fallback"
            @@ snapshot :> "custom" @@ cluster :> "uncurated"
OneRegionKind == [t \in {role, instance, snapshot, cluster} |-> KindOf[t]]
TwoRegionKind == [t \in {role, instance} |-> KindOf[t]]
ServiceLinked == {<<role, 1>>}
NoneManaged == {}
\* Roles and instances have both resources, the other two types one; or nothing but
\* the service-linked role and one of everything else.
OneRegionAccounts ==
    {{x \in Places : x[3] = 1 \/ x[2] \in {role, instance}}, {x \in Places : x[3] = 1}}
\* Nothing, or one resource somewhere; the service-linked role everywhere but in the first.
Spread == {<<Everywhere, role, 2>>, <<r1, instance, 1>>, <<r2, instance, 1>>}
SparseAccounts == {{}} \cup {{<<Everywhere, role, 1>>, x} : x \in Spread}
\* A role and an instance of the second region are created while the audit runs.
Meanwhile == {<<Everywhere, role, 2>>, <<r2, instance, 1>>}
R1 == <<r1>>
R1R2 == <<r1, r2>>
=============================================================================
