------------------------------ MODULE CrossRef ------------------------------
(***************************************************************************)
(* The passes of Discover over the whole inventory, after every cell has   *)
(* been listed: what they conclude about one resource from what was        *)
(* discovered of the others.  A "world" is the account around the resource *)
(* together with the part of it that discovery saw.                        *)
(***************************************************************************)
EXTENDS Naturals, Describers

Final(s) == s[Len(s)]
YesNo(b) == IF b THEN "yes" ELSE "no"

-----------------------------------------------------------------------------
(* crossReferenceKMS: a key, those who refer to it, and in which form.         *)

Forms == {"arn", "id", "alias"}
\* aliases: the alias resources of the name used, in the order of discovery, by what they
\* point at; the same name may exist in several regions.
AliasLists == {<<>>, <<"this">>, <<"other">>, <<"this", "other">>, <<"other", "this">>}
\* refs: how a resource of the kind "holder" refers to the key, or {} if nobody does;
\* listed: whether discovery saw that resource.
KeyWorlds ==
    [refs : {{}} \cup {{form} : form \in Forms}, holder : KeyHolders, listed : BOOLEAN,
     aliases : AliasLists, aws : BOOLEAN]
Seen(w) == IF w.listed /\ Carries(w.holder, "key") THEN w.refs ELSE {}

\* The maps are keyed by the bare name: the last alias of the name is the one found.
Resolves(w, form) ==
    form # "alias" \/ (w.aliases # <<>> /\ Final(w.aliases) = "this")

IsUnused(w, manager) ==
    (\A form \in Seen(w) : ~Resolves(w, form)) /\ manager # "yes"

-----------------------------------------------------------------------------
(* crossReferenceNetwork: a subnet, the route tables, and the subnet group of  *)
(* a database.                                                                 *)

\* assoc: what the subnet's own route table leads to, if it has one; main: whether the
\* VPC's main table leads to an internet gateway; lost: what was not discovered, at most
\* one thing; twin: a subnet group of the same name in another region, and whether that
\* one is routable.
Losses == {{}, {"subnet"}, {"group"}, {"assoc"}, {"main"}}
SubnetWorlds ==
    {w \in [map : BOOLEAN, assoc : {"none", "igw", "nat"}, main : BOOLEAN, lost : Losses,
            twin : {"none", "before", "after"}, twinRoutable : BOOLEAN] :
       w.twinRoutable => w.twin # "none"}

\* A subnet is routable by its own table, or by the main table if it has none.
SubnetRoutable(w) ==
    /\ "subnet" \notin w.lost
    /\ \/ w.map
       \/ IF w.assoc # "none" /\ "assoc" \notin w.lost THEN w.assoc = "igw"
          ELSE w.main /\ "main" \notin w.lost

\* The group is looked up by its name: the last of the name is the one found.
GroupRoutable(w) ==
    IF w.twin = "after" \/ (w.twin = "before" /\ "group" \in w.lost) THEN w.twinRoutable
    ELSE "group" \notin w.lost /\ SubnetRoutable(w)

EffectivelyPublic(w, publicly) == publicly = "yes" /\ GroupRoutable(w)

-----------------------------------------------------------------------------
(* crossReferenceLambdaRole: the flag of the role, if the role was found and   *)
(* carries one; annotateFlowLogs: a region whose records were not read is left *)
(* out; computeTrailCoverage: the home regions, or all.                        *)

RoleWorlds == [seen : BOOLEAN, flag : {"yes", "no", "unset"}]
RoleFlag(w) == IF w.seen THEN w.flag ELSE "unset"

VpcWorlds == [active : BOOLEAN, read : BOOLEAN]
FlowLogs(w) == IF ~w.read THEN "unset" ELSE YesNo(w.active)

Trails(Regions) == [home : Regions, multi : BOOLEAN]
TrailWorlds(Regions) == {{}} \cup {{t} : t \in Trails(Regions)}
Covered(trails, r) == \E t \in trails : t.multi \/ t.home = r
=============================================================================
