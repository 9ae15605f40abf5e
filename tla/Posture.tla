------------------------------- MODULE Posture -------------------------------
(***************************************************************************)
(* What the audit comes to believe about the resources of one cell: the    *)
(* native lister, the describer of every resource, the passes over the     *)
(* whole inventory and the severity floor (internal/audit/discover/aws,    *)
(* internal/audit/severity_floor.go).                                      *)
(*                                                                         *)
(* Every call to AWS is answered, answered with "there is none", or fails; *)
(* a resource may be gone by the time it is described.  "read" is history: *)
(* what AWS said of a field, whatever was written.                         *)
(***************************************************************************)
EXTENDS CrossRef, SeverityFloor

CONSTANTS Kinds,     \* the kinds of resources looked at
          Base,      \* the region the configuration came with
          Elsewhere, \* another region
          Items,     \* number of resources of the cell
          Policies   \* trust policies a role may have

ASSUME PostureAssumption ==
    /\ Kinds \subseteq DOMAIN Steps /\ Base # Elsewhere /\ Items \in Nat

VARIABLES
    kind, region, \* the cell
    lister,       \* "cc" or "native"
    phase,        \* "list", "enrich", "pass", "floor", "done"
    page,         \* items the lister has still to be given
    at,           \* next probe of the item being listed, or next step of the describer
    listed,       \* items returned
    missed,       \* missed[i]: fields of item i that a probe did not read
    cellErr,      \* the lister's error
    cur,          \* the item being described
    value,        \* its inputs: value[f]
    read,         \* history: what AWS said of f
    gone,         \* the item had been deleted when it was described
    itemErr,      \* the describer's error
    world,        \* the account around the item, and what discovery saw of it
    policy,       \* its trust policy
    about,        \* topics of a finding about it
    ranks         \* its severity, as the LLM gave it and as reported

listing == <<page, listed, missed, cellErr>>
item == <<cur, value, read, gone, itemErr>>
judged == <<world, policy, about, ranks>>
vars == <<kind, region, lister, phase, at, listing, item, judged>>

Regions == {Base, Elsewhere}
All == 1..Items
PassFields ==
    [key |-> {"is_unused"}, db |-> {"effectively_public"}, instance |-> {"subnet_is_public"},
     function |-> {"role_is_admin_equivalent"}, vpc |-> {"flow_logs_enabled"},
     account |-> {"trail_coverage"}]
Written(k) == Fields(k) \cup (IF k \in DOMAIN PassFields THEN PassFields[k] ELSE {})
Blank(k) == [f \in Written(k) |-> "unread"]
NoWorld == [seen |-> "nothing"]

Values == {"unread", "yes", "no", "unset", "omitted", "skipped"}

TypeOK ==
    /\ kind \in Kinds /\ region \in Regions /\ lister \in {"cc", "native"}
    /\ phase \in {"list", "enrich", "pass", "floor", "done"}
    /\ page \in 0..Items /\ at \in Nat \ {0} /\ listed \subseteq All /\ cellErr \in BOOLEAN
    /\ missed \in [All -> SUBSET {"location", "description", "point_in_time_recovery", "page",
                                  "reserved_concurrency_set", "logging",
                                  "policy_has_wildcard_allow"}]
    /\ cur \in 0..Items
    /\ value \in [Written(kind) -> Values]
    /\ read \in [Written(kind) -> {"unread", "yes", "no"}]
    /\ gone \in BOOLEAN /\ itemErr \in BOOLEAN
    /\ about \subseteq Topics /\ ranks \in [{"llm", "reported"} -> Ranks]

Init ==
    /\ kind \in Kinds /\ region \in Regions
    /\ kind \notin Unpinned \cup {"account"} => region = Base   \* the others do not tell
    /\ lister \in {"cc"} \cup {x \in {"native"} : kind \in Native}
    /\ phase = "list" /\ page = Items /\ at = 1
    /\ listed = {} /\ missed = [i \in All |-> {}] /\ cellErr = FALSE
    /\ cur = 0 /\ value = Blank(kind) /\ read = Blank(kind)
    /\ gone = FALSE /\ itemErr = FALSE
    /\ world = NoWorld /\ policy = <<>> /\ about = {}
    /\ ranks = [llm |-> 0, reported |-> 0]

-----------------------------------------------------------------------------
(* Listing.  CloudControl's answer is Discovery's subject: here it is complete.  *)

\* The lister is at item "page", counted down.
ListCC ==
    /\ phase = "list" /\ lister = "cc"
    /\ listed' = All /\ phase' = "enrich"
    /\ UNCHANGED <<kind, region, lister, page, at, missed, cellErr, item, judged>>

\* A failing page call ends every lister but the one of routes and integrations with
\* nothing; that one keeps what it has.
PageFails ==
    /\ phase = "list" /\ lister = "native" /\ page > 0 /\ at = 1
    /\ cellErr' = TRUE /\ phase' = "enrich"
    /\ listed' = IF kind = "route" THEN listed ELSE {}
    /\ UNCHANGED <<kind, region, lister, page, at, missed, item, judged>>

Ready == phase = "list" /\ lister = "native" /\ page > 0 /\ at <= Len(Probes[kind])
ThisProbe == Probes[kind][at]

ProbeReads ==
    /\ Ready /\ at' = at + 1
    /\ UNCHANGED <<kind, region, lister, phase, listing, item, judged>>

\* Mutant: a resource that could not be probed is left out without a word.
ProbeFails_Silent ==
    /\ Ready
    /\ CASE ThisProbe.fails \in {"first", "quiet"} ->
              /\ missed' = [missed EXCEPT ![page] = @ \cup {ThisProbe.field}]
              /\ at' = at + 1 /\ UNCHANGED <<page, listed, phase>>
         [] ThisProbe.fails = "drop" ->
              /\ page' = page - 1 /\ at' = 1 /\ UNCHANGED <<missed, listed, phase>>
         [] ThisProbe.fails = "fatal" ->
              /\ listed' = {} /\ phase' = "enrich" /\ at' = 1 /\ UNCHANGED <<missed, page>>
    /\ cellErr' = (cellErr \/ ThisProbe.fails \in {"first", "fatal"})
    /\ UNCHANGED <<kind, region, lister, item, judged>>

\* The item is kept without the field, or left out, or nothing of the type is listed.
ProbeFails ==
    /\ Ready
    /\ CASE ThisProbe.fails \in {"first", "quiet"} ->
              /\ missed' = [missed EXCEPT ![page] = @ \cup {ThisProbe.field}]
              /\ at' = at + 1 /\ UNCHANGED <<page, listed, phase>>
         [] ThisProbe.fails = "drop" ->
              /\ page' = page - 1 /\ at' = 1 /\ UNCHANGED <<missed, listed, phase>>
         [] ThisProbe.fails = "fatal" ->
              /\ listed' = {} /\ phase' = "enrich" /\ at' = 1 /\ UNCHANGED <<missed, page>>
    /\ cellErr' = (cellErr \/ ThisProbe.fails # "quiet")
    /\ UNCHANGED <<kind, region, lister, item, judged>>

KeepItem ==
    /\ phase = "list" /\ lister = "native" /\ page > 0 /\ at > Len(Probes[kind])
    /\ listed' = listed \cup {page} /\ page' = page - 1 /\ at' = 1
    /\ UNCHANGED <<kind, region, lister, phase, missed, cellErr, item, judged>>

Listed ==
    /\ phase = "list" /\ lister = "native" /\ page = 0
    /\ phase' = "enrich"
    /\ UNCHANGED <<kind, region, lister, at, listing, item, judged>>

-----------------------------------------------------------------------------
(* Enrich, one resource after the other. *)

\* Every resource is described by itself: the first of those listed stands for all.
StartItem ==
    /\ phase = "enrich" /\ cur = 0 /\ listed # {}
    /\ cur' = CHOOSE i \in listed : \A j \in listed : i <= j
    /\ at' = 1
    /\ UNCHANGED <<kind, region, lister, phase, listing, value, read, gone, itemErr, judged>>

Describing == phase = "enrich" /\ cur # 0 /\ at <= Len(Steps[kind])
Step == Steps[kind][at]
Applies(s) == s.when = {} \/ \E c \in s.when : value[c[1]] = c[2]

InPayload(f) == IF lister = "native" THEN f \notin missed[cur] /\ Carries(kind, f) ELSE TRUE

\* A client of the base region is asked about a resource of another.
WrongRegion == kind \in Unpinned /\ region # Base

Write(f, v) == value' = [value EXCEPT ![f] = v]
NextStep == at' = at + 1 /\ UNCHANGED phase
LeaveItem == phase' = "pass" /\ UNCHANGED at

SkipStep ==
    /\ Describing /\ ~Applies(Step)
    /\ value' = [value EXCEPT ![Step.field] = IF @ = "unread" THEN "skipped" ELSE @]
    /\ NextStep
    /\ UNCHANGED <<kind, region, lister, listing, cur, read, gone, itemErr, judged>>

Answered ==
    /\ Describing /\ Applies(Step) /\ ~WrongRegion
    /\ Step.payload => InPayload(Step.field)
    /\ \E a \in {"yes", "no"} :
         /\ read' = [read EXCEPT ![Step.field] = a]
         /\ Write(Step.field, IF a = "no" THEN Step.no ELSE "yes")
    /\ NextStep
    /\ UNCHANGED <<kind, region, lister, listing, cur, gone, itemErr, judged>>

\* The payload does not carry the field, because the lister could not read it.
NotInPayload ==
    /\ Describing /\ Applies(Step) /\ Step.payload /\ ~InPayload(Step.field)
    /\ Write(Step.field, Step.none)
    /\ NextStep
    /\ UNCHANGED <<kind, region, lister, listing, cur, read, gone, itemErr, judged>>

\* The service knows no such setting, which is the truth, or no such resource: it has
\* been deleted, or it lives in another region.
ThereIsNone ==
    /\ Describing /\ Applies(Step) /\ ~Step.payload
    /\ \/ ~WrongRegion /\ Step.none \in {"no", "unset"} /\ UNCHANGED gone
          /\ read' = [read EXCEPT ![Step.field] = "no"]
       \/ ~WrongRegion /\ gone' = TRUE /\ UNCHANGED read
       \/ WrongRegion /\ UNCHANGED <<gone, read>>
    /\ CASE Step.none \in {"no", "unset"} ->
              Write(Step.field, Step.none) /\ NextStep /\ UNCHANGED itemErr
         [] Step.none = "gone" -> LeaveItem /\ UNCHANGED <<value, itemErr>>
         [] Step.none = "fails" /\ Step.fails = "join" ->
              itemErr' = TRUE /\ NextStep /\ UNCHANGED value
         [] OTHER -> itemErr' = TRUE /\ LeaveItem /\ UNCHANGED value
    /\ UNCHANGED <<kind, region, lister, listing, cur, judged>>

\* Mutant: a denied call is taken for "there is none".
CallFails_AsNone ==
    /\ Describing /\ Applies(Step) /\ ~Step.payload
    /\ IF Step.none = "no" THEN Write(Step.field, "no") /\ NextStep /\ UNCHANGED itemErr
       ELSE itemErr' = TRUE /\ LeaveItem /\ UNCHANGED value
    /\ UNCHANGED <<kind, region, lister, listing, cur, read, gone, judged>>

\* Mutant: an error that does not end the enrichment is not kept.
CallFails_Forgets ==
    /\ Describing /\ Applies(Step) /\ ~Step.payload
    /\ itemErr' = (itemErr \/ Step.fails = "stop")
    /\ IF Step.fails = "stop" THEN LeaveItem ELSE NextStep
    /\ UNCHANGED <<kind, region, lister, listing, cur, value, read, gone, judged>>

CallFails ==
    /\ Describing /\ Applies(Step) /\ ~Step.payload
    /\ itemErr' = (itemErr \/ Step.fails # "quiet")
    /\ IF Step.fails = "stop" THEN LeaveItem ELSE NextStep
    /\ UNCHANGED <<kind, region, lister, listing, cur, value, read, gone, judged>>

\* Nothing was listed: the cell is done.
NothingListed ==
    /\ phase = "enrich" /\ cur = 0 /\ listed = {} /\ phase' = "done"
    /\ UNCHANGED <<kind, region, lister, at, listing, item, judged>>

Described ==
    /\ phase = "enrich" /\ cur # 0 /\ at > Len(Steps[kind])
    /\ LeaveItem
    /\ UNCHANGED <<kind, region, lister, listing, item, judged>>

-----------------------------------------------------------------------------
(* The passes over the inventory. *)

Concluded(w, f, v) ==
    /\ world' = w /\ Write(f, v)
    /\ phase' = "floor"
    /\ UNCHANGED <<kind, region, lister, at, listing, cur, read, gone, policy, about, ranks>>

CrossReferenceKMS ==
    /\ phase = "pass" /\ kind = "key"
    /\ \E w \in KeyWorlds :
         /\ read["key_manager_aws"] # "unread" => w.aws = (read["key_manager_aws"] = "yes")
         /\ Concluded(w, "is_unused", YesNo(IsUnused(w, value["key_manager_aws"])))
    /\ UNCHANGED itemErr

CrossReferenceNetwork ==
    /\ phase = "pass"
    /\ \E w \in SubnetWorlds :
         \/ /\ kind = "db"
            /\ LET pub == EffectivelyPublic(w, value["publicly_accessible"])
               IN  Concluded(w, "effectively_public", YesNo(pub))
         \/ /\ kind = "instance" /\ w.twin = "none" /\ "group" \notin w.lost
            /\ Concluded(w, "subnet_is_public", YesNo(SubnetRoutable(w)))
    /\ UNCHANGED itemErr

CrossReferenceLambdaRole ==
    /\ phase = "pass" /\ kind = "function"
    /\ \E w \in RoleWorlds : Concluded(w, "role_is_admin_equivalent", RoleFlag(w))
    /\ UNCHANGED itemErr

\* A region whose flow logs could not be read is in the posture's errors.
AnnotateFlowLogs ==
    /\ phase = "pass" /\ kind = "vpc"
    /\ \E w \in VpcWorlds :
         /\ Concluded(w, "flow_logs_enabled", FlowLogs(w))
         /\ itemErr' = (itemErr \/ ~w.read)

ComputeTrailCoverage ==
    /\ phase = "pass" /\ kind = "account"
    /\ \E ts \in TrailWorlds(Regions) :
         Concluded([trails |-> ts], "trail_coverage", YesNo(Covered(ts, region)))
    /\ UNCHANGED itemErr

NoPass ==
    /\ phase = "pass" /\ kind \notin DOMAIN PassFields
    /\ phase' = "floor"
    /\ UNCHANGED <<kind, region, lister, at, listing, item, judged>>

-----------------------------------------------------------------------------
(* A finding about the resource, and the floor. *)

RoleTexts == {{"trust", "org role"}, {"admin", "org role"}, {"admin"}, {"exec"}}

JudgeRole ==
    /\ phase = "floor" /\ kind = "role"
    /\ \E pol \in Policies, ts \in RoleTexts, llm \in {0, High} :
         LET known == value["assume_role_policy"] = "yes"
             floored == Floor("role", value, ts, llm)
             raised == IF known THEN TrustFloor(pol, ts, floored) ELSE floored
         IN  /\ policy' = pol /\ about' = ts
             /\ \E canonicalName \in BOOLEAN :
                  ranks' = [llm |-> llm,
                            reported |-> OrgRoleCap(pol, known /\ canonicalName, ts, raised)]
    /\ phase' = "done"
    /\ UNCHANGED <<kind, region, lister, at, listing, item, world>>

Judge ==
    /\ phase = "floor" /\ kind # "role"
    /\ \E t \in {f.topic : f \in InSeq(FactsOf(kind))} \cup {"exec"}, llm \in {0, High} :
         /\ about' = {t}
         /\ ranks' = [llm |-> llm, reported |-> Floor(kind, value, {t}, llm)]
    /\ phase' = "done"
    /\ UNCHANGED <<kind, region, lister, at, listing, item, world, policy>>

-----------------------------------------------------------------------------
Done == phase = "done" /\ UNCHANGED vars

Next ==
    \/ ListCC \/ PageFails \/ ProbeReads \/ ProbeFails \/ KeepItem \/ Listed
    \/ StartItem \/ NothingListed \/ SkipStep \/ Answered \/ NotInPayload \/ ThereIsNone
    \/ CallFails \/ Described
    \/ CrossReferenceKMS \/ CrossReferenceNetwork \/ CrossReferenceLambdaRole
    \/ AnnotateFlowLogs \/ ComputeTrailCoverage \/ NoPass
    \/ JudgeRole \/ Judge \/ Done

Spec == Init /\ [][Next]_vars

-----------------------------------------------------------------------------
(* Properties. *)

Examined == phase \in {"pass", "floor", "done"} /\ cur # 0

\* A native lister returns all there is of its type, or says that it could not
\* (lister_native.go): the sequence of its calls, whichever fail, does what Listing says.
Promise ==
    INSTANCE Listing WITH
        Things <- All, held <- All, over <- phase # "list",
        returned <- IF phase = "list" THEN {} ELSE listed,
        err <- IF phase = "list" THEN FALSE ELSE cellErr
ImplementsListing == Promise!Spec

\* "Absent" is never asserted of what was not read (describer_s3.go, describer_ecr.go: a
\* denied call must not look like a missing setting): behind a written "no" stands an
\* answer, a resource that is gone, or an error in the report.
AbsenceEarned ==
    \A f \in Fields(kind) :
      value[f] = "no" => read[f] = "no" \/ gone \/ itemErr \/ cellErr

\* Fields whose loss the code means to keep quiet.
KeptQuiet == {"creation_date"} \cup {f \in {"policy_has_wildcard_allow"} : kind = "policy"}

\* A field the report does not have was not applicable, belongs to a resource that is
\* gone, or stands with an error in the report: --diagnose can name the permission.
\* The describers of keys and snapshots ask the wrong region, and are told "none".
GapsReported ==
    Examined /\ ~WrongRegion =>
      \A f \in Fields(kind) \ KeptQuiet :
        value[f] \in {"unread", "unset"} /\ read[f] = "unread" => gone \/ itemErr \/ cellErr

\* A key is not called unused when a resource that was listed, of whatever kind and by
\* whichever lister, refers to it by its ARN or id, or by an alias that discovery resolves
\* to it; and a key of AWS is called unused only if asking for its manager failed with an
\* error in the report, was asked of the wrong region, or it was gone.  The comment of
\* isAWSManagedKMSKey (crossref_kms.go:193, "should NEVER be flagged as unused") knows no
\* such exception; a holder or an alias that was not discovered is the price that
\* crossReferenceKMS says it pays (crossref_kms.go:33).
UsedKept ==
    kind = "key" /\ world # NoWorld /\ value["is_unused"] = "yes" =>
      /\ world.listed => \A form \in world.refs : ~Resolves(world, form)
      /\ world.aws => itemErr \/ cellErr \/ gone \/ WrongRegion

\* No finding is raised on what was not read: every fact behind the floor is an answer of
\* AWS, or was copied from a role of which it is one; behind the raise of a role's trust is
\* the policy.  The one exception is the text about ECS exec, which raises any finding, and
\* to high at most (isECSExecWithoutLogging).
FloorOnEvidence ==
    ranks["reported"] > ranks["llm"] =>
      \/ "exec" \in about /\ ranks["reported"] = High
      \/ kind = "role" /\ read["assume_role_policy"] = "yes" /\ "trust" \in about
      \/ \E fact \in InSeq(FactsOf(kind)) :
           \A n \in fact.needs :
             \/ n[1] \in Fields(kind) /\ read[n[1]] = n[2]
             \/ n[1] = "role_is_admin_equivalent" /\ kind = "function"
                  /\ world.seen /\ world.flag = n[2]

\* A role that somebody of another account may assume without bringing an external id, an
\* organization or a source is never left below high by a finding about its trust
\* (isCrossAccountTrustWithoutExternalID), the canonical organization role excepted.  The
\* code counts a Deny that does not protect in two cases and in no other: it names somebody
\* else of that account, or has a further condition that may fail.
TrustSound ==
    phase = "done" /\ kind = "role" /\ "trust" \in about /\ read["assume_role_policy"] = "yes" =>
      \A p \in Principals :
        CrossAccount(p) /\ MayAssume(policy, p) /\ ~LooseDeny(policy, p) =>
          ranks["reported"] >= High \/ AccountRootOnly(policy)

\* The severity floor neither invents nor overlooks.
FloorJust == FloorOnEvidence /\ TrustSound
=============================================================================
