---------------------------- MODULE Posture_proofs ----------------------------
(***************************************************************************)
(* What the audit believes of a resource is earned: theorems about Posture *)
(* for any number of items, any kinds, any trust policies and accounts.    *)
(* The tables of Describers enter by a few facts about every step of every *)
(* kind, proved from the tables themselves.                                *)
(***************************************************************************)
EXTENDS Posture, TLAPS, WellFoundedInduction

-----------------------------------------------------------------------------
(* The inductive invariant, on top of TypeOK. *)

\* Until an item is taken up nothing is known of one.
StartInv ==
    /\ cur = 0 => /\ phase \in {"list", "enrich", "done"}
                  /\ value = Blank(kind) /\ read = Blank(kind)
    /\ phase = "list" => cur = 0
    /\ lister = "native" => kind \in Native
    /\ phase # "done" => about = {} /\ ranks = [llm |-> 0, reported |-> 0]
    /\ cur # 0 => cur \in All

\* The lister counts down and skips nothing without an error.
ListInv ==
    phase = "list" /\ lister = "native" /\ ~cellErr => listed = {i \in All : i > page}

\* A field is missed only because a probe of it failed, which is an error of the cell, or
\* is the policy document.
MissedInv ==
    \A i \in All : \A f \in missed[i] :
      /\ lister = "native" /\ kind \notin {"volume", "instance"}   \* these have no probes
      /\ cellErr \/ (kind = "policy" /\ f = "policy_has_wildcard_allow")

\* What is written was said, or something stands beside it.
Excuse == gone \/ itemErr \/ cellErr
YesInv == \A f \in Fields(kind) : value[f] = "yes" => read[f] = "yes"
NoInv ==
    \A f \in Fields(kind) :
      value[f] \in {"no", "unset", "omitted"} =>
        read[f] = "no" \/ Excuse \/ (value[f] = "unset" /\ f \in KeptQuiet)
\* Fields that are never written unread.
Solid(k) ==
    {f \in Fields(k) : \E fact \in InSeq(FactsOf(k)) : <<f, "no">> \in fact.needs}
SolidInv == \A f \in Solid(kind) : value[f] = "no" => read[f] = "no"
LeadInv ==
    \A f \in Fields(kind) \cap {"key_manager_aws", "assume_role_policy"} :
      (read[f] = "yes" => value[f] = "yes") /\ value[f] # "skipped"

\* A gap is a field that is neither written nor read.
Gap(f) == value[f] \in {"unread", "unset"} /\ read[f] = "unread"
GapInv ==
    cur # 0 /\ ~WrongRegion /\ ~Excuse =>
      \A j \in DOMAIN Steps[kind] : phase # "enrich" \/ j < at =>
        Steps[kind][j].field \in KeptQuiet \/ ~Gap(Steps[kind][j].field)

\* What the passes concluded, from which world.
KeyPass ==
    /\ world \in KeyWorlds
    /\ read["key_manager_aws"] # "unread" => (world.aws <=> read["key_manager_aws"] = "yes")
    /\ value["is_unused"] = YesNo(IsUnused(world, value["key_manager_aws"]))
SubnetPass ==
    /\ world \in SubnetWorlds
    /\ kind = "db" => value["effectively_public"]
                        = YesNo(EffectivelyPublic(world, value["publicly_accessible"]))
    /\ kind = "instance" => value["subnet_is_public"] = YesNo(SubnetRoutable(world))
RolePass == world \in RoleWorlds /\ value["role_is_admin_equivalent"] = RoleFlag(world)
Passed == phase = "floor" \/ (phase = "done" /\ cur # 0)
PassInv ==
    /\ ~Passed => world = NoWorld
    /\ Passed => /\ kind = "key" => KeyPass
                 /\ kind \in {"db", "instance"} => SubnetPass
                 /\ kind = "function" => RolePass

Inv == /\ StartInv /\ ListInv /\ MissedInv /\ YesInv /\ NoInv /\ SolidInv /\ LeadInv
       /\ GapInv /\ PassInv /\ FloorOnEvidence /\ TrustSound
-----------------------------------------------------------------------------
(* The tables: the constructors of a step. *)

StepFields == {"field", "payload", "fails", "none", "no", "when"}

LEMMA CallIs ==
  ASSUME NEW f, NEW n
  PROVE  LET s == Call(f, n)
         IN  /\ DOMAIN s = StepFields /\ s.field = f /\ ~s.payload /\ s.fails = "stop"
             /\ s.none = n /\ s.no = "no" /\ s.when = {}
  BY DEF Call, StepFields

LEMMA PayloadIs ==
  ASSUME NEW f, NEW n
  PROVE  LET s == Payload(f, n)
         IN  /\ DOMAIN s = StepFields /\ s.field = f /\ s.payload /\ s.fails = "stop"
             /\ s.none = n /\ s.no = "no"
  BY DEF Call, Payload, StepFields

LEMMA JoinedIs ==
  ASSUME NEW t, DOMAIN t = StepFields
  PROVE  LET s == Joined(t)
         IN  /\ DOMAIN s = StepFields /\ s.field = t.field /\ s.payload = t.payload
             /\ s.fails = "join" /\ s.none = t.none /\ s.no = t.no
  BY DEF Joined, StepFields

LEMMA QuietlyIs ==
  ASSUME NEW t, DOMAIN t = StepFields
  PROVE  LET s == Quietly(t)
         IN  /\ DOMAIN s = StepFields /\ s.field = t.field /\ s.payload = t.payload
             /\ s.fails = "quiet" /\ s.none = t.none /\ s.no = t.no
  BY DEF Quietly, StepFields

LEMMA OnlyYesIs ==
  ASSUME NEW t, DOMAIN t = StepFields
  PROVE  LET s == OnlyYes(t)
         IN  /\ DOMAIN s = StepFields /\ s.field = t.field /\ s.payload = t.payload
             /\ s.fails = t.fails /\ s.none = t.none /\ s.no = "omitted"
  BY DEF OnlyYes, StepFields

LEMMA WhenIs ==
  ASSUME NEW t, NEW f, NEW v, DOMAIN t = StepFields
  PROVE  LET s == When(f, v, t)
         IN  /\ DOMAIN s = StepFields /\ s.field = t.field /\ s.payload = t.payload
             /\ s.fails = t.fails /\ s.none = t.none /\ s.no = t.no
  BY DEF When, StepFields

-----------------------------------------------------------------------------
(* The tables: kind by kind. *)

LEMMA StepKinds ==
  DOMAIN Steps =
    {"bucket", "role", "user", "group", "policy", "db", "dbcluster", "function", "api",
     "instance", "volume", "address", "snapshot", "key", "securitygroup", "repository",
     "vault", "plan", "workgroup", "ecscluster", "loadbalancer", "eks", "account", "table",
     "secret", "distribution", "route", "integration", "listener", "service", "taskdef",
     "trail", "vpc"}
  BY DEF Steps

LEMMA NativeKinds ==
  Native =
    {"bucket", "table", "function", "distribution", "policy", "route", "integration",
     "listener", "service", "taskdef", "eks", "db", "dbcluster", "secret", "vault", "plan",
     "repository", "api", "instance", "volume", "snapshot"}
  BY DEF Native, Probes

LEMMA RawKinds ==
  DOMAIN Raw = {"function", "instance", "volume", "db", "dbcluster", "policy", "eks", "table",
                "secret", "repository", "vault", "snapshot"}
  BY DEF Raw

LEMMA RawIs ==
  /\ Raw["function"] = FunctionRaw /\ Raw["instance"] = InstanceRaw
  /\ Raw["volume"] = VolumeRaw /\ Raw["db"] = DBInstanceRaw
  /\ Raw["dbcluster"] = DBClusterRaw /\ Raw["policy"] = PolicyRaw
  /\ Raw["eks"] = EksRaw /\ Raw["table"] = TableRaw
  /\ Raw["secret"] = SecretRaw /\ Raw["repository"] = RepositoryRaw
  /\ Raw["vault"] = VaultRaw /\ Raw["snapshot"] = SnapshotRaw
  BY DEF Raw

LEMMA PassFieldsAre ==
  /\ DOMAIN PassFields = {"key", "db", "instance", "function", "vpc", "account"}
  /\ PassFields["key"] = {"is_unused"} /\ PassFields["db"] = {"effectively_public"}
  /\ PassFields["instance"] = {"subnet_is_public"}
  /\ PassFields["function"] = {"role_is_admin_equivalent"}
  /\ PassFields["vpc"] = {"flow_logs_enabled"} /\ PassFields["account"] = {"trail_coverage"}
  BY DEF PassFields

\* The fields on whose negative answer the floor relies, by kind.
SolidPairs ==
    {<<"bucket", "blocks_something">>, <<"db", "storage_encrypted">>,
     <<"dbcluster", "storage_encrypted">>, <<"volume", "encrypted">>,
     <<"instance", "imdsv2_required">>, <<"trail", "kms_key">>}

\* What the proofs need of a step of kind k, and of the steps of k.
StepRight(k, s) ==
    /\ s.none \in {"no", "unset", "gone", "fails"} /\ s.no \in {"no", "omitted"}
    /\ s.fails \in {"stop", "join", "quiet"}
    /\ s.fails = "quiet" => s.field = "creation_date"
    /\ s.payload => s.none \in {"no", "unset"} /\ Carries(k, s.field)
    /\ s.field \in {"key_manager_aws", "assume_role_policy"} =>
         ~s.payload /\ s.none = "gone" /\ s.when = {}
    /\ k \in Unpinned => ~s.payload /\ s.none = "gone"
    /\ k = "policy" => s.none = "unset"
    /\ k \in DOMAIN PassFields => s.field \notin PassFields[k]
    /\ <<k, s.field>> \in SolidPairs =>
         s.payload /\ (s.none # "no" \/ k \in {"volume", "instance", "trail"})
    /\ s.field = "blocks_something" => k = "bucket"
Right(k, steps) ==
    /\ Len(steps) \in Nat /\ DOMAIN steps = 1..Len(steps)
    /\ \A i \in DOMAIN steps : StepRight(k, steps[i])

LEMMA CarriesIs ==
  ASSUME NEW k, NEW f
  PROVE  Carries(k, f) <=> (k \in DOMAIN Raw => f \in Raw[k])
  BY DEF Carries

LEMMA RoleStepsRight == Right("role", RoleSteps)
  BY CallIs, OnlyYesIs, WhenIs, CarriesIs, RawKinds, RawIs, PassFieldsAre
     DEF RoleSteps, AdminAttached, InlinePolicies, Right, StepRight, Unpinned, SolidPairs

LEMMA UserStepsRight == Right("user", UserSteps)
  BY CallIs, OnlyYesIs, CarriesIs, RawKinds, RawIs, PassFieldsAre
     DEF UserSteps, AdminAttached, Right, StepRight, Unpinned, SolidPairs

LEMMA GroupStepsRight == Right("group", GroupSteps)
  BY CallIs, OnlyYesIs, CarriesIs, RawKinds, RawIs, PassFieldsAre
     DEF GroupSteps, Right, StepRight, Unpinned, SolidPairs

LEMMA ManagedPolicyStepsRight == Right("policy", ManagedPolicySteps)
  BY CallIs, PayloadIs, CarriesIs, RawKinds, RawIs, PassFieldsAre
     DEF ManagedPolicySteps, PolicyRaw, Right, StepRight, Unpinned, SolidPairs

LEMMA DBInstanceStepsRight == Right("db", DBInstanceSteps)
  BY CallIs, PayloadIs, CarriesIs, RawKinds, RawIs, PassFieldsAre
     DEF DBInstanceSteps, RDSCommon, InstanceRole, DBInstanceRaw, Right, StepRight, Unpinned,
         SolidPairs

LEMMA DBClusterStepsRight == Right("dbcluster", DBClusterSteps)
  BY CallIs, PayloadIs, CarriesIs, RawKinds, RawIs, PassFieldsAre
     DEF DBClusterSteps, RDSCommon, DBClusterRaw, Right, StepRight, Unpinned, SolidPairs

LEMMA FunctionStepsRight == Right("function", FunctionSteps)
  BY CallIs, PayloadIs, CarriesIs, RawKinds, RawIs, PassFieldsAre
     DEF FunctionSteps, EnvSecrets, FunctionRaw, Right, StepRight, Unpinned, SolidPairs

LEMMA ApiStepsRight == Right("api", ApiSteps)
  BY CallIs, CarriesIs, RawKinds, RawIs, PassFieldsAre
     DEF ApiSteps, Right, StepRight, Unpinned, SolidPairs

LEMMA Ec2InstanceStepsRight == Right("instance", Ec2InstanceSteps)
  BY CallIs, PayloadIs, CarriesIs, RawKinds, RawIs, PassFieldsAre
     DEF Ec2InstanceSteps, InstanceRaw, Right, StepRight, Unpinned, SolidPairs

LEMMA VolumeStepsRight == Right("volume", VolumeSteps)
  BY CallIs, PayloadIs, CarriesIs, RawKinds, RawIs, PassFieldsAre
     DEF VolumeSteps, VolumeRaw, Right, StepRight, Unpinned, SolidPairs

LEMMA AddressStepsRight == Right("address", AddressSteps)
  BY CallIs, PayloadIs, CarriesIs, RawKinds, RawIs, PassFieldsAre
     DEF AddressSteps, Right, StepRight, Unpinned, SolidPairs

LEMMA SnapshotStepsRight == Right("snapshot", SnapshotSteps)
  BY CallIs, CarriesIs, RawKinds, RawIs, PassFieldsAre
     DEF SnapshotSteps, SnapshotRaw, Right, StepRight, Unpinned, SolidPairs

LEMMA KeyStepsRight == Right("key", KeySteps)
  BY CallIs, CarriesIs, RawKinds, RawIs, PassFieldsAre
     DEF KeySteps, KeyManager, Right, StepRight, Unpinned, SolidPairs

LEMMA SecurityGroupStepsRight == Right("securitygroup", SecurityGroupSteps)
  BY CallIs, PayloadIs, CarriesIs, RawKinds, RawIs, PassFieldsAre
     DEF SecurityGroupSteps, Right, StepRight, Unpinned, SolidPairs

LEMMA RepositoryStepsRight == Right("repository", RepositorySteps)
  BY CallIs, PayloadIs, CarriesIs, RawKinds, RawIs, PassFieldsAre
     DEF RepositorySteps, RepositoryRaw, Right, StepRight, Unpinned, SolidPairs

LEMMA VaultStepsRight == Right("vault", VaultSteps)
  BY CallIs, JoinedIs, WhenIs, CarriesIs, RawKinds, RawIs, PassFieldsAre
     DEF VaultSteps, VaultKey, VaultPolicy, VaultRaw, Right, StepRight, Unpinned, SolidPairs

LEMMA PlanStepsRight == Right("plan", PlanSteps)
  BY CallIs, CarriesIs, RawKinds, RawIs, PassFieldsAre
     DEF PlanSteps, Right, StepRight, Unpinned, SolidPairs

LEMMA WorkGroupStepsRight == Right("workgroup", WorkGroupSteps)
  BY CallIs, PayloadIs, OnlyYesIs, CarriesIs, RawKinds, RawIs, PassFieldsAre
     DEF WorkGroupSteps, Right, StepRight, Unpinned, SolidPairs

LEMMA EcsClusterStepsRight == Right("ecscluster", EcsClusterSteps)
  BY CallIs, PayloadIs, CarriesIs, RawKinds, RawIs, PassFieldsAre
     DEF EcsClusterSteps, Right, StepRight, Unpinned, SolidPairs

LEMMA LoadBalancerStepsRight == Right("loadbalancer", LoadBalancerSteps)
  BY CallIs, PayloadIs, WhenIs, CarriesIs, RawKinds, RawIs, PassFieldsAre
     DEF LoadBalancerSteps, Right, StepRight, Unpinned, SolidPairs

LEMMA EksStepsRight == Right("eks", EksSteps)
  BY CallIs, PayloadIs, JoinedIs, WhenIs, CarriesIs, RawKinds, RawIs, PassFieldsAre
     DEF EksSteps, IRSA, PodIdentity, EksRaw, Right, StepRight, Unpinned, SolidPairs

LEMMA TableStepsRight == Right("table", TableSteps)
  BY CallIs, PayloadIs, CarriesIs, RawKinds, RawIs, PassFieldsAre
     DEF TableSteps, TableRaw, Right, StepRight, Unpinned, SolidPairs

LEMMA SecretStepsRight == Right("secret", SecretSteps)
  BY CallIs, PayloadIs, CarriesIs, RawKinds, RawIs, PassFieldsAre
     DEF SecretSteps, SecretRaw, Right, StepRight, Unpinned, SolidPairs

LEMMA DistributionStepsRight == Right("distribution", DistributionSteps)
  BY CallIs, PayloadIs, CarriesIs, RawKinds, RawIs, PassFieldsAre
     DEF DistributionSteps, Right, StepRight, Unpinned, SolidPairs

LEMMA RouteStepsRight == Right("route", RouteSteps)
  BY CallIs, PayloadIs, CarriesIs, RawKinds, RawIs, PassFieldsAre
     DEF RouteSteps, Right, StepRight, Unpinned, SolidPairs

LEMMA IntegrationStepsRight == Right("integration", IntegrationSteps)
  BY CallIs, PayloadIs, CarriesIs, RawKinds, RawIs, PassFieldsAre
     DEF IntegrationSteps, Right, StepRight, Unpinned, SolidPairs

LEMMA ListenerStepsRight == Right("listener", ListenerSteps)
  BY CallIs, PayloadIs, CarriesIs, RawKinds, RawIs, PassFieldsAre
     DEF ListenerSteps, Right, StepRight, Unpinned, SolidPairs

LEMMA ServiceStepsRight == Right("service", ServiceSteps)
  BY CallIs, PayloadIs, CarriesIs, RawKinds, RawIs, PassFieldsAre
     DEF ServiceSteps, Right, StepRight, Unpinned, SolidPairs

LEMMA TaskDefStepsRight == Right("taskdef", TaskDefSteps)
  BY CallIs, PayloadIs, CarriesIs, RawKinds, RawIs, PassFieldsAre
     DEF TaskDefSteps, Right, StepRight, Unpinned, SolidPairs

LEMMA TrailStepsRight == Right("trail", TrailSteps)
  BY CallIs, PayloadIs, CarriesIs, RawKinds, RawIs, PassFieldsAre
     DEF TrailSteps, Right, StepRight, Unpinned, SolidPairs
LEMMA Concat ==
  ASSUME NEW R, NEW s \in Seq(R), NEW t \in Seq(R) PROVE s \o t \in Seq(R)
  OBVIOUS

LEMMA RightFrom ==
  ASSUME NEW k, NEW R, NEW steps \in Seq(R), \A s \in R : StepRight(k, s) PROVE Right(k, steps)
  BY DEF Right

LEMMA BucketStepsRight == Right("bucket", BucketSteps)
<1> DEFINE Parts ==
             {Call("public_access_block", "no"),
              When("public_access_block", "yes", Payload("blocks_something", "unset")),
              Call("versioning", "unset"), Encryption, BucketPolicy,
              Call("lifecycle_present", "no"), Call("access_logging_enabled", "no"),
              Call("object_lock_enabled", "no"), Call("has_objects", "no"), CreationDate}
<1>1. BucketSettings \in Seq(Parts) /\ BucketUse \in Seq(Parts) /\ <<CreationDate>> \in Seq(Parts)
  BY DEF BucketSettings, PublicAccessBlock, BucketUse
<1>2. \A s \in Parts : StepRight("bucket", s)
  BY CallIs, PayloadIs, QuietlyIs, WhenIs, CarriesIs, RawKinds, PassFieldsAre
     DEF Encryption, BucketPolicy, CreationDate, StepRight, Unpinned, SolidPairs
<1> HIDE DEF Parts
<1>3. BucketSteps \in Seq(Parts)
  BY <1>1, Concat DEF BucketSteps
<1> QED
  BY <1>2, <1>3, RightFrom

LEMMA PostureStepsRight == Right("account", PostureSteps)
<1> DEFINE Parts ==
             {Joined(Call("ebs_encryption_by_default", "fails")), GlueCatalogPolicy,
              Joined(Call("guardduty_enabled", "fails")), Joined(Call("config_recorder", "fails")),
              Joined(Call("iam_summary", "fails")), Joined(Call("password_policy_present", "no")),
              CredentialReport}
<1>1. RegionProbes \in Seq(Parts) /\ IAMProbes \in Seq(Parts)
  BY DEF RegionProbes, IAMProbes
<1>2. \A s \in Parts : StepRight("account", s)
  BY CallIs, JoinedIs, OnlyYesIs, PassFieldsAre
     DEF GlueCatalogPolicy, CredentialReport, StepRight, Unpinned, SolidPairs
<1> HIDE DEF Parts
<1>3. PostureSteps \in Seq(Parts)
  BY <1>1, Concat DEF PostureSteps
<1> QED
  BY <1>2, <1>3, RightFrom

LEMMA StepsRight == \A k \in DOMAIN Steps : Right(k, Steps[k])
<1> SUFFICES ASSUME NEW k \in DOMAIN Steps PROVE Right(k, Steps[k])
  OBVIOUS
<1>1. CASE k \in {"bucket", "role", "user", "group", "policy", "db", "dbcluster", "function"}
  BY <1>1, BucketStepsRight, RoleStepsRight, UserStepsRight, GroupStepsRight,
     ManagedPolicyStepsRight, DBInstanceStepsRight, DBClusterStepsRight, FunctionStepsRight
     DEF Steps
<1>2. CASE k \in {"api", "instance", "volume", "address", "snapshot", "key", "securitygroup",
                  "repository"}
  BY <1>2, ApiStepsRight, Ec2InstanceStepsRight, VolumeStepsRight, AddressStepsRight,
     SnapshotStepsRight, KeyStepsRight, SecurityGroupStepsRight, RepositoryStepsRight
     DEF Steps
<1>3. CASE k \in {"vault", "plan", "workgroup", "ecscluster", "loadbalancer", "eks", "account",
                  "table"}
  BY <1>3, VaultStepsRight, PlanStepsRight, WorkGroupStepsRight, EcsClusterStepsRight,
     LoadBalancerStepsRight, EksStepsRight, PostureStepsRight, TableStepsRight
     DEF Steps
<1>4. CASE k \in {"secret", "distribution", "route", "integration", "listener", "service",
                  "taskdef", "trail"}
  BY <1>4, SecretStepsRight, DistributionStepsRight, RouteStepsRight, IntegrationStepsRight,
     ListenerStepsRight, ServiceStepsRight, TaskDefStepsRight, TrailStepsRight
     DEF Steps
<1>5. CASE k = "vpc"
  <2>1. Steps[k] = <<>>
    BY <1>5 DEF Steps
  <2> QED
    BY <2>1 DEF Right
<1> QED
  BY <1>1, <1>2, <1>3, <1>4, <1>5, StepKinds

\* What the proofs need of a probe of kind k, and of the probes of k.
MissedFields == {"location", "description", "point_in_time_recovery", "page",
                 "reserved_concurrency_set", "logging", "policy_has_wildcard_allow"}
ProbeRight(k, p) ==
    /\ p.fails \in {"first", "quiet", "drop", "fatal"} /\ p.field \in MissedFields
    /\ p.fails = "quiet" => k = "policy" /\ p.field = "policy_has_wildcard_allow"
    /\ k \notin {"volume", "instance"}

LEMMA ProbesRight ==
  \A k \in Native : /\ Len(Probes[k]) \in Nat /\ DOMAIN Probes[k] = 1..Len(Probes[k])
                    /\ \A i \in DOMAIN Probes[k] : ProbeRight(k, Probes[k][i])
<1> SUFFICES ASSUME NEW k \in Native
             PROVE  /\ Len(Probes[k]) \in Nat /\ DOMAIN Probes[k] = 1..Len(Probes[k])
                    /\ \A i \in DOMAIN Probes[k] : ProbeRight(k, Probes[k][i])
  OBVIOUS
<1>1. CASE k \in {"bucket", "table", "function", "distribution", "policy", "route"}
  BY <1>1 DEF Probes, BucketProbes, TableProbes, FunctionProbes, DistributionProbes,
     PolicyProbes, RouteProbes, Probe, ProbeRight, MissedFields
<1>2. CASE k \in {"integration", "listener", "service", "taskdef", "eks"}
  BY <1>2 DEF Probes, IntegrationProbes, ListenerProbes, ServiceProbes, TaskDefProbes,
     EksProbes, Probe, ProbeRight, MissedFields
<1>3. CASE k \in {"db", "dbcluster", "secret", "vault", "plan", "repository", "api", "instance",
                  "volume", "snapshot"}
  <2>1. Probes[k] = <<>>
    BY <1>3 DEF Probes
  <2> QED
    BY <2>1
<1> QED
  BY <1>1, <1>2, <1>3, NativeKinds

\* The facts behind the floor: what each needs to have been read.
AdminFields == {"role_is_admin_equivalent", "role_has_wildcard_inline_policy",
                "admin_managed_policy_attached", "inline_policy_has_wildcard_allow",
                "policy_has_wildcard_allow"}
NeededYes == AdminFields \cup {"public_access_block", "is_attached", "mutable_tags"}
FactRight(k, fact) ==
    /\ fact.topic \in Topics /\ fact.rank \in Ranks
    /\ \A n \in fact.needs :
         /\ n = <<n[1], n[2]>>
         /\ \/ n[2] = "yes" /\ n[1] \in NeededYes
            \/ n[2] = "no" /\ (n[1] = "blocks_something" \/ <<k, n[1]>> \in SolidPairs)

LEMMA FieldIs == ASSUME NEW k, NEW i \in DOMAIN Steps[k] PROVE Steps[k][i].field \in Fields(k)
  BY DEF Fields, InSeq

LEMMA FactIs ==
  ASSUME NEW f, NEW g, NEW r
  PROVE  /\ Fact(f, g, r).needs = f /\ Fact(f, g, r).topic = g /\ Fact(f, g, r).rank = r
  BY DEF Fact

LEMMA TopicsAndRanks ==
  /\ "admin" \in Topics /\ "encryption" \in Topics /\ "tags" \in Topics /\ "imds" \in Topics
  /\ "public access" \in Topics /\ "exec" \in Topics
  /\ High \in Ranks /\ Critical \in Ranks
<1>1. High \in Ranks /\ Critical \in Ranks
  BY DEF High, Critical, Ranks
<1> QED
  BY <1>1, Zenon DEF Topics

LEMMA TypedFacts ==
  /\ DOMAIN OfType = {"trail", "repository", "db", "dbcluster", "volume", "instance"}
  /\ OfType["trail"] = TrailWithoutKMS /\ OfType["repository"] = MutableTags
  /\ OfType["db"] = StorageUnencrypted /\ OfType["dbcluster"] = StorageUnencrypted
  /\ OfType["volume"] = AttachedUnencrypted /\ OfType["instance"] = IMDSv1Allowed
  BY DEF OfType

\* The facts of a kind are those of any kind and its own.
PossibleFacts(k) ==
    {AdminGrant(f) : f \in AdminFields} \cup {PublicAccessBlockOff}
      \cup {OfType[j] : j \in DOMAIN OfType \cap {k}}

LEMMA FactsAre == ASSUME NEW k PROVE FactsOf(k) \in Seq(PossibleFacts(k))
<1>1. OfAnyType \in Seq(PossibleFacts(k))
  <2>1. \A f \in AdminFields : AdminGrant(f) \in PossibleFacts(k)
    BY DEF PossibleFacts
  <2>2. PublicAccessBlockOff \in PossibleFacts(k)
    BY DEF PossibleFacts
  <2> QED
    BY <2>1, <2>2 DEF OfAnyType, AdminFields
<1>2. k \in DOMAIN OfType => OfType[k] \in PossibleFacts(k)
  BY DEF PossibleFacts
<1> QED
  BY <1>1, <1>2 DEF FactsOf

NeedRight(k, n) ==
    \/ n[2] = "yes" /\ n[1] \in NeededYes
    \/ n[2] = "no" /\ (n[1] = "blocks_something" \/ <<k, n[1]>> \in SolidPairs)

LEMMA RightFact ==
  ASSUME NEW k, NEW ns, NEW t \in Topics, NEW r \in Ranks, NEW fact, fact = Fact(ns, t, r),
         \A n \in ns : n = <<n[1], n[2]>> /\ NeedRight(k, n)
  PROVE  FactRight(k, fact)
<1>1. fact.needs = ns /\ fact.topic = t /\ fact.rank = r
  BY FactIs
<1> QED
  BY <1>1 DEF FactRight, NeedRight

LEMMA FactsRight ==
  ASSUME NEW k, NEW fact \in InSeq(FactsOf(k)) PROVE FactRight(k, fact)
<1>1. fact \in PossibleFacts(k)
  BY FactsAre DEF InSeq
<1>2. ASSUME NEW f \in AdminFields, fact = AdminGrant(f) PROVE FactRight(k, fact)
  <2>1. PICK ns : ns = {<<f, "yes">>}
    OBVIOUS
  <2>2. fact = Fact(ns, "admin", Critical)
    BY <1>2, <2>1, Zenon DEF AdminGrant
  <2>3. \A n \in ns : n = <<n[1], n[2]>> /\ NeedRight(k, n)
    BY <2>1 DEF NeedRight, NeededYes
  <2> QED
    BY <2>2, <2>3, TopicsAndRanks, RightFact
<1>3. CASE fact = PublicAccessBlockOff
  <2>1. PICK ns : ns = {<<"public_access_block", "yes">>, <<"blocks_something", "no">>}
    OBVIOUS
  <2>2. fact = Fact(ns, "public access", Critical)
    BY <1>3, <2>1, Zenon DEF PublicAccessBlockOff
  <2>3. \A n \in ns : n = <<n[1], n[2]>> /\ NeedRight(k, n)
    BY <2>1 DEF NeedRight, NeededYes
  <2> QED
    BY <2>2, <2>3, TopicsAndRanks, RightFact
<1>4. CASE k = "trail" /\ fact = TrailWithoutKMS
  <2>1. PICK ns : ns = {<<"kms_key", "no">>}
    OBVIOUS
  <2>2. fact = Fact(ns, "encryption", High)
    BY <1>4, <2>1, Zenon DEF TrailWithoutKMS, NoEncryption
  <2>3. \A n \in ns : n = <<n[1], n[2]>> /\ NeedRight(k, n)
    BY <1>4, <2>1 DEF NeedRight, SolidPairs
  <2> QED
    BY <2>2, <2>3, TopicsAndRanks, RightFact
<1>5. CASE k = "instance" /\ fact = IMDSv1Allowed
  <2>1. PICK ns : ns = {<<"imdsv2_required", "no">>}
    OBVIOUS
  <2>2. fact = Fact(ns, "imds", High)
    BY <1>5, <2>1, Zenon DEF IMDSv1Allowed
  <2>3. \A n \in ns : n = <<n[1], n[2]>> /\ NeedRight(k, n)
    BY <1>5, <2>1 DEF NeedRight, SolidPairs
  <2> QED
    BY <2>2, <2>3, TopicsAndRanks, RightFact
<1>6. CASE k = "repository" /\ fact = MutableTags
  <2>1. PICK ns : ns = {<<"mutable_tags", "yes">>}
    OBVIOUS
  <2>2. fact = Fact(ns, "tags", High)
    BY <1>6, <2>1, Zenon DEF MutableTags
  <2>3. \A n \in ns : n = <<n[1], n[2]>> /\ NeedRight(k, n)
    BY <2>1 DEF NeedRight, NeededYes
  <2> QED
    BY <2>2, <2>3, TopicsAndRanks, RightFact
<1>7. CASE k \in {"db", "dbcluster"} /\ fact = StorageUnencrypted
  <2>1. PICK ns : ns = {<<"storage_encrypted", "no">>}
    OBVIOUS
  <2>2. fact = Fact(ns, "encryption", High)
    BY <1>7, <2>1, Zenon DEF StorageUnencrypted, NoEncryption
  <2>3. \A n \in ns : n = <<n[1], n[2]>> /\ NeedRight(k, n)
    BY <1>7, <2>1 DEF NeedRight, SolidPairs
  <2> QED
    BY <2>2, <2>3, TopicsAndRanks, RightFact
<1>8. CASE k = "volume" /\ fact = AttachedUnencrypted
  <2>1. PICK ns : ns = {<<"encrypted", "no">>, <<"is_attached", "yes">>}
    OBVIOUS
  <2>2. fact = Fact(ns, "encryption", High)
    BY <1>8, <2>1, Zenon DEF AttachedUnencrypted, NoEncryption
  <2>3. \A n \in ns : n = <<n[1], n[2]>> /\ NeedRight(k, n)
    BY <1>8, <2>1 DEF NeedRight, SolidPairs, NeededYes
  <2> QED
    BY <2>2, <2>3, TopicsAndRanks, RightFact
<1> QED
  BY <1>1, <1>2, <1>3, <1>4, <1>5, <1>6, <1>7, <1>8, TypedFacts DEF PossibleFacts

\* A reference to a key is under a name that crossReferenceKMS knows, whoever holds it.
LEMMA HoldersCarry == \A h \in KeyHolders : Carries(h, "key")
  BY RawIs, RawKinds, CarriesIs
     DEF KeyHolders, FunctionRaw, VolumeRaw, DBInstanceRaw, DBClusterRaw, EksRaw, TableRaw,
         SecretRaw, RepositoryRaw, VaultRaw, SnapshotRaw

\* The fields that the describers of roles and keys read first.
LEMMA LeadFields ==
  "assume_role_policy" \in Fields("role") /\ "key_manager_aws" \in Fields("key")
<1>1. /\ 1 \in DOMAIN RoleSteps /\ RoleSteps[1].field = "assume_role_policy"
      /\ 1 \in DOMAIN KeySteps /\ KeySteps[1].field = "key_manager_aws"
  BY CallIs DEF RoleSteps, AdminAttached, InlinePolicies, KeySteps, KeyManager
<1>2. Steps["role"] = RoleSteps /\ Steps["key"] = KeySteps
  BY DEF Steps
<1> QED
  BY <1>1, <1>2, FieldIs

LEMMA PublicField == "publicly_accessible" \in Fields("db")
<1>1. 2 \in DOMAIN DBInstanceSteps /\ DBInstanceSteps[2].field = "publicly_accessible"
  BY PayloadIs DEF DBInstanceSteps, RDSCommon
<1>2. Steps["db"] = DBInstanceSteps
  BY DEF Steps
<1> QED
  BY <1>1, <1>2, FieldIs

\* No pass writes a field of a describer.
LEMMA PassFieldsApart ==
  ASSUME NEW k \in DOMAIN Steps, NEW f \in Fields(k)
  PROVE  k \in DOMAIN PassFields => f \notin PassFields[k]
<1>1. PICK i \in DOMAIN Steps[k] : f = Steps[k][i].field
  BY DEF Fields, InSeq
<1> QED
  BY <1>1, StepsRight DEF Right, StepRight

LEMMA SolidAre ==
  ASSUME NEW k \in DOMAIN Steps, NEW f \in Solid(k)
  PROVE  f \in Fields(k) /\ <<k, f>> \in SolidPairs
<1>1. PICK fact \in InSeq(FactsOf(k)) : <<f, "no">> \in fact.needs
  BY DEF Solid
<1>2. f = "blocks_something" \/ <<k, f>> \in SolidPairs
  <2>1. PICK n : n = <<f, "no">> /\ n \in fact.needs
    BY <1>1
  <2> QED
    BY <2>1, FactsRight DEF FactRight
<1>3. PICK i \in DOMAIN Steps[k] : f = Steps[k][i].field
  BY DEF Solid, Fields, InSeq
<1>4. f = "blocks_something" => k = "bucket"
  BY <1>3, StepsRight DEF Right, StepRight
<1> QED
  BY <1>2, <1>3, <1>4, FieldIs DEF SolidPairs

-----------------------------------------------------------------------------
(* Types. *)

LEMMA InitTyped == Init => TypeOK /\ Inv
<1> SUFFICES ASSUME Init PROVE TypeOK /\ Inv
  OBVIOUS
<1>1. kind \in Kinds /\ Items \in Nat
  BY PostureAssumption DEF Init
<1>2. value = [f \in Written(kind) |-> "unread"] /\ read = [f \in Written(kind) |-> "unread"]
  BY DEF Init, Blank
<1>3. \A f \in Fields(kind) : value[f] = "unread" /\ read[f] = "unread"
  BY <1>2 DEF Written
<1>4. ranks = [llm |-> 0, reported |-> 0] /\ ranks["llm"] = 0 /\ ranks["reported"] = 0
  BY DEF Init
<1>5. TypeOK
  <2>1. value \in [Written(kind) -> Values] /\ read \in [Written(kind) -> {"unread", "yes", "no"}]
    BY <1>2 DEF Values
  <2>2. ranks \in [{"llm", "reported"} -> Ranks]
    BY <1>4 DEF Ranks
  <2>3. lister \in {"cc", "native"} /\ page \in 0..Items /\ cur \in 0..Items /\ at \in Nat \ {0}
    BY <1>1 DEF Init
  <2>4. missed \in [All -> SUBSET MissedFields]
    BY DEF Init
  <2> QED
    BY <1>1, <2>1, <2>2, <2>3, <2>4 DEF Init, TypeOK, MissedFields
<1>6. StartInv /\ ListInv /\ MissedInv
  BY <1>1, <1>4 DEF Init, StartInv, ListInv, MissedInv, All
<1>7. YesInv /\ NoInv /\ SolidInv /\ LeadInv
  BY <1>3 DEF YesInv, NoInv, SolidInv, LeadInv, Solid
<1>8. GapInv /\ PassInv /\ FloorOnEvidence /\ TrustSound
  BY <1>4 DEF Init, GapInv, PassInv, Passed, FloorOnEvidence, TrustSound
<1> QED
  BY <1>5, <1>6, <1>7, <1>8 DEF Inv

\* The step at which the describer is.
LEMMA AtStep ==
  ASSUME TypeOK, Describing
  PROVE  /\ kind \in DOMAIN Steps /\ at \in DOMAIN Steps[kind] /\ StepRight(kind, Step)
         /\ Step.field \in Fields(kind) /\ Step.field \in Written(kind)
<1>1. kind \in DOMAIN Steps
  BY PostureAssumption DEF TypeOK
<1>2. at \in DOMAIN Steps[kind] /\ StepRight(kind, Step)
  BY <1>1, StepsRight DEF Right, TypeOK, Describing, Step
<1> QED
  BY <1>1, <1>2, FieldIs DEF Step, Written

\* What a describer writes and reads keeps its type.
LEMMA WritesTyped ==
  ASSUME TypeOK, NEW f \in Written(kind), NEW v \in Values, Write(f, v)
  PROVE  value' \in [Written(kind) -> Values]
  BY DEF TypeOK, Write

LEMMA ReadsTyped ==
  ASSUME TypeOK, NEW f \in Written(kind), NEW a \in {"yes", "no"},
         read' = [read EXCEPT ![f] = a]
  PROVE  read' \in [Written(kind) -> {"unread", "yes", "no"}]
  BY DEF TypeOK

-----------------------------------------------------------------------------
(* Listing. *)

Frame == UNCHANGED <<kind, region, lister, item, judged>>

\* Nothing is known of an item while the cell is listed.
LEMMA ListingKeeps ==
  ASSUME TypeOK, Inv, phase = "list", Frame, phase' \in {"list", "enrich"},
         ListInv', MissedInv'
  PROVE  Inv'
<1>1. cur = 0 /\ value = Blank(kind) /\ read = Blank(kind)
  BY DEF Inv, StartInv
<1>2. StartInv'
  BY <1>1 DEF Inv, StartInv, Frame, item, judged, Blank
<1>3. \A f \in Fields(kind) : value[f] = "unread" /\ read[f] = "unread"
  BY <1>1 DEF Blank, Written
<1>4. YesInv' /\ NoInv' /\ SolidInv' /\ LeadInv' /\ GapInv'
  BY <1>1, <1>3 DEF Frame, item, YesInv, NoInv, SolidInv, LeadInv, GapInv, Solid
<1>5. PassInv' /\ FloorOnEvidence' /\ TrustSound'
  BY <1>1 DEF Inv, StartInv, PassInv, Passed, FloorOnEvidence, TrustSound, Frame, item, judged
<1> QED
  BY <1>2, <1>4, <1>5 DEF Inv

LEMMA ListCCKeeps == ASSUME TypeOK, Inv, ListCC PROVE TypeOK' /\ Inv'
<1>1. Frame /\ phase = "list" /\ phase' \in {"list", "enrich"}
  BY DEF ListCC, Frame
<1>2. TypeOK'
  BY DEF ListCC, TypeOK, item, judged
<1>3. ListInv' /\ MissedInv'
  BY DEF ListCC, Inv, ListInv, MissedInv, KeptQuiet
<1> QED
  BY <1>1, <1>2, <1>3, ListingKeeps

LEMMA PageFailsKeeps == ASSUME TypeOK, Inv, PageFails PROVE TypeOK' /\ Inv'
<1>1. Frame /\ phase = "list" /\ phase' \in {"list", "enrich"}
  BY DEF PageFails, Frame
<1>2. TypeOK'
  BY DEF PageFails, TypeOK, item, judged
<1>3. ListInv' /\ MissedInv'
  BY DEF PageFails, Inv, ListInv, MissedInv
<1> QED
  BY <1>1, <1>2, <1>3, ListingKeeps

LEMMA ProbeReadsKeeps == ASSUME TypeOK, Inv, ProbeReads PROVE TypeOK' /\ Inv'
<1>1. Frame /\ phase = "list" /\ phase' \in {"list", "enrich"}
  BY DEF ProbeReads, Ready, Frame
<1>2. TypeOK'
  BY DEF ProbeReads, TypeOK, listing, item, judged
<1>3. ListInv' /\ MissedInv'
  BY DEF ProbeReads, Inv, ListInv, MissedInv, listing
<1> QED
  BY <1>1, <1>2, <1>3, ListingKeeps

LEMMA ProbeFailsKeeps == ASSUME TypeOK, Inv, ProbeFails PROVE TypeOK' /\ Inv'
<1> DEFINE p == ThisProbe
<1>1. /\ kind \in Native /\ lister = "native" /\ page \in 1..Items /\ phase = "list"
      /\ ProbeRight(kind, p)
  <2>1. lister = "native" /\ kind \in Native /\ at \in Nat \ {0} /\ at <= Len(Probes[kind])
    BY DEF ProbeFails, Ready, Inv, StartInv, TypeOK
  <2>2. at \in DOMAIN Probes[kind]
    BY <2>1, ProbesRight
  <2>3. page \in 1..Items /\ phase = "list"
    BY PostureAssumption DEF ProbeFails, Ready, TypeOK
  <2> QED
    BY <2>1, <2>2, <2>3, ProbesRight DEF ThisProbe
<1>2. Frame /\ UNCHANGED <<kind, region, lister, item, judged>>
  BY DEF ProbeFails, Frame
<1>3. cellErr' = (cellErr \/ p.fails # "quiet") /\ cellErr' \in BOOLEAN
  BY DEF ProbeFails, TypeOK
<1>4. CASE p.fails \in {"first", "quiet"}
  <2>1. /\ missed' = [missed EXCEPT ![page] = @ \cup {p.field}] /\ at' = at + 1
        /\ UNCHANGED <<page, listed, phase>>
    BY <1>4 DEF ProbeFails
  <2>2. missed' \in [All -> SUBSET MissedFields]
    BY <1>1, <2>1 DEF TypeOK, All, ProbeRight, MissedFields
  <2>3. TypeOK'
    BY <1>2, <1>3, <2>1, <2>2 DEF TypeOK, item, judged, MissedFields
  <2>4. ListInv'
    BY <1>2, <1>3, <2>1 DEF Inv, ListInv
  <2>5. ASSUME NEW i \in All, NEW f \in missed'[i]
        PROVE  /\ lister = "native" /\ kind \notin {"volume", "instance"}
               /\ cellErr' \/ (kind = "policy" /\ f = "policy_has_wildcard_allow")
    <3>1. CASE f \in missed[i]
      BY <1>3, <3>1 DEF Inv, MissedInv
    <3>2. CASE f = p.field
      BY <1>1, <1>3, <3>2 DEF ProbeRight
    <3> QED
      BY <2>1, <3>1, <3>2 DEF TypeOK
  <2>6. MissedInv'
    BY <1>2, <2>5 DEF MissedInv, All
  <2> QED
    BY <1>1, <1>2, <2>1, <2>3, <2>4, <2>6, ListingKeeps
<1>5. CASE p.fails = "drop"
  <2>1. page' = page - 1 /\ at' = 1 /\ UNCHANGED <<missed, listed, phase>>
    BY <1>5 DEF ProbeFails
  <2>2. TypeOK'
    BY <1>1, <1>2, <1>3, <2>1, PostureAssumption DEF TypeOK, item, judged
  <2>3. ListInv' /\ MissedInv'
    BY <1>2, <1>3, <1>5, <2>1 DEF Inv, ListInv, MissedInv
  <2> QED
    BY <1>1, <1>2, <2>1, <2>2, <2>3, ListingKeeps
<1>6. CASE p.fails = "fatal"
  <2>1. listed' = {} /\ phase' = "enrich" /\ at' = 1 /\ UNCHANGED <<missed, page>>
    BY <1>6 DEF ProbeFails
  <2>2. TypeOK'
    BY <1>2, <1>3, <2>1 DEF TypeOK, item, judged
  <2>3. ListInv' /\ MissedInv'
    BY <1>2, <1>3, <1>6, <2>1 DEF Inv, ListInv, MissedInv
  <2> QED
    BY <1>1, <1>2, <2>1, <2>2, <2>3, ListingKeeps
<1> QED
  BY <1>1, <1>4, <1>5, <1>6 DEF ProbeRight

LEMMA KeepItemKeeps == ASSUME TypeOK, Inv, KeepItem PROVE TypeOK' /\ Inv'
<1>1. Frame /\ phase = "list" /\ phase' \in {"list", "enrich"} /\ page \in 1..Items
  BY PostureAssumption DEF KeepItem, Frame, TypeOK
<1>2. TypeOK'
  BY <1>1, PostureAssumption DEF KeepItem, TypeOK, item, judged, All
<1>3. ListInv'
  BY <1>1, PostureAssumption DEF KeepItem, Inv, ListInv, All
<1>4. MissedInv'
  BY DEF KeepItem, Inv, MissedInv
<1> QED
  BY <1>1, <1>2, <1>3, <1>4, ListingKeeps

LEMMA ListedKeeps == ASSUME TypeOK, Inv, Listed PROVE TypeOK' /\ Inv'
<1>1. Frame /\ phase = "list" /\ phase' \in {"list", "enrich"}
  BY DEF Listed, Frame
<1>2. TypeOK'
  BY DEF Listed, TypeOK, listing, item, judged
<1>3. ListInv' /\ MissedInv'
  BY DEF Listed, Inv, ListInv, MissedInv, listing
<1> QED
  BY <1>1, <1>2, <1>3, ListingKeeps

-----------------------------------------------------------------------------
(* Describing. *)

\* The least element of a set of naturals.
LEMMA Least == ASSUME NEW T, T \subseteq Nat, T # {} PROVE \E x \in T : \A y \in T : ~(y < x)
<1> DEFINE Less == OpToRel(<, Nat)
<1>1. IsWellFoundedOn(Less, Nat)
  BY NatLessThanWellFounded
<1>2. PICK x \in T : \A y \in T : <<y, x>> \notin Less
  <2> HIDE DEF Less
  <2> QED
    BY <1>1, WFMin
<1>3. \A y \in T : ~(y < x)
  BY <1>2 DEF OpToRel
<1> QED
  BY <1>2, <1>3

\* Taking an item up, or finding none.
LEMMA StartItemKeeps == ASSUME TypeOK, Inv, StartItem PROVE TypeOK' /\ Inv'
<1>1. cur' \in listed /\ cur' \in All /\ cur' \in 0..Items /\ cur' # 0
  <2>1. listed # {} /\ listed \subseteq 1..Items
    BY DEF StartItem, TypeOK, All
  <2>2. PICK m \in listed : \A n \in listed : m <= n
    <3>1. listed \subseteq Nat
      BY <2>1, PostureAssumption
    <3>2. PICK m \in listed : \A n \in listed : ~(n < m)
      BY <2>1, <3>1, Least
    <3> QED
      BY <3>1, <3>2
  <2>3. cur' \in listed
    BY <2>2 DEF StartItem
  <2> QED
    BY <2>1, <2>3, PostureAssumption DEF All
<1>2. TypeOK'
  BY <1>1 DEF StartItem, TypeOK, listing, judged
<1>3. phase = "enrich" /\ phase' = "enrich" /\ at' = 1
      /\ UNCHANGED <<kind, region, lister, listing, value, read, gone, itemErr, judged>>
  BY DEF StartItem
<1>4. StartInv' /\ ListInv' /\ MissedInv'
  BY <1>1, <1>3 DEF Inv, StartInv, ListInv, MissedInv, listing, judged, All
<1>5. YesInv' /\ NoInv' /\ SolidInv' /\ LeadInv'
  BY <1>3 DEF Inv, YesInv, NoInv, SolidInv, LeadInv, Solid, Excuse, KeptQuiet, listing
<1>6. GapInv'
  <2>1. kind \in DOMAIN Steps
    BY PostureAssumption DEF TypeOK
  <2>2. \A j \in DOMAIN Steps[kind] : ~(j < 1)
    BY <2>1, StepsRight DEF Right
  <2> QED
    BY <1>3, <2>2 DEF GapInv
<1>7. PassInv' /\ FloorOnEvidence' /\ TrustSound'
  BY <1>3 DEF Inv, StartInv, PassInv, Passed, FloorOnEvidence, TrustSound, judged
<1> QED
  BY <1>2, <1>4, <1>5, <1>6, <1>7 DEF Inv

LEMMA NothingListedKeeps == ASSUME TypeOK, Inv, NothingListed PROVE TypeOK' /\ Inv'
<1>1. /\ phase = "enrich" /\ phase' = "done" /\ cur = 0
      /\ UNCHANGED <<kind, region, lister, at, listing, item, judged>>
  BY DEF NothingListed
<1>2. TypeOK'
  BY <1>1 DEF TypeOK, listing, item, judged
<1>3. about = {} /\ ranks = [llm |-> 0, reported |-> 0]
  BY <1>1 DEF Inv, StartInv
<1>4. StartInv' /\ ListInv' /\ MissedInv'
  BY <1>1, <1>3 DEF Inv, StartInv, ListInv, MissedInv, listing, item, judged
<1>5. YesInv' /\ NoInv' /\ SolidInv' /\ LeadInv' /\ GapInv'
  BY <1>1 DEF Inv, YesInv, NoInv, SolidInv, LeadInv, GapInv, Solid, Excuse, KeptQuiet,
     listing, item
<1>6. PassInv'
  BY <1>1 DEF Inv, PassInv, Passed, item, judged
<1>7. FloorOnEvidence' /\ TrustSound'
  BY <1>1, <1>3 DEF FloorOnEvidence, TrustSound, judged
<1> QED
  BY <1>2, <1>4, <1>5, <1>6, <1>7 DEF Inv

\* What a step of the describer leaves alone, and where it goes.
StepFrame ==
    /\ UNCHANGED <<kind, region, lister, listing, cur, judged>>
    /\ gone => gone'
    /\ itemErr => itemErr'
    /\ \/ at' = at + 1 /\ phase' = phase
       \/ at' = at /\ phase' = "pass" /\ (WrongRegion \/ Excuse')

\* What a step of the describer does to its own field.
Honest(f) ==
    /\ value[f] = "yes" => read[f] = "yes"
    /\ value[f] \in {"no", "unset", "omitted"} =>
         read[f] = "no" \/ Excuse \/ (value[f] = "unset" /\ f \in KeptQuiet)
    /\ f \in Solid(kind) /\ value[f] = "no" => read[f] = "no"
    /\ f \in {"key_manager_aws", "assume_role_policy"} =>
         (read[f] = "yes" => value[f] = "yes") /\ value[f] # "skipped"

\* A step that is honest about its own field, and leaves no gap there without an excuse,
\* preserves the invariant.
LEMMA StepKeeps ==
  ASSUME TypeOK, Inv, Describing, StepFrame, NEW f, f = Step.field,
         \A g \in Fields(kind) : g # f => value'[g] = value[g] /\ read'[g] = read[g],
         Honest(f)', ~WrongRegion => Excuse' \/ f \in KeptQuiet \/ ~Gap(f)'
  PROVE  Inv'
<1>1. /\ phase = "enrich" /\ cur # 0 /\ phase' \in {"enrich", "pass"}
      /\ UNCHANGED <<kind, region, lister, listing, cur, judged>>
  BY DEF Describing, StepFrame
<1>2. /\ kind \in DOMAIN Steps /\ f \in Fields(kind)
      /\ \A j \in DOMAIN Steps[kind] : j \in Nat /\ Steps[kind][j].field \in Fields(kind)
  BY AtStep, FieldIs, StepsRight DEF Right
<1>3. Excuse => Excuse'
  BY <1>1 DEF Excuse, StepFrame, listing
<1>4. StartInv' /\ ListInv' /\ MissedInv'
  BY <1>1 DEF Inv, StartInv, ListInv, MissedInv, listing, judged
<1>5. (Honest(f)') /\ (KeptQuiet' = KeptQuiet) /\ (Fields(kind)' = Fields(kind))
      /\ (Solid(kind)' = Solid(kind)) /\ (WrongRegion' = WrongRegion)
  BY <1>1 DEF KeptQuiet, Fields, Solid, WrongRegion
<1>6. YesInv'
  BY <1>5 DEF Inv, YesInv, Honest
<1>7. NoInv'
  BY <1>3, <1>5 DEF Inv, NoInv, Honest
<1>8. SolidInv'
  BY <1>5 DEF Inv, SolidInv, Honest, Solid
<1>9. LeadInv'
  BY <1>5 DEF Inv, LeadInv, Honest
<1>10. GapInv'
  <2> SUFFICES ASSUME ~WrongRegion, ~Excuse', NEW j \in DOMAIN Steps[kind],
                      phase' # "enrich" \/ j < at', NEW g, g = Steps[kind][j].field
               PROVE  g \in KeptQuiet \/ ~Gap(g)'
    BY <1>1, <1>5 DEF GapInv, Gap
  <2>1. at' = at + 1 /\ phase' = "enrich"
    BY <1>1 DEF StepFrame
  <2>2. CASE g # f
    <3>1. j < at
      BY <1>2, <2>1, <2>2 DEF TypeOK, Step
    <3> QED
      BY <1>1, <1>2, <1>3, <2>2, <3>1 DEF Inv, GapInv, Gap
  <2> QED
    BY <2>2
<1>11. PassInv' /\ FloorOnEvidence' /\ TrustSound'
  <2>1. about = {} /\ ranks = [llm |-> 0, reported |-> 0] /\ world = NoWorld
    BY <1>1 DEF Inv, StartInv, PassInv, Passed
  <2> QED
    BY <1>1, <2>1 DEF PassInv, Passed, FloorOnEvidence, TrustSound, judged
<1> QED
  BY <1>4, <1>6, <1>7, <1>8, <1>9, <1>10, <1>11 DEF Inv

LEMMA HonestNow == ASSUME Inv, NEW f \in Fields(kind) PROVE Honest(f)
  BY DEF Inv, YesInv, NoInv, SolidInv, LeadInv, Honest

\* The fields that a step does not write are as they were.
LEMMA Wrote ==
  ASSUME TypeOK, NEW f \in Written(kind), NEW v, Write(f, v)
  PROVE  value'[f] = v /\ \A g \in Fields(kind) : g # f => value'[g] = value[g]
  BY DEF TypeOK, Write, Written

LEMMA WasRead ==
  ASSUME TypeOK, NEW f \in Written(kind), NEW a, read' = [read EXCEPT ![f] = a]
  PROVE  read'[f] = a /\ \A g \in Fields(kind) : g # f => read'[g] = read[g]
  BY DEF TypeOK, Written

\* The frame of a step that goes on to the next one.
LEMMA GoesOn ==
  ASSUME TypeOK, Inv, Describing, NextStep,
         UNCHANGED <<kind, region, lister, listing, cur, judged>>,
         value' \in [Written(kind) -> Values], read' \in [Written(kind) -> {"unread", "yes", "no"}],
         gone' \in BOOLEAN, itemErr' \in BOOLEAN, gone => gone', itemErr => itemErr'
  PROVE  StepFrame /\ TypeOK'
<1>1. StepFrame
  BY DEF StepFrame, NextStep
<1>2. TypeOK'
  BY DEF TypeOK, NextStep, listing, judged
<1> QED
  BY <1>1, <1>2

\* The frame of a step that ends the description.
LEMMA Leaves ==
  ASSUME TypeOK, Inv, Describing, LeaveItem,
         UNCHANGED <<kind, region, lister, listing, cur, judged>>,
         value' \in [Written(kind) -> Values], read' \in [Written(kind) -> {"unread", "yes", "no"}],
         gone' \in BOOLEAN, itemErr' \in BOOLEAN, gone => gone', itemErr => itemErr',
         WrongRegion \/ gone' \/ itemErr'
  PROVE  StepFrame /\ TypeOK'
<1>1. StepFrame
  BY DEF StepFrame, LeaveItem, Excuse
<1>2. TypeOK'
  BY DEF TypeOK, LeaveItem, listing, judged
<1> QED
  BY <1>1, <1>2

LEMMA SkipStepKeeps == ASSUME TypeOK, Inv, SkipStep PROVE TypeOK' /\ Inv'
<1>1. PICK f : f = Step.field
  OBVIOUS
<1>2. PICK v : v = IF value[f] = "unread" THEN "skipped" ELSE value[f]
  OBVIOUS
<1>3. /\ Describing /\ Write(f, v) /\ NextStep
      /\ UNCHANGED <<kind, region, lister, listing, cur, read, gone, itemErr, judged>>
  BY <1>1, <1>2 DEF SkipStep, Write
<1>4. f \in Fields(kind) /\ f \in Written(kind)
  BY <1>1, <1>3, AtStep
<1>5. v \in Values
  BY <1>2, <1>4 DEF TypeOK, Values
<1>6. StepFrame /\ TypeOK'
  BY <1>3, <1>4, <1>5, WritesTyped, GoesOn DEF TypeOK
<1>7. Honest(f) /\ value'[f] = v /\ read'[f] = read[f]
  BY <1>3, <1>4, HonestNow, Wrote
<1>8. Honest(f)'
  <2>1. v \in {"yes", "no", "unset", "omitted"} => value[f] = v
    BY <1>2
  <2>2. value[f] = "yes" => v = "yes"
    BY <1>2
  <2>3. f \notin {"key_manager_aws", "assume_role_policy"}
    <3>1. ~Applies(Step) /\ StepRight(kind, Step)
      BY <1>3, AtStep DEF SkipStep
    <3> QED
      BY <1>1, <3>1 DEF Applies, StepRight
  <2> QED
    BY <1>3, <1>7, <2>1, <2>2, <2>3 DEF Honest, Excuse, KeptQuiet, Solid, listing
<1>9. Excuse' \/ f \in KeptQuiet \/ ~Gap(f)'
  BY <1>2, <1>3, <1>7, <1>8 DEF Honest, Gap, KeptQuiet
<1> QED
  BY <1>1, <1>3, <1>4, <1>6, <1>8, <1>9, Wrote, StepKeeps

LEMMA AnsweredKeeps == ASSUME TypeOK, Inv, Answered PROVE TypeOK' /\ Inv'
<1>1. PICK f : f = Step.field
  OBVIOUS
<1>2. PICK a \in {"yes", "no"} : /\ read' = [read EXCEPT ![f] = a]
                                 /\ Write(f, IF a = "no" THEN Step.no ELSE "yes")
  BY <1>1 DEF Answered
<1>3. PICK v : v = IF a = "no" THEN Step.no ELSE "yes"
  OBVIOUS
<1>4. /\ Describing /\ Write(f, v) /\ NextStep
      /\ UNCHANGED <<kind, region, lister, listing, cur, gone, itemErr, judged>>
  BY <1>2, <1>3 DEF Answered
<1>5. f \in Fields(kind) /\ f \in Written(kind) /\ Step.no \in {"no", "omitted"}
  BY <1>1, <1>4, AtStep DEF StepRight
<1>6. v \in Values
  BY <1>3, <1>5 DEF Values
<1>7. StepFrame /\ TypeOK'
  BY <1>2, <1>4, <1>5, <1>6, WritesTyped, ReadsTyped, GoesOn DEF TypeOK
<1>8. value'[f] = v /\ read'[f] = a
  BY <1>2, <1>4, <1>5, Wrote, WasRead
<1>9. Honest(f)' /\ ~Gap(f)'
  BY <1>3, <1>5, <1>8 DEF Honest, Gap
<1> QED
  BY <1>1, <1>2, <1>4, <1>5, <1>7, <1>9, Wrote, WasRead, StepKeeps

LEMMA NotInPayloadKeeps == ASSUME TypeOK, Inv, NotInPayload PROVE TypeOK' /\ Inv'
<1>1. PICK f : f = Step.field
  OBVIOUS
<1>2. PICK v : v = Step.none
  OBVIOUS
<1>3. /\ Describing /\ Write(f, v) /\ NextStep /\ Step.payload /\ ~InPayload(f)
      /\ UNCHANGED <<kind, region, lister, listing, cur, read, gone, itemErr, judged>>
  BY <1>1, <1>2 DEF NotInPayload
<1>4. f \in Fields(kind) /\ f \in Written(kind) /\ StepRight(kind, Step) /\ cur \in All
  BY <1>1, <1>3, AtStep DEF Describing, Inv, StartInv
<1>5. v \in {"no", "unset"} /\ v \in Values
  BY <1>2, <1>3, <1>4 DEF StepRight, Values
<1>6. StepFrame /\ TypeOK'
  BY <1>3, <1>4, <1>5, WritesTyped, GoesOn DEF TypeOK
<1>7. value'[f] = v /\ read'[f] = read[f]
  BY <1>3, <1>4, Wrote
<1>8. lister = "native" /\ f \in missed[cur]
  BY <1>1, <1>3, <1>4 DEF InPayload, StepRight
<1>9. kind \in Native /\ kind \notin {"volume", "instance"}
      /\ (cellErr \/ (kind = "policy" /\ f = "policy_has_wildcard_allow"))
  BY <1>4, <1>8 DEF Inv, StartInv, MissedInv
<1>10. f \in Solid(kind) => v # "no"
  <2> SUFFICES ASSUME f \in Solid(kind), v = "no" PROVE FALSE
    OBVIOUS
  <2>1. kind \in DOMAIN Steps
    BY <1>3, AtStep
  <2>2. <<kind, f>> \in SolidPairs
    BY <2>1, SolidAre
  <2>3. kind = "trail"
    BY <1>1, <1>2, <1>4, <1>9, <2>2 DEF StepRight
  <2> QED
    BY <1>9, <2>3, NativeKinds
<1>11. cellErr \/ (f \in KeptQuiet /\ v = "unset")
  BY <1>2, <1>4, <1>9 DEF KeptQuiet, StepRight
<1>12. f \notin {"key_manager_aws", "assume_role_policy"}
  BY <1>1, <1>3, <1>4 DEF StepRight
<1>13. Honest(f)' /\ (Excuse' \/ f \in KeptQuiet)
  BY <1>3, <1>5, <1>7, <1>10, <1>11, <1>12 DEF Honest, Excuse, KeptQuiet, Solid, listing
<1> QED
  BY <1>1, <1>3, <1>4, <1>6, <1>13, Wrote, StepKeeps

LEMMA CallFailsKeeps == ASSUME TypeOK, Inv, CallFails PROVE TypeOK' /\ Inv'
<1>1. PICK f : f = Step.field
  OBVIOUS
<1>2. /\ Describing /\ itemErr' = (itemErr \/ Step.fails # "quiet")
      /\ (Step.fails = "stop" /\ LeaveItem) \/ (Step.fails # "stop" /\ NextStep)
      /\ UNCHANGED <<kind, region, lister, listing, cur, value, read, gone, judged>>
  BY DEF CallFails
<1>3. f \in Fields(kind) /\ StepRight(kind, Step)
  BY <1>1, <1>2, AtStep
<1>4. itemErr' \in BOOLEAN /\ (itemErr => itemErr') /\ (itemErr' \/ f = "creation_date")
  BY <1>1, <1>2, <1>3 DEF StepRight, TypeOK
<1>5. StepFrame /\ TypeOK'
  <2>1. CASE Step.fails = "stop" /\ LeaveItem
    BY <1>2, <1>4, <2>1, Leaves DEF TypeOK
  <2>2. CASE Step.fails # "stop" /\ NextStep
    BY <1>2, <1>4, <2>2, GoesOn DEF TypeOK
  <2> QED
    BY <1>2, <2>1, <2>2
<1>6. Honest(f)'
  BY <1>2, <1>3, <1>4, HonestNow DEF Honest, Excuse, KeptQuiet, Solid, listing
<1>7. Excuse' \/ f \in KeptQuiet
  BY <1>4 DEF Excuse, KeptQuiet
<1> QED
  BY <1>1, <1>2, <1>3, <1>5, <1>6, <1>7, StepKeeps

\* "There is none" is the truth, or the resource is not where the describer asks.
LEMMA ThereIsNoneKeeps == ASSUME TypeOK, Inv, ThereIsNone PROVE TypeOK' /\ Inv'
<1>1. PICK f : f = Step.field
  OBVIOUS
<1>2. /\ Describing /\ ~Step.payload
      /\ UNCHANGED <<kind, region, lister, listing, cur, judged>>
  BY DEF ThereIsNone
<1>3. f \in Fields(kind) /\ f \in Written(kind) /\ StepRight(kind, Step)
  BY <1>1, <1>2, AtStep
<1>4. WrongRegion => Step.none = "gone"
  BY <1>3 DEF WrongRegion, StepRight
<1>5. CASE Step.none \in {"no", "unset"}
  <2>1. PICK v : v = Step.none
    OBVIOUS
  <2>2. Write(f, v) /\ NextStep /\ UNCHANGED itemErr /\ v \in {"no", "unset"} /\ v \in Values
    BY <1>1, <1>5, <2>1 DEF ThereIsNone, Values
  <2>3. \/ read' = [read EXCEPT ![f] = "no"] /\ gone' = gone
        \/ read' = read /\ gone' = TRUE
    BY <1>1, <1>4, <1>5 DEF ThereIsNone
  <2>4. value'[f] = v
    BY <1>3, <2>2, Wrote
  <2>5. CASE read' = [read EXCEPT ![f] = "no"] /\ gone' = gone
    <3>1. StepFrame /\ TypeOK'
      BY <1>2, <1>3, <2>2, <2>5, WritesTyped, ReadsTyped, GoesOn DEF TypeOK
    <3>2. read'[f] = "no"
      BY <1>3, <2>5, WasRead
    <3>3. Honest(f)' /\ ~Gap(f)'
      BY <2>2, <2>4, <3>2 DEF Honest, Gap
    <3> QED
      BY <1>1, <1>2, <1>3, <2>2, <2>5, <3>1, <3>3, Wrote, WasRead, StepKeeps
  <2>6. CASE read' = read /\ gone' = TRUE
    <3>1. StepFrame /\ TypeOK'
      BY <1>2, <1>3, <2>2, <2>6, WritesTyped, GoesOn DEF TypeOK
    <3>2. Excuse' /\ f \notin {"key_manager_aws", "assume_role_policy"}
      BY <1>1, <1>3, <1>5, <2>6 DEF Excuse, StepRight
    <3>3. f \notin Solid(kind)
      <4>1. kind \in DOMAIN Steps
        BY <1>2, AtStep
      <4> QED
        BY <1>1, <1>2, <1>3, <4>1, SolidAre DEF StepRight
    <3>4. Honest(f)'
      BY <1>2, <2>2, <2>4, <3>2, <3>3 DEF Honest, Solid
    <3> QED
      BY <1>1, <1>2, <1>3, <2>2, <2>6, <3>1, <3>2, <3>4, Wrote, StepKeeps
  <2> QED
    BY <2>3, <2>5, <2>6
<1>6. CASE Step.none \in {"gone", "fails"}
  <2>1. value' = value /\ read' = read /\ (gone => gone') /\ gone' \in BOOLEAN
        /\ (WrongRegion \/ gone')
    <3>1. value' = value
      BY <1>6 DEF ThereIsNone
    <3>2. read' = read /\ (gone' = TRUE \/ (WrongRegion /\ gone' = gone))
      BY <1>6 DEF ThereIsNone
    <3> QED
      BY <3>1, <3>2 DEF TypeOK
  <2>2. \/ LeaveItem /\ itemErr' = itemErr
        \/ NextStep /\ itemErr' = TRUE
        \/ LeaveItem /\ itemErr' = TRUE
    BY <1>6 DEF ThereIsNone
  <2>3. itemErr' \in BOOLEAN /\ (itemErr => itemErr')
    BY <2>2 DEF TypeOK
  <2>4. StepFrame /\ TypeOK'
    <3>1. CASE LeaveItem
      BY <1>2, <2>1, <2>3, <3>1, Leaves DEF TypeOK
    <3>2. CASE NextStep
      BY <1>2, <2>1, <2>3, <3>2, GoesOn DEF TypeOK
    <3> QED
      BY <2>2, <3>1, <3>2
  <2>5. Honest(f)'
    BY <1>2, <1>3, <2>1, <2>3, HonestNow DEF Honest, Excuse, KeptQuiet, Solid, listing
  <2>6. ~WrongRegion => Excuse'
    BY <2>1 DEF Excuse
  <2> QED
    BY <1>1, <1>2, <1>3, <2>1, <2>4, <2>5, <2>6, StepKeeps
<1> QED
  BY <1>3, <1>5, <1>6 DEF StepRight

LEMMA DescribedKeeps == ASSUME TypeOK, Inv, Described PROVE TypeOK' /\ Inv'
<1>1. /\ phase = "enrich" /\ phase' = "pass" /\ cur # 0 /\ at > Len(Steps[kind])
      /\ UNCHANGED <<kind, region, lister, at, listing, item, judged>>
  BY DEF Described, LeaveItem
<1>2. TypeOK'
  BY <1>1 DEF TypeOK, listing, item, judged
<1>3. \A j \in DOMAIN Steps[kind] : j < at
  <2>1. kind \in DOMAIN Steps
    BY PostureAssumption DEF TypeOK
  <2> QED
    BY <1>1, <2>1, StepsRight DEF Right, TypeOK
<1>4. StartInv' /\ ListInv' /\ MissedInv'
  BY <1>1 DEF Inv, StartInv, ListInv, MissedInv, listing, item, judged
<1>5. YesInv' /\ NoInv' /\ SolidInv' /\ LeadInv'
  BY <1>1 DEF Inv, YesInv, NoInv, SolidInv, LeadInv, Solid, Excuse, KeptQuiet, listing, item
<1>6. GapInv'
  BY <1>1, <1>3 DEF Inv, GapInv, Excuse, KeptQuiet, Gap, WrongRegion, listing, item
<1>7. PassInv' /\ FloorOnEvidence' /\ TrustSound'
  <2>1. about = {} /\ ranks = [llm |-> 0, reported |-> 0] /\ world = NoWorld
    BY <1>1 DEF Inv, StartInv, PassInv, Passed
  <2> QED
    BY <1>1, <2>1 DEF PassInv, Passed, FloorOnEvidence, TrustSound, judged
<1> QED
  BY <1>2, <1>4, <1>5, <1>6, <1>7 DEF Inv

-----------------------------------------------------------------------------
(* The passes over the inventory. *)

\* What a pass leaves alone.
PassFrame ==
    /\ phase = "pass" /\ phase' = "floor"
    /\ UNCHANGED <<kind, region, lister, at, listing, cur, read, gone, policy, about, ranks>>
    /\ itemErr => itemErr'
    /\ itemErr' \in BOOLEAN

\* A pass writes a field of its own, and no field of a describer.
LEMMA PassKeeps ==
  ASSUME TypeOK, Inv, PassFrame, PassInv', value' \in [Written(kind) -> Values],
         \A g \in Fields(kind) : value'[g] = value[g]
  PROVE  TypeOK' /\ Inv'
<1>1. TypeOK'
  BY DEF TypeOK, PassFrame, listing
<1>2. StartInv' /\ ListInv' /\ MissedInv'
  BY DEF Inv, StartInv, ListInv, MissedInv, PassFrame, listing
<1>3. YesInv' /\ NoInv' /\ SolidInv' /\ LeadInv'
  BY DEF Inv, YesInv, NoInv, SolidInv, LeadInv, Solid, Excuse, KeptQuiet, PassFrame, listing
<1>4. GapInv'
  <2>1. kind \in DOMAIN Steps
    BY PostureAssumption DEF TypeOK
  <2>2. \A j \in DOMAIN Steps[kind] : Steps[kind][j].field \in Fields(kind)
    BY <2>1, FieldIs
  <2> QED
    BY <2>2 DEF Inv, GapInv, Gap, Excuse, KeptQuiet, WrongRegion, PassFrame, listing
<1>5. FloorOnEvidence' /\ TrustSound'
  BY DEF Inv, StartInv, FloorOnEvidence, TrustSound, PassFrame
<1> QED
  BY <1>1, <1>2, <1>3, <1>4, <1>5 DEF Inv

\* Concluding v about f.
LEMMA Concludes ==
  ASSUME TypeOK, NEW w, NEW f, NEW v \in Values, Concluded(w, f, v),
         kind \in DOMAIN PassFields, f \in PassFields[kind]
  PROVE  /\ world' = w /\ value'[f] = v /\ value' \in [Written(kind) -> Values]
         /\ \A g \in Fields(kind) : value'[g] = value[g] /\ g # f
<1>1. f \in Written(kind) /\ kind \in DOMAIN Steps
  BY PostureAssumption DEF Written, TypeOK
<1>2. world' = w /\ Write(f, v)
  BY DEF Concluded
<1>3. \A g \in Fields(kind) : g # f
  BY <1>1, PassFieldsApart
<1> QED
  BY <1>1, <1>2, <1>3, Wrote, WritesTyped

LEMMA CrossReferenceKMSKeeps == ASSUME TypeOK, Inv, CrossReferenceKMS PROVE TypeOK' /\ Inv'
<1>1. PICK w \in KeyWorlds :
        /\ read["key_manager_aws"] # "unread" => w.aws = (read["key_manager_aws"] = "yes")
        /\ Concluded(w, "is_unused", YesNo(IsUnused(w, value["key_manager_aws"])))
  BY DEF CrossReferenceKMS
<1>2. phase = "pass" /\ kind = "key" /\ UNCHANGED itemErr
  BY DEF CrossReferenceKMS
<1>3. kind \in DOMAIN PassFields /\ "is_unused" \in PassFields[kind]
  BY <1>2, PassFieldsAre
<1>4. PICK v \in Values : v = YesNo(IsUnused(w, value["key_manager_aws"]))
  BY DEF YesNo, Values
<1>5. /\ world' = w /\ value'["is_unused"] = v /\ value' \in [Written(kind) -> Values]
      /\ \A g \in Fields(kind) : value'[g] = value[g] /\ g # "is_unused"
  BY <1>1, <1>3, <1>4, Concludes
<1>6. PassFrame
  BY <1>1, <1>2 DEF PassFrame, Concluded, TypeOK
<1>7. value'["key_manager_aws"] = value["key_manager_aws"]
  BY <1>2, <1>5, LeadFields
<1>8. PassInv'
  BY <1>1, <1>2, <1>4, <1>5, <1>6, <1>7 DEF PassInv, Passed, KeyPass, PassFrame
<1> QED
  BY <1>5, <1>6, <1>8, PassKeeps

LEMMA CrossReferenceNetworkKeeps ==
  ASSUME TypeOK, Inv, CrossReferenceNetwork PROVE TypeOK' /\ Inv'
<1>1. PICK w \in SubnetWorlds :
         \/ /\ kind = "db"
            /\ Concluded(w, "effectively_public",
                         YesNo(EffectivelyPublic(w, value["publicly_accessible"])))
         \/ /\ kind = "instance" /\ w.twin = "none" /\ "group" \notin w.lost
            /\ Concluded(w, "subnet_is_public", YesNo(SubnetRoutable(w)))
  BY DEF CrossReferenceNetwork
<1>2. phase = "pass" /\ UNCHANGED itemErr
  BY DEF CrossReferenceNetwork
<1>3. PassFrame
  BY <1>1, <1>2 DEF PassFrame, Concluded, TypeOK
<1>4. CASE /\ kind = "db"
           /\ Concluded(w, "effectively_public",
                        YesNo(EffectivelyPublic(w, value["publicly_accessible"])))
  <2>1. kind \in DOMAIN PassFields /\ "effectively_public" \in PassFields[kind]
    BY <1>4, PassFieldsAre
  <2>2. PICK v \in Values : v = YesNo(EffectivelyPublic(w, value["publicly_accessible"]))
    BY DEF YesNo, Values
  <2>3. /\ world' = w /\ value'["effectively_public"] = v /\ value' \in [Written(kind) -> Values]
        /\ \A g \in Fields(kind) : value'[g] = value[g] /\ g # "effectively_public"
    BY <1>4, <2>1, <2>2, Concludes
  <2>4. value'["publicly_accessible"] = value["publicly_accessible"]
    BY <1>4, <2>3, PublicField
  <2>5. PassInv'
    BY <1>3, <1>4, <2>2, <2>3, <2>4 DEF PassInv, Passed, SubnetPass, PassFrame
  <2> QED
    BY <1>3, <2>3, <2>5, PassKeeps
<1>5. CASE kind = "instance" /\ Concluded(w, "subnet_is_public", YesNo(SubnetRoutable(w)))
  <2>1. kind \in DOMAIN PassFields /\ "subnet_is_public" \in PassFields[kind]
    BY <1>5, PassFieldsAre
  <2>2. PICK v \in Values : v = YesNo(SubnetRoutable(w))
    BY DEF YesNo, Values
  <2>3. /\ world' = w /\ value'["subnet_is_public"] = v /\ value' \in [Written(kind) -> Values]
        /\ \A g \in Fields(kind) : value'[g] = value[g] /\ g # "subnet_is_public"
    BY <1>5, <2>1, <2>2, Concludes
  <2>4. PassInv'
    BY <1>3, <1>5, <2>2, <2>3 DEF PassInv, Passed, SubnetPass, PassFrame
  <2> QED
    BY <1>3, <2>3, <2>4, PassKeeps
<1> QED
  BY <1>1, <1>4, <1>5

LEMMA CrossReferenceLambdaRoleKeeps ==
  ASSUME TypeOK, Inv, CrossReferenceLambdaRole PROVE TypeOK' /\ Inv'
<1>1. PICK w \in RoleWorlds : Concluded(w, "role_is_admin_equivalent", RoleFlag(w))
  BY DEF CrossReferenceLambdaRole
<1>2. phase = "pass" /\ kind = "function" /\ UNCHANGED itemErr
  BY DEF CrossReferenceLambdaRole
<1>3. kind \in DOMAIN PassFields /\ "role_is_admin_equivalent" \in PassFields[kind]
  BY <1>2, PassFieldsAre
<1>4. PICK v \in Values : v = RoleFlag(w)
  BY DEF RoleFlag, RoleWorlds, Values
<1>5. /\ world' = w /\ value'["role_is_admin_equivalent"] = v
      /\ value' \in [Written(kind) -> Values]
      /\ \A g \in Fields(kind) : value'[g] = value[g] /\ g # "role_is_admin_equivalent"
  BY <1>1, <1>3, <1>4, Concludes
<1>6. PassFrame
  BY <1>1, <1>2 DEF PassFrame, Concluded, TypeOK
<1>7. PassInv'
  BY <1>2, <1>4, <1>5, <1>6 DEF PassInv, Passed, RolePass, PassFrame
<1> QED
  BY <1>5, <1>6, <1>7, PassKeeps

LEMMA AnnotateFlowLogsKeeps == ASSUME TypeOK, Inv, AnnotateFlowLogs PROVE TypeOK' /\ Inv'
<1>1. PICK w \in VpcWorlds : /\ Concluded(w, "flow_logs_enabled", FlowLogs(w))
                             /\ itemErr' = (itemErr \/ ~w.read)
  BY DEF AnnotateFlowLogs
<1>2. phase = "pass" /\ kind = "vpc"
  BY DEF AnnotateFlowLogs
<1>3. kind \in DOMAIN PassFields /\ "flow_logs_enabled" \in PassFields[kind]
  BY <1>2, PassFieldsAre
<1>4. PICK v \in Values : v = FlowLogs(w)
  BY DEF FlowLogs, YesNo, Values
<1>5. /\ world' = w /\ value' \in [Written(kind) -> Values]
      /\ \A g \in Fields(kind) : value'[g] = value[g]
  BY <1>1, <1>3, <1>4, Concludes
<1>6. itemErr' \in BOOLEAN /\ (itemErr => itemErr')
  BY <1>1
<1>7. PassFrame
  BY <1>1, <1>2, <1>6 DEF PassFrame, Concluded
<1>8. PassInv'
  BY <1>2, <1>5, <1>7 DEF PassInv, Passed, PassFrame
<1> QED
  BY <1>5, <1>7, <1>8, PassKeeps

LEMMA ComputeTrailCoverageKeeps ==
  ASSUME TypeOK, Inv, ComputeTrailCoverage PROVE TypeOK' /\ Inv'
<1>1. PICK ts : Concluded([trails |-> ts], "trail_coverage", YesNo(Covered(ts, region)))
  BY DEF ComputeTrailCoverage
<1>2. phase = "pass" /\ kind = "account" /\ UNCHANGED itemErr
  BY DEF ComputeTrailCoverage
<1>3. kind \in DOMAIN PassFields /\ "trail_coverage" \in PassFields[kind]
  BY <1>2, PassFieldsAre
<1>4. PICK v \in Values : v = YesNo(Covered(ts, region))
  BY DEF YesNo, Values
<1>5. /\ value' \in [Written(kind) -> Values]
      /\ \A g \in Fields(kind) : value'[g] = value[g]
  BY <1>1, <1>3, <1>4, Concludes
<1>6. PassFrame
  BY <1>1, <1>2 DEF PassFrame, Concluded, TypeOK
<1>7. PassInv'
  BY <1>2, <1>6 DEF PassInv, Passed, PassFrame
<1> QED
  BY <1>5, <1>6, <1>7, PassKeeps

LEMMA NoPassKeeps == ASSUME TypeOK, Inv, NoPass PROVE TypeOK' /\ Inv'
<1>1. phase = "pass" /\ phase' = "floor" /\ kind \notin DOMAIN PassFields
      /\ UNCHANGED <<kind, region, lister, at, listing, item, judged>>
  BY DEF NoPass
<1>2. PassFrame
  BY <1>1 DEF PassFrame, TypeOK, item, judged
<1>3. PassInv'
  BY <1>1, PassFieldsAre DEF PassInv, Passed
<1> QED
  BY <1>1, <1>2, <1>3, PassKeeps DEF TypeOK, item

-----------------------------------------------------------------------------
(* The floor. *)

LEMMA FactSequences == \A k : DOMAIN FactsOf(k) \subseteq Nat
  BY FactsAre

\* Raising a rank to a floor.
LEMMA RaiseToIs ==
  ASSUME NEW r \in Ranks, NEW floor \in Ranks
  PROVE  RaiseTo(r, floor) \in Ranks /\ RaiseTo(r, floor) >= floor
  BY DEF RaiseTo, Ranks

\* What the switch gives is a rank, and nothing rises there without a fact that fires.
LEMMA OnFactsIs ==
  ASSUME NEW k, NEW v, NEW ts, NEW r \in Ranks
  PROVE  /\ OnFacts(k, v, ts, r) \in Ranks
         /\ OnFacts(k, v, ts, r) # r => \E fact \in InSeq(FactsOf(k)) : Fires(fact, v, ts)
<1> DEFINE fs == FactsOf(k)
           firing == {i \in DOMAIN fs : Fires(fs[i], v, ts)}
           least == CHOOSE i \in firing : \A j \in firing : i <= j
<1>1. CASE firing = {}
  <2>1. OnFacts(k, v, ts, r) = r
    BY <1>1 DEF OnFacts
  <2> QED
    BY <2>1
<1>2. CASE firing # {}
  <2>1. OnFacts(k, v, ts, r) = RaiseTo(r, fs[least].rank)
    BY <1>2 DEF OnFacts
  <2>2. firing \subseteq Nat
    BY FactSequences
  <2>3. \E i \in firing : \A j \in firing : i <= j
    <3> HIDE DEF firing
    <3>1. PICK i \in firing : \A j \in firing : ~(j < i)
      BY <1>2, <2>2, Least
    <3> QED
      BY <2>2, <3>1
  <2>4. least \in firing
    <3> HIDE DEF firing
    <3> QED
      BY <2>3
  <2>5. PICK fact \in InSeq(FactsOf(k)) : fact = fs[least] /\ Fires(fact, v, ts)
    BY <2>4 DEF InSeq
  <2>6. fact.rank \in Ranks
    <3>1. FactRight(k, fact)
      BY FactsRight
    <3> QED
      BY <3>1 DEF FactRight
  <2> QED
    BY <2>1, <2>5, <2>6, RaiseToIs
<1> QED
  BY <1>1, <1>2

\* The floor is a rank; what rises without a fact rises to high, for its text.
LEMMA FloorIs ==
  ASSUME NEW k, NEW v, NEW ts, NEW r \in Ranks
  PROVE  /\ Floor(k, v, ts, r) \in Ranks
         /\ \/ Floor(k, v, ts, r) = r
            \/ "exec" \in ts /\ Floor(k, v, ts, r) = High
            \/ \E fact \in InSeq(FactsOf(k)) : Fires(fact, v, ts)
<1>1. PICK s \in Ranks : s = OnFacts(k, v, ts, r)
  BY OnFactsIs
<1>2. High \in Ranks /\ RaiseTo(s, High) \in Ranks /\ RaiseTo(s, High) \in {s, High}
  BY TopicsAndRanks, RaiseToIs DEF RaiseTo
<1>3. Floor(k, v, ts, r) = IF "exec" \in ts THEN RaiseTo(s, High) ELSE s
  BY <1>1 DEF Floor
<1>4. s # r => \E fact \in InSeq(FactsOf(k)) : Fires(fact, v, ts)
  BY <1>1, OnFactsIs
<1> QED
  BY <1>2, <1>3, <1>4

\* What a fact that fires asserts is an answer of AWS.
Read(n) ==
    \/ n[1] \in Fields(kind) /\ read[n[1]] = n[2]
    \/ n[1] = "role_is_admin_equivalent" /\ kind = "function"
         /\ world.seen /\ world.flag = n[2]

LEMMA FactsRead ==
  ASSUME TypeOK, Inv, phase = "floor",
         NEW fact \in InSeq(FactsOf(kind)), NEW n \in fact.needs,
         n[1] \in DOMAIN value, value[n[1]] = n[2]
  PROVE  Read(n)
<1>1. FactRight(kind, fact)
  BY FactsRight
<1>2. n = <<n[1], n[2]>>
  BY <1>1 DEF FactRight
<1>3. \/ n[2] = "yes" /\ n[1] \in NeededYes
      \/ n[2] = "no" /\ (n[1] = "blocks_something" \/ <<kind, n[1]>> \in SolidPairs)
  BY <1>1 DEF FactRight
<1>4. n[1] \in Fields(kind) \/ (kind \in DOMAIN PassFields /\ n[1] \in PassFields[kind])
  BY DEF TypeOK, Written
<1>5. CASE n[1] \in Fields(kind) /\ n[2] = "yes"
  BY <1>5 DEF Inv, YesInv, Read
<1>6. CASE n[1] \in Fields(kind) /\ n[2] = "no"
  <2>1. <<n[1], "no">> \in fact.needs
    BY <1>2, <1>6
  <2>2. n[1] \in Solid(kind)
    BY <1>6, <2>1 DEF Solid
  <2> QED
    BY <1>6, <2>2 DEF Inv, SolidInv, Read
<1>7. CASE kind \in DOMAIN PassFields /\ n[1] \in PassFields[kind]
  <2>1. kind = "function" /\ n[1] = "role_is_admin_equivalent" /\ n[2] = "yes"
    BY <1>3, <1>7, PassFieldsAre DEF NeededYes, AdminFields, SolidPairs
  <2>2. RolePass
    BY <2>1 DEF Inv, PassInv, Passed
  <2>3. RoleFlag(world) = "yes" /\ world \in RoleWorlds
    BY <2>1, <2>2 DEF RolePass
  <2>4. world.seen /\ world.flag = "yes"
    BY <2>3 DEF RoleFlag, RoleWorlds
  <2> QED
    BY <2>1, <2>4 DEF Read
<1> QED
  BY <1>3, <1>4, <1>5, <1>6, <1>7

\* What a judgement leaves alone.
JudgeFrame ==
    /\ phase = "floor" /\ phase' = "done"
    /\ UNCHANGED <<kind, region, lister, at, listing, item, world>>

LEMMA JudgeKeeps ==
  ASSUME TypeOK, Inv, JudgeFrame, about' \subseteq Topics,
         ranks' \in [{"llm", "reported"} -> Ranks], FloorOnEvidence', TrustSound'
  PROVE  TypeOK' /\ Inv'
<1>1. TypeOK'
  BY DEF TypeOK, JudgeFrame, listing, item
<1>2. StartInv' /\ ListInv' /\ MissedInv'
  BY DEF Inv, StartInv, ListInv, MissedInv, JudgeFrame, listing, item
<1>3. YesInv' /\ NoInv' /\ SolidInv' /\ LeadInv'
  BY DEF Inv, YesInv, NoInv, SolidInv, LeadInv, Solid, Excuse, KeptQuiet, JudgeFrame, listing,
     item
<1>4. GapInv'
  BY DEF Inv, GapInv, Gap, Excuse, KeptQuiet, WrongRegion, JudgeFrame, listing, item
<1>5. cur # 0 /\ Passed /\ Passed'
  BY DEF Inv, StartInv, Passed, JudgeFrame, item
<1>6. PassInv'
  BY <1>5 DEF Inv, PassInv, KeyPass, SubnetPass, RolePass, JudgeFrame, item
<1> QED
  BY <1>1, <1>2, <1>3, <1>4, <1>6 DEF Inv

LEMMA JudgeAllKeeps == ASSUME TypeOK, Inv, Judge PROVE TypeOK' /\ Inv'
<1>1. PICK t \in {f.topic : f \in InSeq(FactsOf(kind))} \cup {"exec"}, llm \in {0, High} :
         /\ about' = {t}
         /\ ranks' = [llm |-> llm, reported |-> Floor(kind, value, {t}, llm)]
  BY DEF Judge
<1>2. JudgeFrame /\ kind # "role" /\ phase = "floor" /\ phase' = "done"
  BY DEF Judge, JudgeFrame
<1>3. t \in Topics
  <2>1. CASE t = "exec"
    BY <2>1, TopicsAndRanks
  <2>2. ASSUME NEW f \in InSeq(FactsOf(kind)), t = f.topic PROVE t \in Topics
    <3>1. FactRight(kind, f)
      BY FactsRight
    <3> QED
      BY <2>2, <3>1 DEF FactRight
  <2> QED
    BY <1>1, <2>1, <2>2
<1>4. llm \in Ranks
  BY <1>1 DEF Ranks, High
<1>5. PICK r \in Ranks : r = Floor(kind, value, {t}, llm)
  BY <1>4, FloorIs
<1>6. ranks'["llm"] = llm /\ ranks'["reported"] = r /\ ranks' \in [{"llm", "reported"} -> Ranks]
  BY <1>1, <1>4, <1>5
<1>7. FloorOnEvidence'
  <2> SUFFICES ASSUME r > llm
               PROVE  \/ "exec" \in {t} /\ r = High
                      \/ \E fact \in InSeq(FactsOf(kind)) : \A n \in fact.needs : Read(n)
    BY <1>1, <1>2, <1>6 DEF FloorOnEvidence, JudgeFrame, item, Read
  <2>1. r # llm
    BY <1>4, <1>5 DEF Ranks
  <2>2. CASE \E fact \in InSeq(FactsOf(kind)) : Fires(fact, value, {t})
    BY <1>2, <2>2, FactsRead DEF Fires
  <2> QED
    BY <1>4, <1>5, <2>1, <2>2, FloorIs
<1>8. TrustSound'
  BY <1>2 DEF TrustSound, JudgeFrame
<1> QED
  BY <1>1, <1>2, <1>3, <1>6, <1>7, <1>8, JudgeKeeps

\* A caller of another account who needs no key is one that the floor sees.
LEMMA ExposedIfAssumable ==
  ASSUME NEW pol, NEW p, CrossAccount(p), MayAssume(pol, p), ~LooseDeny(pol, p)
  PROVE  Exposes(pol)
<1>1. PICK st \in Statements(pol) :
        st.effect = "Allow" /\ st.assume /\ p \in st.aws /\ MayHold(st.conds)
  BY DEF MayAssume
<1>2. ~DenyEnforcesMitigationFor(pol, p)
  <2> SUFFICES ASSUME NEW d \in Statements(pol), d.effect = "Deny", d.assume,
                      DenyEnforces(d.conds), DenyCovers(d, p)
               PROVE  FALSE
    BY DEF DenyEnforcesMitigationFor
  <2>1. NamesCaller(d, p) /\ MustHold(d.conds)
    BY DEF LooseDeny
  <2> QED
    BY <2>1 DEF MayAssume
<1> QED
  BY <1>1, <1>2 DEF Exposes, MayHold, MitigatingScope

LEMMA OrgRoleCapIs ==
  ASSUME NEW pol, NEW named, NEW ts, NEW r
  PROVE  \/ OrgRoleCap(pol, named, ts, r) = r
         \/ AccountRootOnly(pol) /\ OrgRoleCap(pol, named, ts, r) = 0
  BY Zenon DEF OrgRoleCap

LEMMA JudgeRoleKeeps == ASSUME TypeOK, Inv, JudgeRole PROVE TypeOK' /\ Inv'
<1> DEFINE known == value["assume_role_policy"] = "yes"
           floored(ts, llm) == Floor("role", value, ts, llm)
           raised(pol, ts, llm) == IF known THEN TrustFloor(pol, ts, floored(ts, llm))
                                   ELSE floored(ts, llm)
<1>1. PICK pol \in Policies, ts \in RoleTexts, llm \in {0, High},
           named \in BOOLEAN :
        /\ policy' = pol /\ about' = ts
        /\ ranks' = [llm |-> llm,
                     reported |-> OrgRoleCap(pol, known /\ named, ts, raised(pol, ts, llm))]
  BY DEF JudgeRole
<1>2. JudgeFrame /\ kind = "role" /\ phase' = "done"
  BY DEF JudgeRole, JudgeFrame
<1>3. llm \in Ranks /\ High \in Ranks
  BY DEF Ranks, High
<1>4. PICK f \in Ranks : f = floored(ts, llm)
  BY <1>3, FloorIs
<1>5. PICK r : r = raised(pol, ts, llm)
  OBVIOUS
<1>6. r \in Ranks /\ (known /\ Exposes(pol) /\ "trust" \in ts => r >= High)
  BY <1>3, <1>4, <1>5, RaiseToIs DEF TrustFloor
<1>7. PICK c : c = OrgRoleCap(pol, known /\ named, ts, r)
  OBVIOUS
<1>8. c \in Ranks /\ (c = r \/ (AccountRootOnly(pol) /\ c = 0))
  <2>1. c = r \/ (AccountRootOnly(pol) /\ c = 0)
    BY <1>7, OrgRoleCapIs
  <2> QED
    BY <1>6, <2>1 DEF Ranks
<1>9. ranks'["llm"] = llm /\ ranks'["reported"] = c /\ ranks' \in [{"llm", "reported"} -> Ranks]
  BY <1>1, <1>3, <1>5, <1>7, <1>8
<1>10. FloorOnEvidence'
  <2> SUFFICES ASSUME c > llm
               PROVE  \/ "exec" \in ts /\ c = High
                      \/ read["assume_role_policy"] = "yes" /\ "trust" \in ts
                      \/ \E fact \in InSeq(FactsOf(kind)) : \A n \in fact.needs : Read(n)
    BY <1>1, <1>2, <1>9 DEF FloorOnEvidence, JudgeFrame, item, Read
  <2>1. c = r
    BY <1>3, <1>8 DEF Ranks
  <2>2. CASE r # f
    <3>1. known /\ "trust" \in ts
      BY <1>4, <1>5, <2>2 DEF TrustFloor
    <3>2. read["assume_role_policy"] = "yes"
      BY <1>2, <3>1, LeadFields DEF Inv, YesInv
    <3> QED
      BY <3>1, <3>2
  <2>3. CASE r = f
    <3>1. f # llm
      BY <1>3, <2>1, <2>3 DEF Ranks
    <3>2. CASE \E fact \in InSeq(FactsOf(kind)) : Fires(fact, value, ts)
      BY <1>2, <3>2, FactsRead DEF Fires, JudgeFrame
    <3> QED
      BY <1>2, <1>3, <1>4, <2>1, <2>3, <3>1, <3>2, FloorIs
  <2> QED
    BY <2>2, <2>3
<1>11. TrustSound'
  <2> SUFFICES ASSUME "trust" \in ts, read["assume_role_policy"] = "yes", NEW p \in Principals,
                      CrossAccount(p), MayAssume(pol, p), ~LooseDeny(pol, p)
               PROVE  c >= High \/ AccountRootOnly(pol)
    BY <1>1, <1>2, <1>9 DEF TrustSound, JudgeFrame, item
  <2>1. known
    BY <1>2, LeadFields DEF Inv, LeadInv
  <2>2. Exposes(pol)
    BY ExposedIfAssumable
  <2> QED
    BY <1>6, <1>8, <2>1, <2>2
<1>12. about' \subseteq Topics
  BY <1>1 DEF RoleTexts, Topics
<1> QED
  BY <1>2, <1>9, <1>10, <1>11, <1>12, JudgeKeeps

-----------------------------------------------------------------------------
(* The theorems. *)

LEMMA NextKeeps == TypeOK /\ Inv /\ [Next]_vars => TypeOK' /\ Inv'
<1> SUFFICES ASSUME TypeOK, Inv, [Next]_vars PROVE TypeOK' /\ Inv'
  OBVIOUS
<1>1. CASE ListCC
  BY <1>1, ListCCKeeps
<1>2. CASE PageFails
  BY <1>2, PageFailsKeeps
<1>3. CASE ProbeReads
  BY <1>3, ProbeReadsKeeps
<1>4. CASE ProbeFails
  BY <1>4, ProbeFailsKeeps
<1>5. CASE KeepItem
  BY <1>5, KeepItemKeeps
<1>6. CASE Listed
  BY <1>6, ListedKeeps
<1>7. CASE StartItem
  BY <1>7, StartItemKeeps
<1>8. CASE NothingListed
  BY <1>8, NothingListedKeeps
<1>9. CASE SkipStep
  BY <1>9, SkipStepKeeps
<1>10. CASE Answered
  BY <1>10, AnsweredKeeps
<1>11. CASE NotInPayload
  BY <1>11, NotInPayloadKeeps
<1>12. CASE ThereIsNone
  BY <1>12, ThereIsNoneKeeps
<1>13. CASE CallFails
  BY <1>13, CallFailsKeeps
<1>14. CASE Described
  BY <1>14, DescribedKeeps
<1>15. CASE CrossReferenceKMS
  BY <1>15, CrossReferenceKMSKeeps
<1>16. CASE CrossReferenceNetwork
  BY <1>16, CrossReferenceNetworkKeeps
<1>17. CASE CrossReferenceLambdaRole
  BY <1>17, CrossReferenceLambdaRoleKeeps
<1>18. CASE AnnotateFlowLogs
  BY <1>18, AnnotateFlowLogsKeeps
<1>19. CASE ComputeTrailCoverage
  BY <1>19, ComputeTrailCoverageKeeps
<1>20. CASE NoPass
  BY <1>20, NoPassKeeps
<1>21. CASE JudgeRole
  BY <1>21, JudgeRoleKeeps
<1>22. CASE Judge
  BY <1>22, JudgeAllKeeps
<1>23. CASE UNCHANGED vars
  <2>1. TypeOK'
    BY <1>23 DEF TypeOK, vars, listing, item, judged
  <2>2. StartInv' /\ ListInv' /\ MissedInv' /\ PassInv'
    BY <1>23 DEF Inv, StartInv, ListInv, MissedInv, PassInv, Passed, KeyPass, SubnetPass,
       RolePass, vars, listing, item, judged
  <2>3. YesInv' /\ NoInv' /\ SolidInv' /\ LeadInv'
    BY <1>23 DEF Inv, YesInv, NoInv, SolidInv, LeadInv, Solid, Excuse, KeptQuiet, vars,
       listing, item
  <2>4. GapInv'
    BY <1>23 DEF Inv, GapInv, Gap, Excuse, KeptQuiet, WrongRegion, vars, listing, item
  <2>5. FloorOnEvidence' /\ TrustSound'
    BY <1>23 DEF Inv, FloorOnEvidence, TrustSound, vars, item, judged
  <2> QED
    BY <2>1, <2>2, <2>3, <2>4, <2>5 DEF Inv
<1> QED
  BY <1>1, <1>2, <1>3, <1>4, <1>5, <1>6, <1>7, <1>8, <1>9, <1>10, <1>11, <1>12, <1>13, <1>14,
     <1>15, <1>16, <1>17, <1>18, <1>19, <1>20, <1>21, <1>22, <1>23 DEF Next, Done

\* Every variable keeps its type, and the inductive invariant holds throughout: listing,
\* describing, the passes and the floor, whichever calls fail.
THEOREM InvAlways == Spec => [](TypeOK /\ Inv)
  BY InitTyped, NextKeeps, PTL DEF Spec

\* Every variable keeps its type: fields, ranks and what the probes missed.
THEOREM TypeCorrect == Spec => []TypeOK
  BY InvAlways, PTL

\* Behind a written "no" stands an answer of AWS, a resource that is gone, or an error in
\* the report: a describer's denied call is never taken for a missing setting.
THEOREM AbsenceIsEarned == Spec => []AbsenceEarned
<1>1. Inv => AbsenceEarned
  BY DEF Inv, NoInv, AbsenceEarned, Excuse
<1> QED
  BY <1>1, InvAlways, PTL

\* A field that the report does not have was not applicable, belongs to a resource that is
\* gone, or stands with an error: no describer drops one silently.
THEOREM GapsAreReported == Spec => []GapsReported
<1>1. Inv => GapsReported
  <2> SUFFICES ASSUME Inv, Examined, ~WrongRegion, NEW f \in Fields(kind) \ KeptQuiet,
                      value[f] \in {"unread", "unset"}, read[f] = "unread"
               PROVE  gone \/ itemErr \/ cellErr
    BY DEF GapsReported
  <2>1. PICK j \in DOMAIN Steps[kind] : f = Steps[kind][j].field
    BY DEF Fields, InSeq
  <2>2. cur # 0 /\ phase # "enrich"
    BY DEF Examined
  <2> QED
    BY <2>1, <2>2 DEF Inv, GapInv, Gap, Excuse
<1> QED
  BY <1>1, InvAlways, PTL

\* A key that a listed resource refers to is not called unused, whichever lister listed the
\* holder; nor is a key of AWS, unless asking for its manager failed, and then with an error,
\* or asked the wrong region.
THEOREM UsedAreKept == Spec => []UsedKept
<1>1. TypeOK /\ Inv => UsedKept
  <2> SUFFICES ASSUME TypeOK, Inv, kind = "key", world # NoWorld, value["is_unused"] = "yes"
               PROVE  /\ world.listed => \A form \in world.refs : ~Resolves(world, form)
                      /\ world.aws => itemErr \/ cellErr \/ gone \/ WrongRegion
    BY DEF UsedKept
  <2>1. KeyPass /\ Passed
    BY DEF Inv, PassInv
  <2>2. world.holder \in KeyHolders /\ world.aws \in BOOLEAN
    BY <2>1 DEF KeyPass, KeyWorlds
  <2>3. IsUnused(world, value["key_manager_aws"])
    BY <2>1 DEF KeyPass, YesNo
  <2>4. world.listed => \A form \in world.refs : ~Resolves(world, form)
    BY <2>2, <2>3, HoldersCarry DEF IsUnused, Seen
  <2>5. ASSUME world.aws, ~WrongRegion, ~Excuse PROVE FALSE
    <3> DEFINE f == "key_manager_aws"
    <3>1. f \in Fields(kind)
      BY LeadFields
    <3>2. read[f] # "yes"
      BY <2>3, <3>1 DEF Inv, LeadInv, IsUnused
    <3>3. read[f] = "unread"
      BY <2>1, <2>5, <3>1, <3>2 DEF KeyPass
    <3>4. PICK j \in DOMAIN Steps[kind] : f = Steps[kind][j].field
      BY <3>1 DEF Fields, InSeq
    <3>5. ~Gap(f)
      BY <2>1, <2>5, <3>4 DEF Inv, GapInv, StartInv, KeptQuiet, Passed
    <3>6. value[f] \notin {"unread", "unset", "no", "omitted", "skipped", "yes"}
      <4>1. value[f] \notin {"no", "omitted", "skipped", "yes"}
        BY <2>5, <3>1, <3>3 DEF Inv, NoInv, YesInv, LeadInv
      <4> QED
        BY <3>3, <3>5, <4>1 DEF Gap
    <3>7. value[f] \in Values
      BY <3>1 DEF TypeOK, Written
    <3> QED
      BY <3>6, <3>7 DEF Values
  <2> QED
    BY <2>4, <2>5 DEF Excuse
<1> QED
  BY <1>1, InvAlways, PTL

\* The floor raises no finding on what was not read, but for the text about ECS exec, and
\* overlooks no role that anybody of another account may assume, whatever its trust policy,
\* but for a Deny that does not protect.
THEOREM FloorIsJust == Spec => []FloorJust
<1>1. Inv => FloorJust
  BY DEF Inv, FloorJust
<1> QED
  BY <1>1, InvAlways, PTL

\* A native lister does what Listing promises: everything, or an error.
THEOREM Refinement == Spec => ImplementsListing
<1>1. Init => Promise!Init
  BY DEF Init, Promise!Init
<1>2. TypeOK /\ Inv /\ [Next]_vars => [Promise!Return]_(Promise!vars)
  <2> SUFFICES ASSUME TypeOK, Inv, [Next]_vars PROVE [Promise!Return]_(Promise!vars)
    OBVIOUS
  <2>1. CASE phase = "list" /\ phase' # "list"
    <3>1. phase' # "list" /\ listed' \subseteq All /\ cellErr' \in BOOLEAN
      BY <2>1, NextKeeps DEF TypeOK
    <3>2. cellErr' \/ listed' = All
      <4>1. ListCC \/ PageFails \/ ProbeFails \/ Listed
        BY <2>1 DEF Next, Done, vars, ProbeReads, KeepItem, StartItem, NothingListed, SkipStep,
           Answered, NotInPayload, ThereIsNone, CallFails, Described, Describing,
           CrossReferenceKMS, CrossReferenceNetwork, CrossReferenceLambdaRole,
           AnnotateFlowLogs, ComputeTrailCoverage, NoPass, JudgeRole, Judge
      <4>2. CASE ListCC \/ PageFails
        BY <4>2 DEF ListCC, PageFails
      <4>3. CASE ProbeFails
        <5>1. cellErr' = (cellErr \/ ThisProbe.fails # "quiet")
              /\ ~(ThisProbe.fails \in {"first", "quiet"} /\ phase' = phase)
          BY <2>1, <4>3 DEF ProbeFails
        <5>2. ThisProbe.fails = "quiet" => phase' = phase
          BY <4>3 DEF ProbeFails
        <5> QED
          BY <5>1, <5>2
      <4>4. CASE Listed
        <5>1. /\ phase = "list" /\ lister = "native" /\ page = 0
              /\ listed' = listed /\ cellErr' = cellErr
          BY <4>4 DEF Listed, listing
        <5>2. \A i \in All : i > 0
          BY PostureAssumption DEF All
        <5>3. ~cellErr => listed = {i \in All : i > 0}
          BY <5>1 DEF Inv, ListInv
        <5> QED
          BY <5>1, <5>2, <5>3
      <4> QED
        BY <4>1, <4>2, <4>3, <4>4
    <3> QED
      BY <2>1, <3>1, <3>2 DEF Promise!Return
  <2>2. CASE phase = "list" /\ phase' = "list"
    BY <2>2 DEF Promise!vars
  <2>3. CASE phase # "list"
    <3>1. phase' # "list" /\ UNCHANGED <<listed, cellErr>>
      BY <2>3 DEF Next, Done, vars, ListCC, PageFails, ProbeReads, ProbeFails, Ready, KeepItem,
         Listed, StartItem, NothingListed, SkipStep, Answered, NotInPayload, ThereIsNone,
         CallFails, Described, CrossReferenceKMS, CrossReferenceNetwork,
         CrossReferenceLambdaRole, AnnotateFlowLogs, ComputeTrailCoverage, NoPass, JudgeRole,
         Judge, Concluded, NextStep, LeaveItem, Describing, listing
    <3> QED
      BY <2>3, <3>1 DEF Promise!vars
  <2> QED
    BY <2>1, <2>2, <2>3
<1> QED
  BY <1>1, <1>2, InvAlways, PTL DEF Spec, ImplementsListing, Promise!Spec
=============================================================================
