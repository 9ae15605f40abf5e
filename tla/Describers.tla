----------------------------- MODULE Describers -----------------------------
(***************************************************************************)
(* The per-type describers and native listers of internal/audit/discover/  *)
(* aws as tables: which field a step reads, from a call or from the        *)
(* payload that the listing brought along, what a failed call does and     *)
(* what the service's "there is none" stands for.  Names of fields are     *)
(* those of the cb_describer_ keys, shortened; fields that one answer      *)
(* brings together are one field.                                          *)
(***************************************************************************)
EXTENDS Sequences

\* fails: "stop" returns the error, "join" keeps it and goes on, "quiet" drops it.
\* none (the service knows no such thing): "no" is written, the field stays "unset",
\* the item is "gone" and its enrichment ends without an error, or it "fails".
\* no: how a negative answer is written.  when: values that must have been read before.
Call(f, none) ==
    [field |-> f, payload |-> FALSE, fails |-> "stop", none |-> none, no |-> "no", when |-> {}]
Payload(f, none) == [Call(f, none) EXCEPT !.payload = TRUE]

Joined(s) == [s EXCEPT !.fails = "join"]
Quietly(s) == [s EXCEPT !.fails = "quiet"]
OnlyYes(s) == [s EXCEPT !.no = "omitted"]
When(f, v, s) == [s EXCEPT !.when = @ \cup {<<f, v>>}]

-----------------------------------------------------------------------------
(* The describers: the steps of Enrich, in order. *)

\* Whether there is a public-access block, and whether it blocks anything.
PublicAccessBlock ==
    <<Call("public_access_block", "no"),
      When("public_access_block", "yes", Payload("blocks_something", "unset"))>>
\* The algorithm and the key come with the same answer.
Encryption == Call("encryption", "no")
\* So does whether a statement allows everybody.
BucketPolicy == Call("bucket_policy_present", "no")
BucketSettings ==
    PublicAccessBlock \o <<Call("versioning", "unset"), Encryption, BucketPolicy>>
BucketUse ==
    <<Call("lifecycle_present", "no"), Call("access_logging_enabled", "no"),
      Call("object_lock_enabled", "no"), Call("has_objects", "no")>>
\* ListBuckets, once per run: its failure is not reported.
CreationDate == Quietly(Call("creation_date", "unset"))
BucketSteps == BucketSettings \o BucketUse \o <<CreationDate>>

AdminAttached == OnlyYes(Call("admin_managed_policy_attached", "gone"))
\* The documents are fetched one by one, if there are any.
InlinePolicies ==
    <<OnlyYes(Call("inline_policies", "gone")),
      When("inline_policies", "yes", Call("inline_policy_has_wildcard_allow", "gone"))>>
\* GetRole brings the last use and the trust policy.
RoleSteps == <<Call("assume_role_policy", "gone"), AdminAttached>> \o InlinePolicies
UserSteps == <<Call("access_keys", "gone"), Call("has_mfa", "gone"), AdminAttached>>
GroupSteps == <<OnlyYes(Call("power_user_managed_policy_attached", "gone"))>>
ManagedPolicySteps == <<Payload("policy_has_wildcard_allow", "unset")>>

\* Two of the fields copied from the payload; the others go the same way.
RDSCommon == <<Payload("storage_encrypted", "unset"), Payload("publicly_accessible", "unset")>>
InstanceRole == Call("is_read_replica", "unset")
DBInstanceSteps == RDSCommon \o <<InstanceRole>>
DBClusterSteps == RDSCommon

\* What the listing left out is taken for "not set".
EnvSecrets == Payload("env_has_plaintext_secrets", "no")
FunctionSteps ==
    <<EnvSecrets, Payload("dlq_configured", "no"), Payload("reserved_concurrency_set", "no")>>
\* An API without stages has no access-logging field; GetStages has no not-found.
ApiSteps == <<Call("access_logging_enabled", "fails")>>

Ec2InstanceSteps ==
    <<Payload("imdsv2_required", "no"), Payload("instance_profile_arn", "no"),
      Payload("public_ip_present", "no")>>
VolumeSteps == <<Payload("encrypted", "no"), Payload("is_attached", "no")>>
AddressSteps == <<Payload("is_attached", "no")>>
\* DescribeSnapshotAttribute and DescribeKey, with the configuration as it was handed in.
SnapshotSteps == <<Call("publicly_shared", "gone")>>
KeyManager == Call("key_manager_aws", "gone")
KeySteps == <<KeyManager, Call("key_rotation_enabled", "gone")>>

SecurityGroupSteps ==
    <<Payload("ingress_open_to_internet", "no"), Payload("exposed_admin_ports", "no"),
      Payload("allows_all_traffic_from_internet", "no")>>

RepositorySteps == <<Payload("mutable_tags", "no"), Call("lifecycle_policy_present", "no")>>
\* The key of a vault: by the type DescribeBackupVault gives or, failing that, by the
\* manager DescribeKey gives; the lock comes with the first answer.
VaultKey ==
    <<Joined(Call("vault_uses_aws_managed_key", "unset")),
      When("vault_uses_aws_managed_key", "unset",
           Joined(Call("vault_uses_aws_managed_key", "fails")))>>
VaultPolicy == Joined(Call("vault_access_policy_present", "no"))
VaultSteps == VaultKey \o <<VaultPolicy>>
PlanSteps == <<Call("cross_region_copy_present", "fails")>>

WorkGroupSteps == <<OnlyYes(Payload("is_default_workgroup", "unset"))>>
EcsClusterSteps == <<Payload("container_insights_enabled", "unset")>>
LoadBalancerSteps ==
    <<Payload("application", "no"),
      When("application", "yes", Call("alb_access_logs_enabled", "unset"))>>
IRSA == Joined(Call("eks_irsa_oidc_provider_present", "fails"))
PodIdentity == Joined(Call("eks_pod_identity_present", "fails"))
EksSteps == <<Payload("issuer", "no"), When("issuer", "yes", IRSA), PodIdentity>>

\* Account posture: seven probes, each with its own error.
GlueCatalogPolicy == Joined(OnlyYes(Call("glue_catalog_policy", "unset")))
RegionProbes ==
    <<Joined(Call("ebs_encryption_by_default", "fails")), GlueCatalogPolicy,
      Joined(Call("guardduty_enabled", "fails")), Joined(Call("config_recorder", "fails"))>>
\* The report is generated, waited for and read.
CredentialReport == Joined(Call("credential_report", "fails"))
IAMProbes ==
    <<Joined(Call("iam_summary", "fails")), Joined(Call("password_policy_present", "no")),
      CredentialReport>>
PostureSteps == RegionProbes \o IAMProbes

\* Types without a describer: what their native listing itself makes of the answer.
TableSteps ==
    <<Payload("sse_customer_key", "no"), Payload("point_in_time_recovery", "unset")>>
SecretSteps == <<Payload("rotation_enabled", "unset")>>
DistributionSteps == <<Payload("web_acl", "unset"), Payload("logging", "unset")>>
\* No authorization type is the type NONE.
RouteSteps == <<Payload("authorized", "no")>>
IntegrationSteps == <<Payload("credentials", "unset")>>
ListenerSteps == <<Payload("has_tls_certificate", "no")>>
ServiceSteps == <<Payload("execute_command_enabled", "no")>>
TaskDefSteps == <<Payload("privileged", "unset")>>
\* No describer and no native listing.
TrailSteps == <<Payload("kms_key", "no")>>

Steps ==
    [bucket |-> BucketSteps, role |-> RoleSteps, user |-> UserSteps, group |-> GroupSteps,
     policy |-> ManagedPolicySteps, db |-> DBInstanceSteps, dbcluster |-> DBClusterSteps,
     function |-> FunctionSteps, api |-> ApiSteps, instance |-> Ec2InstanceSteps,
     volume |-> VolumeSteps, address |-> AddressSteps, snapshot |-> SnapshotSteps,
     key |-> KeySteps, securitygroup |-> SecurityGroupSteps, repository |-> RepositorySteps,
     vault |-> VaultSteps, plan |-> PlanSteps, workgroup |-> WorkGroupSteps,
     ecscluster |-> EcsClusterSteps, loadbalancer |-> LoadBalancerSteps, eks |-> EksSteps,
     account |-> PostureSteps,
     table |-> TableSteps, secret |-> SecretSteps, distribution |-> DistributionSteps,
     route |-> RouteSteps, integration |-> IntegrationSteps, listener |-> ListenerSteps,
     service |-> ServiceSteps, taskdef |-> TaskDefSteps, trail |-> TrailSteps, vpc |-> <<>>]

\* Describers that do not set the configuration's region to the resource's.
Unpinned == {"key", "snapshot"}

-----------------------------------------------------------------------------
(* The native listers: the calls made for one item, in order, and what the     *)
(* failure of one does.  "first": the item is kept without the field, "drop":  *)
(* it is left out; both remember the first error.  "fatal": nothing of the     *)
(* type is listed.  "quiet": the item is kept without the field or an error.   *)

Probe(f, fails) == [field |-> f, fails |-> fails]

BucketProbes == <<Probe("location", "drop")>>
TableProbes == <<Probe("description", "fatal"), Probe("point_in_time_recovery", "first")>>
FunctionProbes == <<Probe("reserved_concurrency_set", "first")>>
DistributionProbes == <<Probe("logging", "first")>>
PolicyProbes == <<Probe("policy_has_wildcard_allow", "quiet")>>
\* One page of one API's routes or integrations.
RouteProbes == <<Probe("page", "drop")>>
IntegrationProbes == <<Probe("page", "drop")>>
ListenerProbes == <<Probe("page", "fatal")>>
ServiceProbes == <<Probe("page", "fatal"), Probe("description", "fatal")>>
TaskDefProbes == <<Probe("description", "fatal")>>
EksProbes == <<Probe("description", "fatal")>>

Probes ==
    [bucket |-> BucketProbes, table |-> TableProbes, function |-> FunctionProbes,
     distribution |-> DistributionProbes, policy |-> PolicyProbes, route |-> RouteProbes,
     integration |-> IntegrationProbes, listener |-> ListenerProbes,
     service |-> ServiceProbes, taskdef |-> TaskDefProbes,
     eks |-> EksProbes, db |-> <<>>, dbcluster |-> <<>>, secret |-> <<>>, vault |-> <<>>,
     plan |-> <<>>, repository |-> <<>>, api |-> <<>>, instance |-> <<>>, volume |-> <<>>,
     snapshot |-> <<>>]

Native == DOMAIN Probes

\* What the native listing brings along for the describer and for the passes: "key" is
\* the reference to a KMS key under a name that crossReferenceKMS knows.
FunctionRaw == {"env_has_plaintext_secrets", "dlq_configured", "reserved_concurrency_set", "key"}
InstanceRaw == {"imdsv2_required", "instance_profile_arn", "public_ip_present"}
VolumeRaw == {"encrypted", "is_attached", "key"}
DBInstanceRaw == {"storage_encrypted", "publicly_accessible", "key"}
\* Mutant: the reference of a cluster to its key is left out.
DBClusterRaw_NoKey == {"storage_encrypted", "publicly_accessible"}

\* A cluster's fields are read from its payload alone.
DBClusterRaw == {"storage_encrypted", "publicly_accessible", "key"}
PolicyRaw == {"policy_has_wildcard_allow"}
EksRaw == {"issuer", "key"}
TableRaw == {"sse_customer_key", "point_in_time_recovery", "key"}
SecretRaw == {"rotation_enabled", "key"}
RepositoryRaw == {"mutable_tags", "key"}
VaultRaw == {"key"}
SnapshotRaw == {"key"}

Raw ==
    [function |-> FunctionRaw, instance |-> InstanceRaw, volume |-> VolumeRaw,
     db |-> DBInstanceRaw, dbcluster |-> DBClusterRaw, policy |-> PolicyRaw, eks |-> EksRaw,
     table |-> TableRaw, secret |-> SecretRaw, repository |-> RepositoryRaw,
     vault |-> VaultRaw, snapshot |-> SnapshotRaw]
Carries(kind, f) == IF kind \in DOMAIN Raw THEN f \in Raw[kind] ELSE TRUE
KeyHolders == {k \in DOMAIN Raw : k \notin {"instance", "policy"}}

InSeq(s) == {s[i] : i \in DOMAIN s}
Fields(kind) == {s.field : s \in InSeq(Steps[kind])}
=============================================================================
