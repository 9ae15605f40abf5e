---------------------------- MODULE SeverityFloor ----------------------------
(***************************************************************************)
(* The deterministic severity floor of internal/audit/severity_floor.go as *)
(* operators: which facts about a resource raise a finding, and what the   *)
(* trust policy of a role is taken to say about other accounts.  The text  *)
(* gates of the floor (findingConcerns..., isECSExecWithoutLogging,        *)
(* findingIsCanonicalOrgRoleTrust) are the set "about" of topics a finding *)
(* touches.                                                                *)
(***************************************************************************)
EXTENDS Naturals, Sequences

CONSTANTS Audited,   \* the audited account
          Foreign    \* other accounts

Accounts == {Audited} \cup Foreign
Anyone == [account |-> "*", who |-> "*"]
Principals == {Anyone} \cup [account : Accounts, who : {"root", "role"}]

\* Operators on a mitigating key (sts:ExternalId, aws:PrincipalOrgID, ...), and a
\* condition on another key ("other").  IAM wants all conditions of a statement to hold.
Conditions == {"other", "string", "stringNot", "stringIfExists", "nullTrue", "nullFalse"}
Statement == [effect : {"Allow", "Deny"}, assume : BOOLEAN, aws : SUBSET Principals,
              others : BOOLEAN, conds : SUBSET Conditions]

Statements(policy) == {policy[i] : i \in DOMAIN policy}

\* Mutant: an ...IfExists operator counts as scoping.
MitigatingScope_IfExists(conds) == conds \cap {"string", "stringIfExists", "nullFalse"} # {}

\* operatorIsMitigating: what an Allow must require to count as scoped; any operator will do.
MitigatingScope(conds) == conds \cap {"string", "nullFalse"} # {}

\* denyOperatorEnforces: a Deny of those who do not bring the key; any operator will do.
DenyEnforces(conds) == conds \cap {"stringNot", "nullTrue"} # {}

CrossAccount(p) == p = Anyone \/ p.account # Audited

\* The same account is enough, whoever of it the Deny names.
DenyCovers(st, p) ==
    \E d \in st.aws : d = Anyone \/ d = p \/ (p # Anyone /\ d.account = p.account)

DenyEnforcesMitigationFor(policy, p) ==
    \E st \in Statements(policy) :
      st.effect = "Deny" /\ st.assume /\ DenyEnforces(st.conds) /\ DenyCovers(st, p)

\* trustPolicyExposesCrossAccount.
Exposes(policy) ==
    \E st \in Statements(policy) :
      /\ st.effect = "Allow" /\ st.assume /\ ~MitigatingScope(st.conds)
      /\ \E p \in st.aws : CrossAccount(p) /\ ~DenyEnforcesMitigationFor(policy, p)

\* trustIsAccountRootOnly: the shape of the role that AWS Organizations creates.
AccountRootOnly(policy) ==
    /\ policy # <<>>
    /\ \A st \in Statements(policy) :
         /\ st.effect = "Allow" /\ st.assume /\ ~st.others
         /\ st.aws # {} /\ \A p \in st.aws : p.who = "root"

-----------------------------------------------------------------------------
(* What IAM makes of such a policy, for a caller who brings none of the keys.  *)

\* A condition on another key may hold or not.
MayHold(conds) == conds \cap {"string", "nullFalse"} = {}
MustHold(conds) == conds \subseteq {"stringNot", "stringIfExists", "nullTrue"}

NamesCaller(st, p) ==
    \E d \in st.aws : d = Anyone \/ d = p \/ (p # Anyone /\ d.account = p.account /\ d.who = "root")

\* A principal of another account may assume the role without bringing a key.
MayAssume(policy, p) ==
    /\ \E st \in Statements(policy) :
         st.effect = "Allow" /\ st.assume /\ p \in st.aws /\ MayHold(st.conds)
    /\ \A st \in Statements(policy) :
         st.effect = "Deny" /\ st.assume /\ NamesCaller(st, p) => ~MustHold(st.conds)

\* A Deny that counts as covering the caller and need not stop him: it names somebody else
\* of his account, or another of its conditions may fail.
LooseDeny(policy, p) ==
    \E st \in Statements(policy) :
      /\ st.effect = "Deny" /\ DenyEnforces(st.conds) /\ DenyCovers(st, p)
      /\ ~NamesCaller(st, p) \/ ~MustHold(st.conds)

-----------------------------------------------------------------------------
(* The floor. *)

Ranks == 0..4     \* info, warning, medium, high, critical
High == 3
Critical == 4
RaiseTo(rank, floor) == IF rank < floor THEN floor ELSE rank

\* "exec" is a text of its own that stands for no fact; whoever writes of trust, and some
\* who write of admin rights, use a word of the cap of the organization role ("org role").
Topics == {"admin", "public access", "encryption", "tags", "imds", "trust", "org role", "exec"}

\* What must have been read, the topic of the finding, and the rank it is worth: a field
\* that is missing is no fact.
Fact(needs, topic, rank) == [needs |-> needs, topic |-> topic, rank |-> rank]

AdminGrant(f) == Fact({<<f, "yes">>}, "admin", Critical)
NoEncryption(needs) == Fact(needs, "encryption", High)
PublicAccessBlockOff ==
    Fact({<<"public_access_block", "yes">>, <<"blocks_something", "no">>}, "public access", Critical)
AttachedUnencrypted == NoEncryption({<<"encrypted", "no">>, <<"is_attached", "yes">>})
StorageUnencrypted == NoEncryption({<<"storage_encrypted", "no">>})
TrailWithoutKMS == NoEncryption({<<"kms_key", "no">>})
MutableTags == Fact({<<"mutable_tags", "yes">>}, "tags", High)
IMDSv1Allowed == Fact({<<"imdsv2_required", "no">>}, "imds", High)

\* isFullAdminWildcardGrant and isPublicAccessBlockAllDisabled look for fields on any
\* resource; the other predicates are for one type, whose case comes later in the switch.
OfAnyType ==
    <<AdminGrant("role_is_admin_equivalent"), AdminGrant("role_has_wildcard_inline_policy"),
      AdminGrant("admin_managed_policy_attached"),
      AdminGrant("inline_policy_has_wildcard_allow"), AdminGrant("policy_has_wildcard_allow"),
      PublicAccessBlockOff>>
OfType ==
    [trail |-> TrailWithoutKMS, repository |-> MutableTags, db |-> StorageUnencrypted,
     dbcluster |-> StorageUnencrypted, volume |-> AttachedUnencrypted,
     instance |-> IMDSv1Allowed]
FactsOf(kind) ==
    IF kind \in DOMAIN OfType THEN Append(OfAnyType, OfType[kind]) ELSE OfAnyType

Fires(fact, value, about) ==
    /\ fact.topic \in about
    /\ \A n \in fact.needs : n[1] \in DOMAIN value /\ value[n[1]] = n[2]

\* The switch of applySeverityFloor: the first fact that fires decides.
OnFacts(kind, value, about, rank) ==
    LET fs == FactsOf(kind)
        firing == {i \in DOMAIN fs : Fires(fs[i], value, about)}
    IN  IF firing = {} THEN rank
        ELSE RaiseTo(rank, fs[CHOOSE i \in firing : \A j \in firing : i <= j].rank)

\* isECSExecWithoutLogging comes after the switch: the text alone raises any finding.
Floor(kind, value, about, rank) ==
    LET switched == OnFacts(kind, value, about, rank)
    IN  IF "exec" \in about THEN RaiseTo(switched, High) ELSE switched

\* The last case of the switch, for a role whose trust policy was read.
TrustFloor(policy, about, rank) ==
    IF Exposes(policy) /\ "trust" \in about THEN RaiseTo(rank, High) ELSE rank

\* downgradeCanonicalOrgRoleFindings runs after the floor and wins.
OrgRoleCap(policy, canonicalName, about, rank) ==
    IF canonicalName /\ AccountRootOnly(policy) /\ "org role" \in about THEN 0 ELSE rank
=============================================================================
