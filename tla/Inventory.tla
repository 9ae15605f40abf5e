----------------------------- MODULE Inventory -----------------------------
(***************************************************************************)
(* What an audit that does not talk to AWS is given to look at             *)
(* (internal/audit/parser.go, parsers, iactype.go, llm_files.go): a state  *)
(* file of Pulumi or Terraform, or a tree of source files, and what is     *)
(* made of them.  A type is the tool that names it and the kind of thing   *)
(* it is; a URN is the sequence of the words its separators divide.        *)
(***************************************************************************)
EXTENDS Integers, SequencesExt

CONSTANTS
    MaxFiles,      \* --llm-max-files: source files shown to an LLM
    MaxResources,  \* resources its prompt has room for, by number
    MaxBytes       \* and by size

ASSUME InventoryAssumption == {MaxFiles, MaxResources, MaxBytes} \subseteq Nat \ {0}

Sequence(s) == s \in Seq(ToSet(s))

\* SelectSeq, in terms the provers can expand.
Select(s, Test(_)) == FlattenSeq([i \in DOMAIN s |-> IF Test(s[i]) THEN <<s[i]>> ELSE <<>>])

(* State files.  An object of one is [type, name, id, size, provisioners]: name is its URN *)
(* (Pulumi) or its name, provisioners the types of those it and its instances have.        *)

Unknown == <<"unknown">>
Urn(o) == IF o.name # <<>> THEN o.name ELSE IF o.id # <<>> THEN o.id ELSE Unknown
Resource(o) == [type |-> o.type, urn |-> Urn(o), size |-> o.size]
Resources(objects) == [i \in DOMAIN objects |-> Resource(objects[i])]

(* The modules of terraform show are numbered, the root first and every module before its *)
(* children: [resources, children].                                                       *)

IsState(state) ==
    /\ Sequence(state.top) /\ Sequence(state.deployed) /\ Sequence(state.modules)
    /\ \A i \in DOMAIN state.modules :
         /\ Sequence(state.modules[i].resources)
         /\ state.modules[i].children \in Seq(i + 1..Len(state.modules))

\* collectTerraformModuleResources: of each module and of those below it.
Below(modules) ==
    LET below[i \in DOMAIN modules] ==
          modules[i].resources
          \o FlattenSeq([k \in DOMAIN modules[i].children |-> below[modules[i].children[k]]])
    IN  below
Objects(modules) == IF modules = <<>> THEN <<>> ELSE Below(modules)[1]

\* checkProvisionerDenylist
Denied(o) == "remote-exec" \in o.provisioners

\* One denied object anywhere and the file is refused; no resources is an error too.
ParseTerraformState(state) ==
    LET objects == state.top \o Objects(state.modules)
    IN  IF \E i \in DOMAIN objects : Denied(objects[i]) THEN <<>> ELSE Resources(objects)

ParsePulumiState(state) ==
    Resources(IF state.deployed # <<>> THEN state.deployed ELSE state.top)

\* The top-level keys tell the format.  A file over the limit needs --yes or a yes.
ParseState(state, yes) ==
    CASE state.big /\ ~yes                  -> <<>>
      [] "deployment" \in state.keys        -> ParsePulumiState(state)
      [] "terraform_version" \in state.keys -> ParseTerraformState(state)
      [] "version" \in state.keys           -> ParsePulumiState(state)
      [] OTHER                              -> <<>>

-----------------------------------------------------------------------------
(* Source trees: sequences of files [kind, ok, resources] in the order of their paths. *)
(* ok: it can be read, and a Terraform file parses; resources: its resource blocks.    *)

Terraform == {"tf", "tf.json"}

Is(tree, kinds) == \E i \in DOMAIN tree : tree[i].kind \in kinds

\* Contents count for CloudFormation and Kubernetes, names for the rest.
DetectIaCType(tree) ==
    LET read == Select(tree, LAMBDA f : f.ok) IN
    CASE Is(tree, Terraform)          -> "terraform"
      [] Is(read, {"cloudformation"}) -> "cloudformation"
      [] Is(tree, {"chart"})          -> "helm"
      [] Is(read, {"k8s"})            -> "k8s"
      [] OTHER                        -> ""

\* .tf.json files end in .json, so they are relevant to every type.
Relevant(file, iac) ==
    CASE iac = "terraform" -> file.kind \in Terraform
      [] iac = ""          -> TRUE
      [] OTHER             -> file.kind # "tf"

\* The first MaxFiles, less those that cannot be read.
CollectSourceFiles(tree, iac) ==
    LET relevant == Select(tree, LAMBDA f : Relevant(f, iac))
        shown == IF Len(relevant) < MaxFiles THEN Len(relevant) ELSE MaxFiles
    IN  Select(SubSeq(relevant, 1, shown), LAMBDA f : f.ok)

\* The blocks of HCL files; a bad file is a diagnostic, a JSON file has no blocks.
ParseTerraformSource(tree) ==
    LET hcl == Select(tree, LAMBDA f : f.kind = "tf" /\ f.ok)
    IN  FlattenSeq([i \in DOMAIN hcl |-> hcl[i].resources])
Diagnostics(tree) == \E i \in DOMAIN tree : tree[i].kind \in Terraform /\ ~tree[i].ok

Bytes(resources) == FoldSeq(LAMBDA r, n : r.size + n, 0, resources)

\* How many of the resources the prompt has no room for: it shows the longest prefix
\* within both limits, and the first in any case.
CapPromptResources(resources) ==
    LET Fits(k) == k <= MaxResources /\ (k <= 1 \/ Bytes(SubSeq(resources, 1, k)) <= MaxBytes)
        shown == CHOOSE k \in 0..Len(resources) :
                     Fits(k) /\ \A j \in 0..Len(resources) : Fits(j) => j <= k
    IN  Len(resources) - shown
=============================================================================
