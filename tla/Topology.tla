------------------------------ MODULE Topology ------------------------------
(***************************************************************************)
(* What an operator declares of a cluster (cluster.toml and config.capnp), *)
(* the checks it must pass (toml-to-cluster, validateCluster and           *)
(* lint-bundle-isolation) and what is made of it: the containers of        *)
(* cluster.compose.yaml and the dispatch of requests to tenants.           *)
(*                                                                         *)
(* The operator changes one declaration at a time and deploys when         *)
(* nothing objects. "" is an absent text; lists are sequences where the    *)
(* code depends on their order, sets where it does not. Texts that the     *)
(* code joins (service names, socket paths) are joined here with \o.       *)
(***************************************************************************)
EXTENDS Integers, Sequences, FiniteSets, SequencesExt

CONSTANTS
    Baselines,     \* declarations the operator may start from
    ClusterNames,  \* names of bundles, inputs and tenants
    MaxEdits       \* bound on the operator's changes

VARIABLES
    cluster,       \* the declarations as they are in the files
    edits,         \* how often the operator has changed them
    deployed       \* the declarations and the containers that run, or None

topoVars == <<cluster, edits, deployed>>

None == [none |-> TRUE]

\* A text that is left out.
Absent == ""

----------------------------------------------------------------------------
(* The shape of declarations, which no edit changes: the fields of a record *)
(* and what may stand in each.                                              *)

Sockets == [stem : ClusterNames \cup {Absent}, ext : STRING]
ImageRefs == [id : STRING, tag : STRING, digest : STRING]
Confinements == [fs : SUBSET [path : STRING, mode : STRING], hosts : SUBSET STRING,
                 bind : Nat, source : STRING]

BundleFields ==
    [name |-> ClusterNames, tier |-> STRING, rationale |-> STRING, external |-> BOOLEAN,
     perTenant |-> BOOLEAN, socket |-> Sockets, image |-> ImageRefs, service |-> STRING,
     creds |-> SUBSET STRING, mode |-> STRING, modeRationale |-> STRING,
     confinement |-> Confinements]
WireFields == [from |-> STRING, to |-> STRING, binding |-> STRING]
InputFields ==
    [name |-> ClusterNames, workerdId |-> STRING, trusted |-> BOOLEAN, shares |-> SUBSET STRING]
RowFields == [name |-> ClusterNames, mode |-> STRING, match |-> Seq(STRING), binding |-> STRING]
ServiceFields ==
    [name |-> STRING \ {Absent}, kind |-> STRING, outbound |-> STRING,
     bindings |-> SUBSET [name : STRING, to : STRING, class : STRING, of : STRING],
     classes |-> SUBSET STRING]

IsRecord(r, fields) == DOMAIN r = DOMAIN fields /\ \A f \in DOMAIN fields : r[f] \in fields[f]
IsChange(e, fields) == DOMAIN e \subseteq DOMAIN fields /\ \A f \in DOMAIN e : e[f] \in fields[f]
IsList(s, fields) == s \in Seq(ToSet(s)) /\ \A r \in ToSet(s) : IsRecord(r, fields)

WellFormed(c) ==
    /\ DOMAIN c = {"bundles", "wires", "inputs", "tables", "services", "oci", "ociBundles"}
    /\ IsList(c.bundles, BundleFields) /\ IsList(c.wires, WireFields)
    /\ IsList(c.inputs, InputFields) /\ IsList(c.services, ServiceFields)
    /\ c.tables \in Seq(ToSet(c.tables)) /\ \A t \in ToSet(c.tables) : IsList(t, RowFields)
    /\ c.oci \in [ClusterNames -> ImageRefs] /\ c.ociBundles \in [ClusterNames -> ImageRefs]

----------------------------------------------------------------------------
(* The compiler and validateCluster. *)

BundleNames(c) == {c.bundles[i].name : i \in DOMAIN c.bundles}

BundleOf(c, n) == c.bundles[CHOOSE i \in DOMAIN c.bundles : c.bundles[i].name = n]

FirstDuplicate(s) == \E i, j \in DOMAIN s : i < j /\ s[i] = s[j]

\* The compiler refuses two bundles or two wires of one name, and a wire from
\* or to a bundle nobody declares.
ParseTomlToCluster(c) ==
    /\ ~ FirstDuplicate([i \in DOMAIN c.bundles |-> c.bundles[i].name])
    /\ ~ FirstDuplicate([i \in DOMAIN c.wires |-> c.wires[i].binding])
    /\ \A w \in ToSet(c.wires) : {w.from, w.to} \subseteq BundleNames(c)

ValidateCluster(c) ==
    /\ \A b \in ToSet(c.bundles) :
          /\ b.name # Absent
          /\ b.tier \in {"hypervisor", "cluster"}
          /\ b.tier = "hypervisor" => b.rationale # Absent
    /\ \A w \in ToSet(c.wires) : Absent \notin {w.from, w.to, w.binding} /\ w.from # w.to

----------------------------------------------------------------------------
(* Indexes of the lint. *)

\* Which bundles may hold a credential; a binding no bundle lists is none.
CredentialAllowList(c, binding) ==
    {b.name : b \in {x \in ToSet(c.bundles) : binding \in x.creds}}

\* A workerd service belongs to at most one bundle: two claims end the lint.
ServiceToBundleIsUnique(c) ==
    \A i, j \in DOMAIN c.bundles :
        c.bundles[i].service = c.bundles[j].service /\ c.bundles[i].service # Absent => i = j

ServiceToBundle(c, service) ==
    LET claims == {b \in ToSet(c.bundles) : b.service = service}
    IN  IF claims = {} THEN Absent ELSE (CHOOSE b \in claims : TRUE).name

\* A service is a worker, a network that lets the public or private space in, an
\* external server, or something else.
Workers(c) == {s \in ToSet(c.services) : s.kind = "worker"}

\* Mutant: a worker no bundle claims is taken for one of ours.
TierOrphanTrusted(c, w) ==
    IF ServiceToBundle(c, w.name) = Absent THEN "hypervisor"
    ELSE BundleOf(c, ServiceToBundle(c, w.name)).tier

\* A worker no bundle claims is held to the rules of the cluster tier.
TierForWorker(c, w) ==
    IF ServiceToBundle(c, w.name) = Absent THEN "cluster"
    ELSE BundleOf(c, ServiceToBundle(c, w.name)).tier

\* The first bundle of the hypervisor tier, Absent when there is none.
Gateway(c) ==
    LET of == {i \in DOMAIN c.bundles : c.bundles[i].tier = "hypervisor"}
    IN  IF of = {} THEN Absent ELSE c.bundles[CHOOSE i \in of : \A j \in of : i <= j].name

ServiceKind(c, name) ==
    LET of == {s \in ToSet(c.services) : s.name = name}
    IN  IF of = {} THEN Absent ELSE (CHOOSE s \in of : TRUE).kind

WireBindings(c, from) == {w.binding : w \in {x \in ToSet(c.wires) : x.from = from}}

----------------------------------------------------------------------------
(* The invariants of the lint, each TRUE when it reports nothing. *)

\* No egress below the hypervisor tier: not to a network, not to an external
\* server, not to a service that is not there.
Inv1(c, w) ==
    TierForWorker(c, w) # "hypervisor" /\ w.outbound # Absent
        => ServiceKind(c, w.outbound) \notin {Absent, "network", "external"}

Inv2(c, w) ==
    \A b \in w.bindings :
        CredentialAllowList(c, b.name) # {}
            => ServiceToBundle(c, w.name) \in CredentialAllowList(c, b.name)

Blank == {Absent, " "}

Inv3(c) ==
    \A b \in ToSet(c.bundles) :
        /\ b.tier \in {"hypervisor", "cluster"}
        /\ b.tier = "hypervisor" => b.rationale \notin Blank

Inv4(c, w) ==
    LET bundle == ServiceToBundle(c, w.name)
    IN  TierForWorker(c, w) = "cluster" /\ bundle # Absent =>
            \A b \in w.bindings :
                b.to # Absent => \/ b.name \in WireBindings(c, bundle)
                             \/ ServiceKind(c, b.to) = "external"

Inv5(c, w) ==
    LET bundle == ServiceToBundle(c, w.name)
        Target(b) == IF ServiceToBundle(c, b.to) = Absent THEN b.to ELSE ServiceToBundle(c, b.to)
    IN  TierForWorker(c, w) = "hypervisor" =>
            \A b \in w.bindings :
                /\ b.to # Absent /\ ServiceKind(c, b.to) # "external"
                /\ Target(b) \in BundleNames(c) \ {bundle}
                /\ BundleOf(c, Target(b)).tier = "hypervisor"
                => b.name \in WireBindings(c, bundle)

\* The bundle an input lives in, as Inv 6 finds it: the one it names, the one
\* of its own name, the gateway. Absent is an input Inv 6 reports.
Inv6Host(c, i) ==
    CASE i.workerdId # Absent -> IF i.workerdId \in BundleNames(c) THEN i.workerdId ELSE Absent
      [] i.workerdId = Absent /\ i.name \in BundleNames(c) -> i.name
      [] OTHER -> Gateway(c)

\* An input that says nothing and falls back on the gateway may be untrusted.
IsPureRung3Fallback(c, i) ==
    i.workerdId = Absent /\ i.name \notin BundleNames(c) /\ i.shares = {}

\* Mutant: only an input that names its bundle is looked at.
TierAlignedExplicit(c, i) ==
    LET tier == BundleOf(c, Inv6Host(c, i)).tier
    IN  /\ i.trusted => tier = "hypervisor"
        /\ ~ i.trusted /\ tier = "hypervisor" => i.workerdId = Absent

TierAligned(c, i) ==
    LET tier == BundleOf(c, Inv6Host(c, i)).tier
    IN  /\ i.trusted => tier = "hypervisor"
        /\ ~ i.trusted /\ tier = "hypervisor" => IsPureRung3Fallback(c, i)

Inv6(c) ==
    /\ \A i \in ToSet(c.inputs) : Inv6Host(c, i) # Absent /\ TierAligned(c, i)
    /\ \A i \in ToSet(c.inputs) : \A p \in i.shares :
          \E q \in ToSet(c.inputs) : q.name = p /\ Inv6Host(c, q) = Inv6Host(c, i)

\* The rows of every tenantDispatch route.
Rows(c) == FlattenSeq(c.tables)

\* Inv 7 resolves the hosts of inputs once more, and does not ask whether a
\* bundle that an input names is there.
Inv7Host(c, i) ==
    CASE i.workerdId # Absent -> i.workerdId
      [] i.workerdId = Absent /\ i.name \in BundleNames(c) -> i.name
      [] OTHER -> Gateway(c)

BindingToBundle(c, binding) ==
    LET of == {w \in ToSet(c.wires) : w.binding = binding}
    IN  IF of = {} THEN Absent ELSE (CHOOSE w \in of : TRUE).to

\* A row is aligned when some input of its bundle has the row's name for
\* workerd: an input of the bundle is one that lives there or has its name.
Aligned(c, row) ==
    LET target == BindingToBundle(c, row.binding)
    IN  \E i \in ToSet(c.inputs) :
            /\ Inv7Host(c, i) # Absent
            /\ Inv7Host(c, i) = target \/ i.name = target
            /\ Inv7Host(c, i) = row.name

Inv7(c) ==
    \A row \in ToSet(Rows(c)) :
        row.binding # Absent =>
            /\ BindingToBundle(c, row.binding) # Absent
            /\ c.inputs # <<>> => Aligned(c, row)

PerTenant(c) == {b \in ToSet(c.bundles) : b.perTenant}

Inv8(c) == PerTenant(c) # {} => c.tables # <<>>

Inv9(c) ==
    c.tables # <<>> =>
        \A b \in PerTenant(c) : \E w \in ToSet(c.wires) :
            w.to = b.name /\ \E row \in ToSet(Rows(c)) : row.binding = w.binding

\* Paths, hosts and sources of credentials are told apart by what the lint
\* asks of them: "canonical" and other paths, "*." in front and elsewhere, a
\* scheme of the closed list with and without a remainder.
Inv11(c) ==
    \A b \in ToSet(c.bundles) :
        /\ \A e \in b.confinement.fs : e.path = "canonical" /\ e.mode \in {Absent, "rw"}
        /\ b.confinement.hosts \subseteq {"plain", "leading"}
        /\ b.confinement.bind = 0 \/ b.confinement.bind \in 1024..65535
        /\ b.confinement.source \in {Absent, "known"}

\* A class of durable objects is declared on the worker that the binding names,
\* on the worker itself when it names none.
Inv12(c, w) ==
    \A b \in w.bindings :
        b.class # Absent =>
            \E t \in Workers(c) :
                /\ t.name = IF b.of = Absent THEN w.name ELSE b.of
                /\ b.class \in t.classes

Inv13(c) ==
    \A b \in ToSet(c.bundles) :
        b.external => /\ b.mode \in {"microvm", "process"}
                      /\ b.mode = "process" => b.modeRationale \notin Blank

\* The process exits 0. Inv 10 and Inv 14 only warn.
LintClean(c) ==
    /\ ServiceToBundleIsUnique(c)
    /\ Inv3(c) /\ Inv6(c) /\ Inv7(c) /\ Inv8(c) /\ Inv9(c) /\ Inv11(c) /\ Inv13(c)
    /\ \A w \in Workers(c) : Inv1(c, w) /\ Inv2(c, w) /\ Inv4(c, w) /\ Inv5(c, w) /\ Inv12(c, w)
=============================================================================
