------------------------------- MODULE Compose -------------------------------
(***************************************************************************)
(* What is generated from the declarations of Topology (emit-compose) and  *)
(* how the router finds the tenant of a request (tenant-dispatch), with    *)
(* the operator who changes declarations and deploys them.                 *)
(***************************************************************************)
EXTENDS Topology

CONSTANTS
    BundleChanges, WireChanges, InputChanges, RowChanges, ServiceChanges, OciChanges,
                   \* changes the operator makes: records of the fields that change
    Requests       \* host and path of the requests that are tried

----------------------------------------------------------------------------
(* Tenancy. *)

\* Mutant: a bundle of the input's own name is not looked for.
TenancyWithoutNamesake(c, i) ==
    CASE i.workerdId # Absent -> IF i.workerdId \in BundleNames(c) THEN i.workerdId ELSE Absent
      [] OTHER -> Gateway(c)

\* The bundle an input is composed into, Absent when the emitter refuses.
ResolveTenancy(c, i) ==
    CASE i.workerdId # Absent -> IF i.workerdId \in BundleNames(c) THEN i.workerdId ELSE Absent
      [] i.workerdId = Absent /\ i.name \in BundleNames(c) -> i.name
      [] OTHER -> Gateway(c)

TenancyResolves(c) == \A i \in ToSet(c.inputs) : ResolveTenancy(c, i) # Absent

\* The inputs of a bundle.
Colocation(c, bundle) == {i \in ToSet(c.inputs) : ResolveTenancy(c, i) = bundle}

----------------------------------------------------------------------------
(* Images. An image is [id, tag, digest]; one without id is none. *)

NoImage == [id |-> Absent, tag |-> Absent, digest |-> Absent]

\* Mutant: an image that has a tag is referred to by it.
OciTagRef(oci) == IF oci.tag # Absent THEN [oci EXCEPT !.digest = Absent] ELSE oci

\* The digest counts where there is one.
OciImageRef(oci) == IF oci.digest # Absent THEN [oci EXCEPT !.tag = Absent] ELSE oci

\* The inputs of a bundle whose image is known from the lockfile.
LinkedInputs(c, bundle) ==
    {k \in DOMAIN c.inputs : /\ ResolveTenancy(c, c.inputs[k]) = bundle
                             /\ c.oci[c.inputs[k].name].id # Absent}

\* Mutant: only the input of the bundle's own name is asked for an image.
ImageOfNamesake(c, b) ==
    CASE b.image.id # Absent -> b.image
      [] OTHER -> IF b.name \in {i.name : i \in Colocation(c, b.name)}
                  THEN OciImageRef(c.oci[b.name]) ELSE NoImage

\* The operator's image, else what a producer names for the bundle, else the
\* image of the first input that has one.
ResolveBundleImage(c, b) ==
    CASE b.image.id # Absent -> b.image
      [] b.image.id = Absent /\ c.ociBundles[b.name].id # Absent -> OciImageRef(c.ociBundles[b.name])
      [] OTHER -> LET known == LinkedInputs(c, b.name)
                  IN  IF known = {} THEN NoImage
                      ELSE OciImageRef(c.oci[c.inputs[CHOOSE k \in known : \A j \in known : k <= j].name])

\* The image that Inv 10 holds the operator's against: the producer's for the
\* bundle, else that of the input of the bundle's own name.
OwnOci(c, b) ==
    LET own == {i \in Colocation(c, b.name) : i.name = b.name}
    IN  CASE c.ociBundles[b.name].id # Absent -> c.ociBundles[b.name]
          [] c.ociBundles[b.name].id = Absent /\ own # {} -> c.oci[b.name]
          [] OTHER -> NoImage

\* Inv 10 has nothing to warn of.
Inv10Silent(c, b) ==
    IF b.image.id = Absent THEN c.ociBundles[b.name].id # Absent \/ LinkedInputs(c, b.name) # {}
    ELSE LET own == OwnOci(c, b)
         IN  own.id # Absent => /\ b.image.id = own.id
                                /\ own.tag # Absent => b.image.tag = own.tag

----------------------------------------------------------------------------
(* Containers. A socket is a path without and with its extension. *)

NoSocket == [stem |-> Absent, ext |-> Absent]

TenantStem(stem, tenant) == stem \o "." \o tenant
PerTenantSocketPath(socket, tenant) == [socket EXCEPT !.stem = TenantStem(@, tenant)]

\* The tenants of a bundle: the rows whose binding is that of a wire to it.
PerTenantInstancesFor(c, bundle) ==
    {row \in ToSet(Rows(c)) : \E w \in ToSet(c.wires) : w.to = bundle /\ w.binding = row.binding}

\* The places of the rows that a binding can mean.
RowsOfBinding(c, binding) == {k \in DOMAIN Rows(c) : Rows(c)[k].binding = binding}

\* Mutant: a binding that several rows share means the first of them.
SocketOfFirst(c, w, target) ==
    LET matched == RowsOfBinding(c, w.binding)
    IN  IF target.perTenant /\ matched # {}
        THEN PerTenantSocketPath(target.socket,
                                 Rows(c)[CHOOSE k \in matched : \A j \in matched : k <= j].name)
        ELSE target.socket

\* Mutant: the source of a wire is told the socket that the bundle declares.
SocketOfBundle(c, w, target) == target.socket

\* What the source of a wire is told: the socket of the only tenant that the
\* binding can mean, the socket of the bundle when there are more or none.
SocketForWire(c, w, target) ==
    LET matched == RowsOfBinding(c, w.binding)
    IN  IF target.perTenant /\ \E k \in matched : matched = {k}
        THEN PerTenantSocketPath(target.socket, Rows(c)[CHOOSE k \in matched : TRUE].name)
        ELSE target.socket

Env(c, b) ==
    {[binding |-> w.binding, socket |-> SocketForWire(c, w, BundleOf(c, w.to))] :
        w \in {x \in ToSet(c.wires) : /\ x.from = b.name
                                      /\ BundleOf(c, x.to).external
                                      /\ BundleOf(c, x.to).socket # NoSocket}}

\* A container of a tenant has a name, a volume and a socket of its own and no
\* port on the host.
BundleContainer(c, b, tenant) ==
    LET service == IF tenant = Absent THEN b.name ELSE b.name \o "-" \o tenant
    IN  [bundle |-> b.name, tenant |-> tenant, service |-> service,
         image  |-> ResolveBundleImage(c, b),
         volume |-> CASE tenant # Absent -> "cloister-do-" \o service
                      [] tenant = Absent /\ b.name = "cloister-router" -> "cloister-do"
                      [] OTHER -> Absent,
         socket |-> IF tenant # Absent /\ b.socket # NoSocket
                    THEN PerTenantSocketPath(b.socket, tenant) ELSE b.socket,
         env    |-> Env(c, b)]

\* The containers of a bundle: one, or one per tenant for a bundle of tenants
\* that has any. A bundle that is not external runs inside the router.
ContainersOf(c, b) ==
    LET tenants == IF b.perTenant THEN PerTenantInstancesFor(c, b.name) ELSE {}
    IN  CASE ~ b.external -> {}
          [] b.external /\ tenants = {} -> {BundleContainer(c, b, Absent)}
          [] OTHER -> {BundleContainer(c, b, row.name) : row \in tenants}

EmitCompose(c) == UNION {ContainersOf(c, b) : b \in ToSet(c.bundles)}

----------------------------------------------------------------------------
(* Dispatch. A path is the sequence of its segments. *)

CompileDispatchTable(t) ==
    /\ \A i \in DOMAIN t : /\ Absent \notin {t[i].name, t[i].binding} /\ t[i].match # <<>>
                           /\ t[i].mode \in {"sni", "path-prefix"}
    /\ \A i, j \in DOMAIN t : t[i].name = t[j].name => i = j
    /\ \A i, j \in DOMAIN t :
          t[i].mode = "sni" /\ t[j].mode = "sni" /\ t[i].match = t[j].match => i = j

\* Mutant: prefixes are compared before the host.
MatchPrefixFirst(t, r) ==
    LET sni == {i \in DOMAIN t : t[i].mode = "sni" /\ t[i].match = <<r.host>>}
        prefix == {i \in DOMAIN t : t[i].mode = "path-prefix" /\ IsPrefix(t[i].match, r.path)}
        First(S) == CHOOSE i \in S : \A j \in S : i <= j
    IN  CASE prefix # {} -> First(prefix)
          [] prefix = {} /\ sni # {} -> First(sni)
          [] OTHER -> 0

\* The index of the row of a request, 0 for none: the host first, then the
\* first row, in the order of the table, whose segments begin the path.
MatchTenant(t, r) ==
    LET sni == {i \in DOMAIN t : t[i].mode = "sni" /\ t[i].match = <<r.host>>}
        prefix == {i \in DOMAIN t : t[i].mode = "path-prefix" /\ IsPrefix(t[i].match, r.path)}
        First(S) == CHOOSE i \in S : \A j \in S : i <= j
    IN  CASE sni # {} -> First(sni)
          [] sni = {} /\ prefix # {} -> First(prefix)
          [] OTHER -> 0

Root == <<"">>

\* The path that is sent on.
StrippedPath(t, r) ==
    LET row == t[MatchTenant(t, r)]
        rest == SubSeq(r.path, Len(row.match) + 1, Len(r.path))
    IN  CASE row.mode = "sni" -> r.path
          [] row.mode = "path-prefix" /\ rest = <<>> -> Root
          [] OTHER -> rest

\* Where the router sends what it has matched: the socket of its environment.
\* Nothing is sent for a binding that is not there.
Handle(containers, row) ==
    {e.socket : e \in {x \in UNION {k.env : k \in {y \in containers :
                                                   y.bundle = "cloister-router"}} :
                       x.binding = row.binding}}

----------------------------------------------------------------------------
(* The operator. *)

\* What the operator starts from and changes has the shape of declarations. A
\* tenant's name in a socket's path makes it another path, for each tenant one.
ASSUME ComposeAssumption ==
    /\ \A c \in Baselines : WellFormed(c)
    /\ \A e \in BundleChanges : IsChange(e, BundleFields)
    /\ \A e \in WireChanges : IsChange(e, WireFields)
    /\ \A e \in InputChanges : IsChange(e, InputFields)
    /\ \A e \in RowChanges : IsChange(e, RowFields)
    /\ \A e \in ServiceChanges : IsChange(e, ServiceFields)
    /\ OciChanges \subseteq ImageRefs
    /\ \A r \in Requests : r.path \in Seq(STRING)
    /\ \A s \in ClusterNames \cup {Absent}, t, u \in ClusterNames :
          TenantStem(s, t) # s /\ (TenantStem(s, t) = TenantStem(s, u) => t = u)

TopoInit == cluster \in Baselines /\ edits = 0 /\ deployed = None

\* A declaration in which some fields have changed.
Changed(r, e) == [f \in DOMAIN r |-> IF f \in DOMAIN e THEN e[f] ELSE r[f]]

Edit ==
    /\ edits < MaxEdits
    /\ edits' = edits + 1
    /\ UNCHANGED deployed

ChangeBundle ==
    /\ Edit
    /\ \E i \in DOMAIN cluster.bundles, e \in BundleChanges :
          cluster' = [cluster EXCEPT !.bundles[i] = Changed(@, e)]

ChangeWire ==
    /\ Edit
    /\ \E i \in DOMAIN cluster.wires, e \in WireChanges :
          cluster' = [cluster EXCEPT !.wires[i] = Changed(@, e)]

ChangeInput ==
    /\ Edit
    /\ \E i \in DOMAIN cluster.inputs, e \in InputChanges :
          cluster' = [cluster EXCEPT !.inputs[i] = Changed(@, e)]

ChangeRow ==
    /\ Edit
    /\ \E t \in DOMAIN cluster.tables : \E i \in DOMAIN cluster.tables[t] :
          \/ \E e \in RowChanges : cluster' = [cluster EXCEPT !.tables[t][i] = Changed(@, e)]
          \/ cluster' = [cluster EXCEPT !.tables[t] = RemoveAt(@, i)]

ChangeService ==
    /\ Edit
    /\ \E i \in DOMAIN cluster.services, e \in ServiceChanges :
          cluster' = [cluster EXCEPT !.services[i] = Changed(@, e)]

\* An input is dropped, a bundle is declared, or the inputs are resolved anew
\* and the lockfile has other images.
ChangeRest ==
    /\ Edit
    /\ \/ \E i \in DOMAIN cluster.inputs : cluster' = [cluster EXCEPT !.inputs = RemoveAt(@, i)]
       \/ cluster' = [cluster EXCEPT !.tables = <<>>]
       \/ \E n \in ClusterNames, e \in OciChanges :
             \/ cluster' = [cluster EXCEPT !.oci[n] = e]
             \/ cluster' = [cluster EXCEPT !.ociBundles[n] = e]

\* Nothing objects: not the compiler, the lint or the emitter, and not the
\* router, which compiles its tables when it is constructed.
Accepted(c) ==
    /\ ParseTomlToCluster(c) /\ ValidateCluster(c) /\ LintClean(c) /\ TenancyResolves(c)
    /\ \A t \in DOMAIN c.tables : CompileDispatchTable(c.tables[t])

\* Compiled, linted, emitted and started.
Deploy ==
    /\ Accepted(cluster)
    /\ deployed' = [cluster |-> cluster, containers |-> EmitCompose(cluster)]
    /\ UNCHANGED <<cluster, edits>>

TopoNext ==
    ChangeBundle \/ ChangeWire \/ ChangeInput \/ ChangeRow \/ ChangeService \/ ChangeRest \/ Deploy

TopoSpec == TopoInit /\ [][TopoNext]_topoVars

----------------------------------------------------------------------------
(* Properties. *)

\* The lint and the emitter resolve the host of an input in three places of
\* their own ("Same three rungs the compose-emitter uses, so the lint matches
\* what's actually generated"): in a deployed cluster they say the same.
RungsAgree ==
    deployed # None =>
        \A i \in ToSet(deployed.cluster.inputs) :
            /\ Inv6Host(deployed.cluster, i) = ResolveTenancy(deployed.cluster, i)
            /\ Inv7Host(deployed.cluster, i) = ResolveTenancy(deployed.cluster, i)

\* An input the operator does not trust runs in a bundle of the hypervisor tier
\* only when it says nothing about its place and no bundle is named after it;
\* a trusted one runs nowhere else.
UntrustedStaysOut ==
    deployed # None =>
        \A b \in ToSet(deployed.cluster.bundles) :
            \A i \in Colocation(deployed.cluster, b.name) :
                /\ b.tier # "hypervisor" => ~ i.trusted
                /\ b.tier = "hypervisor" /\ ~ i.trusted
                      => i.workerdId = Absent /\ i.shares = {} /\ i.name # b.name

\* A request reaches no container of another tenant: whatever listens where the
\* router sends it, of the bundle that its row is wired to, has the row's tenant.
TenantsApart ==
    deployed # None =>
        \A t \in ToSet(deployed.cluster.tables), r \in Requests :
            MatchTenant(t, r) # 0 =>
                LET row == t[MatchTenant(t, r)]
                IN  \A k \in deployed.containers :
                        /\ k.socket \in Handle(deployed.containers, row)
                        /\ k.bundle = BindingToBundle(deployed.cluster, row.binding)
                        => k.tenant \in {Absent, row.name}

\* A row that has its binding for itself finds somebody listening: the socket
\* derived at the source of the wire is the one derived for the container.
SingleRowIsServed ==
    deployed # None =>
        LET c == deployed.cluster
        IN  \A k \in DOMAIN Rows(c) :
                RowsOfBinding(c, Rows(c)[k].binding) = {k}
                => \A s \in Handle(deployed.containers, Rows(c)[k]) :
                       \E x \in deployed.containers :
                           /\ x.socket = s
                           /\ x.bundle = BindingToBundle(c, Rows(c)[k].binding)

\* A request under the prefix of a tenant arrives with the rest of its path: the
\* prefix and what is sent on make the path again.
PathIsWhole ==
    deployed # None =>
        \A t \in ToSet(deployed.cluster.tables), r \in Requests :
            MatchTenant(t, r) # 0 =>
                LET row == t[MatchTenant(t, r)]
                IN  \/ row.mode = "sni" /\ row.match = <<r.host>> /\ StrippedPath(t, r) = r.path
                    \/ /\ row.mode = "path-prefix"
                       /\ r.path \in {row.match, row.match \o StrippedPath(t, r)}
                       /\ \A i \in DOMAIN t : t[i].mode = "sni" => t[i].match # <<r.host>>

\* What reaches the open network, or holds what some bundle declares to be a
\* credential, is a worker of a bundle that was promoted for it, and says why,
\* or that declares the credential itself.
AuthorityIsDeclared ==
    deployed # None =>
        \A w \in Workers(deployed.cluster) :
            LET of == {b \in ToSet(deployed.cluster.bundles) : b.service = w.name}
            IN  /\ ServiceKind(deployed.cluster, w.outbound) \in {"network", "external"}
                      => of # {} /\ \A b \in of : b.tier = "hypervisor" /\ b.rationale \notin Blank
                /\ \A x \in w.bindings, b \in ToSet(deployed.cluster.bundles) :
                      x.name \in b.creds => \E o \in of : x.name \in o.creds

\* Where Inv 10 is silent the container has an image, and one that a producer
\* names for the bundle is not run under another name.
SilentMeansImage ==
    deployed # None =>
        \A k \in deployed.containers :
            LET b == BundleOf(deployed.cluster, k.bundle)
            IN  Inv10Silent(deployed.cluster, b) =>
                    /\ k.image.id # Absent
                    /\ deployed.cluster.ociBundles[b.name].id \in {Absent, k.image.id}

\* What lint-bundle-isolation lets through, the emitted composition and the
\* dispatch at run time keep: untrusted inputs out of the router, tenants from
\* each other, authority with those who declare it, and a row for every match.
DeclarationsHold ==
    /\ RungsAgree /\ UntrustedStaysOut /\ TenantsApart /\ SingleRowIsServed
    /\ PathIsWhole /\ AuthorityIsDeclared /\ SilentMeansImage
=============================================================================
