----------------------------- MODULE MCCluster -----------------------------
(***************************************************************************)
(* Small instances of the parts that turn declarations into a running      *)
(* cluster: a behaviour is one of one of the parts.                        *)
(***************************************************************************)
EXTENDS Workspace, Lattice

VARIABLE part

MCNames == {"cloister-router", "alice", "bob", "llo", "hours", "other"}
Img(id, tag, digest) == [id |-> id, tag |-> tag, digest |-> digest]

NoConfinement == [fs |-> {}, hosts |-> {}, bind |-> 0, source |-> ""]

Router ==
    [name |-> "cloister-router", tier |-> "hypervisor", rationale |-> "why",
     external |-> TRUE, perTenant |-> FALSE, socket |-> NoSocket,
     image |-> Img("cloister", "1", ""), service |-> "cloister", creds |-> {"VAULT"},
     mode |-> "process", modeRationale |-> "why", confinement |-> NoConfinement]

\* A sidecar with a socket of its own and an image from the lockfile.
Sidecar(n) ==
    [Router EXCEPT !.name = n, !.tier = "cluster", !.rationale = "", !.service = "",
                   !.creds = {}, !.image = NoImage, !.mode = "microvm",
                   !.socket = [stem |-> n, ext |-> "sock"]]

Wire(to, binding) == [from |-> "cloister-router", to |-> to, binding |-> binding]
Row(n, mode, match, binding) == [name |-> n, mode |-> mode, match |-> match, binding |-> binding]
Input(n) == [name |-> n, workerdId |-> n, trusted |-> FALSE, shares |-> {}]

\* An input that is composed into the router because it says nothing.
Guest(n) == [Input(n) EXCEPT !.workerdId = ""]

Binding(n, to, class, of) == [name |-> n, to |-> to, class |-> class, of |-> of]
Service(n, kind) ==
    [name |-> n, kind |-> kind, outbound |-> "", bindings |-> {}, classes |-> {}]

Config ==
    <<[Service("cloister", "worker") EXCEPT
          !.outbound = "internet", !.classes = {"BeadStore"},
          !.bindings = {Binding("VAULT", "", "", ""), Binding("BEADS", "", "BeadStore", ""),
                        Binding("MACHE", "mache-mcp", "", "")}],
      [Service("guest", "worker") EXCEPT !.bindings = {Binding("MACHE", "mache-mcp", "", "")}],
      Service("internet", "network"), Service("mache-mcp", "external")>>

\* The two tenants of docs/reference/tenancy-model.md, each with its bundle.
TwoBundles ==
    [bundles |-> <<Router, Sidecar("alice"), Sidecar("bob")>>,
     wires |-> <<Wire("alice", "T_ALICE"), Wire("bob", "T_BOB")>>,
     inputs |-> <<Input("alice"), Input("bob"), Guest("llo"), Guest("hours")>>,
     tables |-> <<<<Row("alice", "sni", <<"alice">>, "T_ALICE"),
                    Row("bob", "path-prefix", <<"t", "bob">>, "T_BOB")>>>>,
     services |-> Config,
     oci |-> [n \in MCNames |-> IF n = "bob" THEN Img("rosary", "1", "d1") ELSE NoImage],
     ociBundles |-> [n \in MCNames |-> IF n = "alice" THEN Img("mache", "", "d2") ELSE NoImage]]

\* Two tenants of one bundle, with no inputs.
OneBundle ==
    [TwoBundles EXCEPT
        !.bundles = <<Router, [Sidecar("alice") EXCEPT !.perTenant = TRUE]>>,
        !.wires = <<Wire("alice", "T_ALICE")>>, !.inputs = <<>>,
        !.tables = <<<<Row("alice", "path-prefix", <<"t">>, "T_ALICE"),
                       Row("bob", "path-prefix", <<"t", "bob">>, "T_ALICE")>>>>]

MCBaselines == {TwoBundles, OneBundle}

MCBundleChanges ==
    {[tier |-> "hypervisor"], [tier |-> "cluster"], [tier |-> ""], [rationale |-> " "],
     [rationale |-> "why"], [perTenant |-> TRUE], [perTenant |-> FALSE], [external |-> FALSE],
     [name |-> "bob"], [name |-> "alice"], [service |-> "guest"], [creds |-> {"MACHE"}],
     [image |-> Img("rosary", "2", "")], [image |-> NoImage], [socket |-> NoSocket],
     [mode |-> ""], [mode |-> "process"],
     [confinement |-> [NoConfinement EXCEPT !.fs = {[path |-> "canonical", mode |-> "rw"]}]],
     [confinement |-> [NoConfinement EXCEPT !.bind = 80]],
     [confinement |-> [NoConfinement EXCEPT !.source = "other"]]}
MCWireChanges ==
    {[from |-> "alice"], [to |-> "alice"], [to |-> "bob"], [binding |-> "T_BOB"],
     [binding |-> "MACHE"]}
MCInputChanges ==
    {[workerdId |-> ""], [workerdId |-> "bob"], [workerdId |-> "cloister-router"],
     [workerdId |-> "gone"], [trusted |-> TRUE], [shares |-> {"alice"}], [shares |-> {"hours"}], [name |-> "other"]}
MCRowChanges ==
    {[name |-> "bob"], [name |-> "alice"], [binding |-> "T_ALICE"], [binding |-> "T_BOB"],
     [mode |-> "sni"], [mode |-> "path-prefix"], [match |-> <<"t">>], [match |-> <<"alice">>]}
MCServiceChanges ==
    {[outbound |-> "internet"], [outbound |-> "mache-mcp"], [outbound |-> "gone"],
     [outbound |-> ""], [kind |-> "worker"],
     [bindings |-> {Binding("VAULT", "", "", "")}],
     [bindings |-> {Binding("MACHE", "cloister", "", "")}],
     [bindings |-> {Binding("BEADS", "", "BeadStore", "cloister")}],
     [bindings |-> {Binding("BEADS", "", "BeadStore", "")}]}
MCOciChanges == {NoImage, Img("rosary", "1", "")}
MCRequests ==
    [host : {"alice", "elsewhere"},
     path : {<<"">>, <<"t">>, <<"t", "bob">>, <<"t", "bob", "x">>, <<"t", "bobby">>, <<"alice">>}]

\* Four inputs, each with a capability of its own, require up to two others in
\* either order; or three inputs provide and require what they like.
Four == {"a", "b", "c", "d"}
Cap(n) == "cap-" \o n
Wants(n) ==
    {<<>>} \cup {<<Cap(m)>> : m \in Four \ {n}}
           \cup {<<Cap(p[1]), Cap(p[2])>> : p \in {q \in (Four \ {n}) \X (Four \ {n}) : q[1] # q[2]}}
LatticeInput(n, provides, requires) == [name |-> n, provides |-> provides, requires |-> requires]
Circles ==
    {<<LatticeInput("a", {Cap("a")}, f["a"]), LatticeInput("b", {Cap("b")}, f["b"]),
       LatticeInput("c", {Cap("c")}, f["c"]), LatticeInput("d", {Cap("d")}, f["d"])>> :
         f \in {g \in [Four -> UNION {Wants(n) : n \in Four}] : \A n \in Four : g[n] \in Wants(n)}}
Market ==
    {<<LatticeInput("a", p, r), LatticeInput("b", q, <<>>)>> :
         p, q \in SUBSET {"cap-k", "cap-s"}, r \in {<<"cap-k">>, <<"cap-s">>, <<"cap-s", "cap-k">>}}
NoOverride == [x \in {} |-> ""]
MCMatchings ==
    [inputs : Circles, overrides : {NoOverride}] \cup
    [inputs : Market, overrides : {NoOverride, [x \in {"cap-s"} |-> "b"], [x \in {"cap-s"} |-> "a"]}] \cup
    [inputs : {<<LatticeInput("a", {}, <<>>), LatticeInput("a", {}, <<>>)>>}, overrides : {NoOverride}]

\* mache has a group of bare names and one that another input has too, notme
\* publishes two images for two bundles, rosary has a digest of its own.
Group(n, prefix, names) == [name |-> n, prefix |-> prefix, names |-> names]
Descriptor(groups, images, runs) ==
    [json |-> TRUE, groups |-> groups, transports |-> {"streamable-http"}, artifacts |-> runs # <<>>,
     images |-> images, runs |-> runs]
Mache ==
    Descriptor(<<Group("mache", <<"mache">>, {<<"get">>}), Group("tools", <<>>, {<<"list">>})>>,
               <<Img("mache", "1", "")>>, <<>>)
MacheMixed ==
    [Mache EXCEPT !.groups[1].names = {<<"get">>, <<"mache", "put">>}]
Rosary ==
    Descriptor(<<Group("tools", <<"bead">>, {<<"bead", "list">>})>>, <<Img("rosary", "1", "d1")>>, <<>>)
Notme ==
    Descriptor(<<>>, <<Img("notme", "1", ""), Img("proxy", "1", "")>>,
               [b \in {"alice", "bob"} |-> IF b = "alice" THEN "notme" ELSE "proxy"])

MCDocuments ==
    [n \in {"mache", "rosary", "notme"} |->
        CASE n = "mache" -> <<Mache, MacheMixed>>
          [] n = "rosary" -> <<Rosary, [Rosary EXCEPT !.groups = <<>>]>>
          [] OTHER -> <<Notme>>]
Spec(n) == Input(n) @@ [pin |-> <<>>, reason |-> FALSE, uds |-> ""]
MCBundles == <<Router, Sidecar("mache"), Sidecar("alice"), Sidecar("bob")>>
MCShells ==
    <<[name |-> "mache", kind |-> "proxy", prefix |-> <<"mache">>, strip |-> <<>>, claims |-> {},
       dynamic |-> FALSE, asserted |-> {<<"mache", "old">>}]>>
MCFirstInputs == {<<Spec("mache")>>, <<[Spec("notme") EXCEPT !.workerdId = "alice"]>>}
MCAddable == {[Spec("rosary") EXCEPT !.workerdId = ""]}
MCSpecChanges == {[reason |-> TRUE], [workerdId |-> "gone"], [uds |-> "path"], [pin |-> <<Mache>>]}

\* The registry knows the tag, wants a token it gives, does not know the tag, or
\* cannot be reached.
Says(first, token, second) ==
    [hosted |-> TRUE, first |-> first, token |-> token, second |-> second, digest |-> "of the tag"]
MCAnswers == {Says(200, FALSE, 0), Says(401, TRUE, 200), Says(404, FALSE, 0), Says(503, FALSE, 0)}
\* Two commands that are under way at once.
MCOverlapping == {[add |-> 2], [add |-> 1, resolve |-> 1], [add |-> 1, generate |-> 2]}
MCBudgets ==
    {[resolve |-> 1, add |-> 1, manifest |-> 1], [add |-> 1, resolve |-> 1, generate |-> 2],
     [resolve |-> 1, generate |-> 1, pull |-> 1, up |-> 2]} \cup MCOverlapping

mcVars == <<topoVars, latVars, workVars, part>>

NoTopo == cluster = None /\ edits = 0 /\ deployed = None
NoLat ==
    /\ decls = <<>> /\ overrides = <<>> /\ links = <<>> /\ stack = <<>> /\ visit = <<>>
    /\ parent = <<>> /\ node = NoNode /\ at = 0 /\ path = <<>> /\ verdict = ""
NoWork ==
    /\ toml = None /\ lock = None /\ files = None /\ built = None /\ store = None /\ running = None
    /\ published = <<>> /\ tags = <<>> /\ jobs = <<>> /\ commands = <<>> /\ changes = 0
    /\ seen = {} /\ halves = {}

MCInit ==
    \/ part = "declarations" /\ TopoInit /\ NoLat /\ NoWork
    \/ part = "lattice" /\ LatInit /\ NoTopo /\ NoWork
    \/ /\ WorkInit /\ NoTopo /\ NoLat
       /\ part = IF commands \in MCOverlapping THEN "terminals" ELSE "workspace"

MCNext ==
    /\ UNCHANGED part
    /\ \/ part = "declarations" /\ TopoNext /\ UNCHANGED <<latVars, workVars>>
       \/ part = "lattice" /\ LatNext /\ UNCHANGED <<topoVars, workVars>>
       \/ part = "workspace" /\ WorkNext /\ jobs'["t2"] = Idle /\ UNCHANGED <<topoVars, latVars>>
       \/ part = "terminals" /\ WorkNext /\ UNCHANGED <<changes, topoVars, latVars>>

MCSpec == MCInit /\ [][MCNext]_mcVars
=============================================================================
