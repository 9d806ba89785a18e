------------------------------- MODULE Resolve -------------------------------
(***************************************************************************)
(* What is made of the descriptor (server.json) that an input names:       *)
(* backends, images and the bundles they are for (resolve-inputs), and how *)
(* the backends get into the manifest of the router (build-manifest).      *)
(*                                                                         *)
(* A descriptor is a record: json, whether it parses; groups, a sequence   *)
(* of [name, prefix, names]; transports; artifacts, whether its images are *)
(* listed as artifacts and not as packages; images, a sequence of          *)
(* [id, tag, digest]; runs, from bundles to image ids. It stands for its   *)
(* bytes and for their digest too. Names of tools are those of Manifest.   *)
(***************************************************************************)
EXTENDS Manifest

\* A text with nothing in it.
NoText == ""

----------------------------------------------------------------------------
(* Reading a descriptor. *)

\* The author opted in with groups and got them wrong.
MetaIsMalformed(d) ==
    /\ d.json
    /\ \/ \E i \in DOMAIN d.groups : d.groups[i].name = NoText \/ d.groups[i].names = {}
       \/ \E i, j \in DOMAIN d.groups : i # j /\ d.groups[i].name = d.groups[j].name

\* No groups are the same as none declared.
ParseServerJsonMeta(d) == IF d.json THEN d.groups ELSE <<>>

IsArtifactOnly(d) == d.json /\ d.artifacts /\ d.images # <<>> /\ d.groups = <<>>

\* The images of a descriptor, the first of which is that of the input.
ParsePackagesOci(d) == IF d.json THEN d.images ELSE <<>>

ImagesAreMalformed(d) == \E i \in DOMAIN ParsePackagesOci(d) : d.images[i].id = NoText

ParseBundleDeclarations(d) == IF d.json THEN d.runs ELSE <<>>

\* Artifacts are no packages and declare no transport.
DeclaredTransportTypes(d) == IF d.json THEN d.transports ELSE {}

DeriveRequiresSession(d) == DeclaredTransportTypes(d) \cap {"streamable-http", "sse"} # {}

----------------------------------------------------------------------------
(* Backends. *)

Bare(g) == {n \in g.names : ~ IsPrefix(g.prefix, n)}

\* A group that mixes bare and prefixed names has no prefix to strip.
IsMixed(g) == Bare(g) # {} /\ Bare(g) # g.names

\* Mutant: nothing is stripped, as before bare names were known of.
StripNothing(g) == <<>>

DeriveStripPrefix(g) == IF g.prefix # <<>> /\ Bare(g) # {} THEN g.prefix ELSE <<>>

GeneratedRow(spec, d, name, prefix, strip, claims) ==
    [input |-> spec.name, name |-> name, kind |-> IF spec.uds = NoText THEN "proxy" ELSE "udsForward",
     prefix |-> prefix, strip |-> strip, claims |-> claims, dynamic |-> TRUE, asserted |-> {},
     session |-> spec.uds = NoText /\ DeriveRequiresSession(d)]

\* A UDS connection without a socket, a descriptor that says nothing of its
\* transport and a mixed group are refused.
BackendsAreRefused(spec, d) ==
    /\ ~ IsArtifactOnly(d)
    /\ \/ spec.uds = "nowhere"
       \/ spec.uds = NoText /\ d.json /\ DeclaredTransportTypes(d) = {}
       \/ \E g \in ToSet(ParseServerJsonMeta(d)) : IsMixed(g)

\* One backend per group, none for a publisher of images, and one that claims
\* everything for a descriptor without groups.
DeriveGeneratedBackends(spec, d) ==
    LET groups == ParseServerJsonMeta(d)
    IN  CASE IsArtifactOnly(d) -> <<>>
          [] ~ IsArtifactOnly(d) /\ groups = <<>> ->
                 <<GeneratedRow(spec, d, spec.name, <<>>, <<>>, {})>>
          [] OTHER -> [i \in DOMAIN groups |->
                          GeneratedRow(spec, d, groups[i].name, groups[i].prefix,
                                       DeriveStripPrefix(groups[i]), groups[i].names)]

\* Everything but the images that ends the resolution of an input. A pin is no
\* or one descriptor, the one the operator committed to.
IsRefused(spec, d) ==
    \/ spec.pin \notin {<<>>, <<d>>}
    \/ MetaIsMalformed(d) \/ BackendsAreRefused(spec, d) \/ ImagesAreMalformed(d)
    \/ \E id \in ToSet(ParseBundleDeclarations(d)) :
          \A i \in DOMAIN ParsePackagesOci(d) : d.images[i].id # id

----------------------------------------------------------------------------
(* The overlay. A backend of the manifest is [name, kind, prefix, strip, claims, *)
(* dynamic, asserted].                                                           *)

\* The strict schema of a row knows neither kind nor socketPath.
RowIsRefused(row) == row.kind # "proxy" \/ row.name = NoText

BackendFromGeneratedRow(row) ==
    [name |-> row.name, kind |-> "proxy", prefix |-> row.prefix, strip |-> row.strip,
     claims |-> row.claims, dynamic |-> row.dynamic, asserted |-> {}]

QualifiedName(row) == row.input \o "/" \o row.name

\* Mutant: the rows of another input are treated like the shells of the manifest.
NamePlain(given, row) == row.name

\* The name of a row, qualified by its input when the name was last given to a row
\* of another input.
NameOf(given, row) ==
    IF row.name \in DOMAIN given /\ given[row.name] # row.input THEN QualifiedName(row) ELSE row.name

\* A row replaces the backend of its name in place, else it is appended.
OverlayOne(backends, b) ==
    LET at == {i \in DOMAIN backends : backends[i].name = b.name}
    IN  IF at = {} THEN Append(backends, b)
        ELSE [backends EXCEPT ![CHOOSE i \in at : \A j \in at : j <= i] = b]

\* One row of the loop, which has the backends and, from names to inputs, what was
\* given to rows before.
OverlayRow(done, row) ==
    LET name == NameOf(done.given, row)
    IN  [backends |-> OverlayOne(done.backends, [BackendFromGeneratedRow(row) EXCEPT !.name = name]),
         given |-> [n \in DOMAIN done.given \cup {name} |-> IF n = name THEN row.input ELSE done.given[n]]]

OverlayLockfileBackends(shells, rows) ==
    LET done[i \in 0..Len(rows)] ==
            IF i = 0 THEN [backends |-> shells, given |-> <<>>] ELSE OverlayRow(done[i - 1], rows[i])
    IN  done[Len(rows)].backends

\* Mutant: as before the build knew of backends that cannot be routed to.
BuildValidateStatic(backends) ==
    \A i, j \in DOMAIN backends :
        j < i => /\ backends[i].prefix = backends[j].prefix /\ backends[i].prefix # <<>>
                       => backends[i].claims # {} /\ backends[j].claims # {}
                 /\ backends[j].asserted \cap backends[i].asserted = {}

\* The check of the build, in the order of the backends.
BuildValidate(backends) ==
    \A i \in DOMAIN backends :
        LET b == backends[i]
            seen == {j \in 1..(i - 1) : backends[j].prefix = b.prefix}
        IN  /\ b.dynamic => b.prefix # <<>> \/ b.claims # {}
            /\ b.prefix # <<>> /\ seen # {}
                  => b.claims # {} /\ \E j \in seen : backends[j].claims # {}
            /\ \A t \in b.asserted : IsPrefix(b.prefix, t)
            /\ \A j \in 1..(i - 1) : backends[j].asserted \cap b.asserted = {}
=============================================================================
