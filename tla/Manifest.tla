------------------------------ MODULE Manifest ------------------------------
(***************************************************************************)
(* The tool backends a manifest declares and how the MCP edge names and    *)
(* routes their tools: the validation of a manifest, what a backend        *)
(* advertises, which names it handles, and what it calls a tool upstream.  *)
(*                                                                         *)
(* A tool name is a sequence of parts, a prefix is one too, and the empty  *)
(* prefix is <<>>.  A backend of kind "proxy" is an McpProxyToolBackend;   *)
(* the Durable-Object, service-binding, UDS and leyline-net backends share *)
(* the kind "static".                                                      *)
(***************************************************************************)
EXTENDS Naturals, Sequences, SequencesExt, FiniteSets

Modes == {"current", "next", "auto"}

\* An unknown mode is "current".
NormalizeMode(value) == IF value \in {"next", "auto"} THEN value ELSE "current"

------------------------------------------------------------------------------
(* Validation, when the routes are built. *)

\* Two backends share a prefix only if both route by their claims.
PrefixesApart(b, c) ==
    b.prefix = c.prefix /\ b.prefix # <<>> => b.claims # {} /\ c.claims # {}

NamesApart(b, c) == b.asserted \cap c.asserted = {}

\* As if dynamic tools were accepted without either.
AnyDynamic(b) == b.dynamic \in BOOLEAN

\* Dynamic tools need a prefix or claims, so that handles() never depends on
\* what was fetched.
DynamicIsRouted(b) == b.dynamic => b.prefix # <<>> \/ b.claims # {}

Validate(manifest) ==
    /\ \A i, j \in DOMAIN manifest :
         i < j => PrefixesApart(manifest[i], manifest[j]) /\ NamesApart(manifest[i], manifest[j])
    /\ \A i \in DOMAIN manifest :
         /\ DynamicIsRouted(manifest[i])
         /\ \A t \in manifest[i].asserted : IsPrefix(manifest[i].prefix, t)

\* What validation does not ask for and every shipped manifest has: a backend
\* that routes by its claims asserts no tools, and a claim either has the
\* prefix or gets it back where the prefix is stripped.
ClaimsReachable(b) ==
    b.kind = "proxy" /\ b.claims # {} =>
        b.asserted = {} /\ (b.strip = b.prefix \/ \A u \in b.claims : IsPrefix(b.prefix, u))

------------------------------------------------------------------------------
(* Names. *)

DropPrefix(prefix, name) == SubSeq(name, Len(prefix) + 1, Len(name))

\* Which of the upstream's tools a backend keeps.
ClaimsUpstreamName(b, upstreamName) ==
    IF b.claims # {} THEN upstreamName \in b.claims
    ELSE b.prefix # <<>> /\ b.strip = <<>> => IsPrefix(b.prefix, upstreamName)

\* As if a name were prefixed whatever it begins with.
Reprefixed(b, upstreamName) == b.prefix \o upstreamName

\* A name that already has the prefix is not prefixed again.
AdvertisedName(b, upstreamName) ==
    IF IsPrefix(b.prefix, upstreamName) THEN upstreamName ELSE b.prefix \o upstreamName

Tools(b, derived) ==
    b.asserted \cup (IF b.dynamic THEN {AdvertisedName(b, u) : u \in derived} ELSE {})

HandlesStatic(b, name) ==
    IF b.prefix = <<>> THEN name \in b.asserted ELSE IsPrefix(b.prefix, name)

HandlesProxy(b, derived, name) ==
    IF b.claims # {}
    THEN \/ name \in b.claims
         \/ b.strip # <<>> /\ IsPrefix(b.strip, name) /\ DropPrefix(b.strip, name) \in b.claims
    ELSE IF b.prefix # <<>> THEN IsPrefix(b.prefix, name)
    ELSE name \in b.asserted \cup derived

Handles(b, derived, name) ==
    IF b.kind = "proxy" THEN HandlesProxy(b, derived, name) ELSE HandlesStatic(b, name)

\* The name a call carries upstream.
WireName(b, name) ==
    IF b.strip # <<>> /\ IsPrefix(b.strip, name) THEN DropPrefix(b.strip, name) ELSE name

\* The backend a call goes to, and 0 for none: the first that handles it.
BackendFor(manifest, derived, name) ==
    LET able == {i \in DOMAIN manifest : Handles(manifest[i], derived[i], name)}
    IN  IF able = {} THEN 0 ELSE CHOOSE i \in able : \A j \in able : i <= j

\* What tools/list answers: each name once, from the first backend with it.
AllTools(manifest, derived) ==
    UNION {Tools(manifest[i], derived[i]) : i \in DOMAIN manifest}
=============================================================================
