----------------------------- MODULE MCMcpRoute -----------------------------
(***************************************************************************)
(* Small instances of the /mcp edge.                                       *)
(***************************************************************************)
EXTENDS McpRoute

Backend(prefix, mode, session, speaks, faulty) ==
    [kind |-> "proxy", url |-> "u", prefix |-> prefix, strip |-> prefix, claims |-> {},
     asserted |-> {}, dynamic |-> TRUE, mode |-> mode, session |-> session, speaks |-> speaks,
     faulty |-> faulty]

\* The Durable Object of the beads.
Beads ==
    [Backend(<<>>, "current", FALSE, {"current"}, FALSE) EXCEPT
       !.kind = "static", !.dynamic = FALSE, !.asserted = {<<"bead_create">>}]

\* An "auto" backend whose upstream only knows sessions and fails at times.
Downgrading == <<Backend(<<"m_">>, "auto", TRUE, {"current"}, TRUE), Beads>>

\* Two backends of one upstream's groups, apart by their claims.
Groups ==
    <<[Backend(<<"l_">>, "next", FALSE, {"next"}, FALSE) EXCEPT !.claims = {<<"l_", "h">>}, !.strip = <<>>],
      [Backend(<<"l_">>, "next", FALSE, {"next"}, FALSE) EXCEPT !.claims = {<<"x">>}]>>

\* Two backends that would serve whatever they fetched: no valid manifest.
Unrouted ==
    <<Backend(<<>>, "next", FALSE, {"next"}, FALSE), Backend(<<>>, "next", FALSE, {"next"}, FALSE)>>

MCManifests == {Downgrading, Groups, Unrouted}
MCNames == {<<"m_", "x">>, <<"l_", "h">>, <<"bead_create">>}
MCCatalogs == {{<<"x">>}, {<<"l_", "h">>, <<"x">>}}
MCRoots == {{"a"}}

ASSUME MCManifestsAssumption ==
    \A d \in MCManifests : Validate(d) => \A b \in ToSet(d) : ClaimsReachable(b)

BeadCreateName == <<"bead_create">>
=============================================================================
