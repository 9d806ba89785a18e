------------------------------ MODULE MCVault ------------------------------
(***************************************************************************)
(* Small instances of the vault: the clock runs to MaxTime.                *)
(***************************************************************************)
EXTENDS Vault

CONSTANTS k1, bad, MaxTime

Deployment(spec, scoped, dev) == [kek |-> [spec |-> spec, scoped |-> scoped], dev |-> dev]

\* A developer's deployment, one without its source, a tenant-scoped one,
\* and one whose source cannot be built.
MCDeployments ==
    {Deployment(k1, "0", TRUE), Deployment(Unset, "0", FALSE), Deployment(k1, "1", FALSE),
     Deployment(bad, "1", FALSE)}

MCSeed == [peer |-> "p1", service |-> "v", allowed |-> {"u1"}]

Bounded == now' <= MaxTime

BoundedSpec == Init /\ [][Next /\ Bounded]_vars /\ Fairness
=============================================================================
