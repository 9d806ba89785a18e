------------------------------ MODULE MCLease ------------------------------
(***************************************************************************)
(* Small instances of the lease gate: the clock runs to MaxTime, notme to  *)
(* epoch MaxEpoch.                                                         *)
(***************************************************************************)
EXTENDS Lease, TLC

CONSTANTS MaxTime, MaxEpoch

Cert(n, scope) == [fp |-> "cert", peer |-> "p1", kid |-> n, epoch |-> n, claims |-> TRUE,
                   from |-> 0, to |-> MaxTime, scope |-> scope]

XAny == [tool |-> "x", repo |-> "*"]
XRepo == [tool |-> "x", repo |-> "r"]

OldCert == Cert(1, XAny)
NewCert == Cert(2, XRepo)

MCCerts == {OldCert, NewCert}

\* Unix-ms t stands for the middle of the run.
Envelope(c, t, wants) == [cert |-> c, nonce |-> "n", ts |-> t, wellFormed |-> TRUE,
                          sigOk |-> TRUE, wants |-> wants]

\* Two requests under one certificate that reuse a nonce.
ReplayEnvelopes == {Envelope(OldCert, 1, XRepo), Envelope(OldCert, 3, XAny)}

\* A request under the certificate of the epoch that notme rotates out, and
\* one whose signature does not verify.
RotationEnvelopes == {Envelope(OldCert, 2, XRepo),
                      [Envelope(OldCert, 2, XRepo) EXCEPT !.sigOk = FALSE]}

Production == {[dev |-> FALSE, devMaster |-> FALSE, root |-> TRUE]}

\* Production, production without its root, the three kinds of dev deployment.
Deployed == Production \cup
    {[dev |-> d, devMaster |-> m, root |-> FALSE] : d \in BOOLEAN, m \in BOOLEAN}

VARIABLE part    \* which of the two races this behaviour has

\* denyWhenOff is only read where the gate is off: one value does elsewhere.
Relevant == LeaseEnforced => \A x \in Execs : ~ex'[x].denyWhenOff

Sent(envelopes) == \A x \in Execs : ex'[x].env \in envelopes \cup {NoEnvelope}

\* Deliveries of one envelope race each other, slow calls and the sweep.
ReplayBound ==
    /\ part = "replay" /\ Sent(ReplayEnvelopes) /\ now' <= MaxTime /\ ca'.epoch = ca.epoch

\* Requests fetch and cache bundles while notme rotates. Bound: no sweep.
RotationBound ==
    /\ part = "rotation" /\ alarm' = alarm /\ Sent(RotationEnvelopes) /\ now' < MaxTime /\ ca'.epoch <= MaxEpoch

MCEnvelopes == ReplayEnvelopes \cup RotationEnvelopes

ExecSymmetry == Permutations(Execs)

MCInit ==
    /\ Init /\ part \in {"replay", "rotation"}
    /\ part = "replay" => conf \in Production

MCNext == Next /\ Relevant /\ UNCHANGED part /\ (ReplayBound \/ RotationBound)

MCSpec == MCInit /\ [][MCNext]_<<vars, part>>
=============================================================================
