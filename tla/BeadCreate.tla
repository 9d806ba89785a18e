----------------------------- MODULE BeadCreate -----------------------------
(***************************************************************************)
(* The bead_create orchestrator: the handoff BlobStore -> BeadStore (or    *)
(* rsry) -> TrustStore -> retry queue that one tools/call runs, composed   *)
(* with the audit tables of TrustStore.  Requests of several peers and     *)
(* sweeps of the retry queue interleave at every await; every call to      *)
(* another Durable Object may fail before or after it took effect; the     *)
(* worker that runs a request may die between two calls.                   *)
(*                                                                         *)
(* A digest is the value of an injective function of what the canonical    *)
(* bytes contain: the content of the call, the id and the second at which  *)
(* the request started.                                                    *)
(***************************************************************************)
EXTENDS TrustStore

CONSTANTS
    Requests,           \* executions of runBeadCreateOrchestrator
    Calls,              \* the beads clients ask for; a retry repeats the call
    PeerOf,             \* the verified peer of each request
    CallOf,             \* the call a request is an attempt at
    Digest(_, _, _),    \* digest of the canonical bytes of (call, id, second)
    Backends,           \* BEAD_STORAGE_BACKEND settings in use
    MaxSecond           \* bound on the clock, in the resolution of datetime('now')

ASSUME BeadCreateAssumption ==
    /\ PeerOf \in [Requests -> Peers]
    /\ CallOf \in [Requests -> Calls]
    /\ Backends \subseteq {"do", "rsry"}
    /\ MaxSecond \in Nat
    /\ \A c \in Calls, i \in BeadIds, t \in 0..MaxSecond : Digest(c, i, t) \in Hashes
    /\ \A c, d \in Calls, i, j \in BeadIds, t, u \in 0..MaxSecond :
           Digest(c, i, t) = Digest(d, j, u) => c = d /\ i = j /\ t = u

VARIABLES
    blobs,      \* digests BlobStore holds
    beads,      \* bead rows, of BeadStore and of rsry
    req         \* the local state of each request

bcVars == <<blobs, beads, req>>

vars == <<attestations, pending, sweep, blobs, beads, req>>

\* digest is the content_hash column; an rsry row has no such column, and the
\* field only says what the row was written for.
Bead == [id : BeadIds, call : Calls, digest : Hashes, at : 0..MaxSecond,
         store : {"do", "rsry"}]

\* What the client sees is pc = "ok" (success), "error" (a JSON-RPC error)
\* or "lost" (the connection broke).  at is the second the request started,
\* bead the id of the row step 2 wrote.
ReqState == [pc   : {"new", "put", "write", "head", "apply", "enqueue", "ok", "error", "lost"},
             id   : BeadIds \cup {NoBead},
             at   : 0..MaxSecond,
             hash : Hashes \cup {NoRef},
             bead : BeadIds \cup {NoBead},
             prev : Hashes \cup {NoRef}]

TypeOK ==
    /\ TSTypeOK
    /\ blobs \subseteq Hashes
    /\ beads \subseteq Bead
    /\ req \in [Requests -> ReqState]

Init ==
    /\ TSInit
    /\ blobs = {}
    /\ beads = {}
    /\ req = [r \in Requests |-> [pc |-> "new", id |-> NoBead, at |-> 0, hash |-> NoRef,
                                  bead |-> NoBead, prev |-> NoRef]]

KeyOf(r) == <<PeerOf[r], req[r].hash>>

Goto(r, pc) == req' = [req EXCEPT ![r].pc = pc]

-----------------------------------------------------------------------------
\* As if the digest were not computed before the bytes are put.
UndigestedBegin(r) ==
    /\ req[r].pc = "new"
    /\ \A q \in Requests \ {r} :
           CallOf[q] = CallOf[r] => req[q].pc \in {"new", "error", "lost"}
    /\ \E id \in BeadIds : req' = [req EXCEPT ![r].pc = "put", ![r].id = id]
    /\ UNCHANGED <<attestations, pending, sweep, blobs, beads>>

\* Step 0: a random id, the canonical bytes, with the second on the clock, and
\* their digest.  A client tries
\* a call again only after its last attempt failed.
Begin(r) ==
    /\ req[r].pc = "new"
    /\ \A q \in Requests \ {r} :
           CallOf[q] = CallOf[r] => req[q].pc \in {"new", "error", "lost"}
    /\ \E id \in BeadIds, now \in 0..MaxSecond :
           req' = [req EXCEPT ![r].pc = "put", ![r].id = id, ![r].at = now,
                              ![r].hash = Digest(CallOf[r], id, now)]
    /\ UNCHANGED <<attestations, pending, sweep, blobs, beads>>

\* Step 1: BlobStore.put, idempotent on the digest.
PutBlob(r) ==
    /\ req[r].pc = "put"
    /\ blobs' = blobs \cup {req[r].hash}
    /\ \/ Goto(r, "write")
       \/ Goto(r, "error")          \* stored, but the reply was lost
    /\ UNCHANGED <<attestations, pending, sweep, beads>>

PutBlobFails(r) ==
    /\ req[r].pc = "put"
    /\ Goto(r, "error")
    /\ UNCHANGED <<attestations, pending, sweep, blobs, beads>>

\* INSERT INTO beads: the row takes the store's own datetime('now'), any time
\* after the request started.
InsertBead(r, id, store) ==
    /\ \A b \in beads : b.store = store => b.id # id
    /\ \E now \in req[r].at..MaxSecond :
           beads' = beads \cup {[id |-> id, call |-> CallOf[r], digest |-> req[r].hash,
                                 at |-> now, store |-> store]}

\* As if the id of step 0 were used whatever the store answers.
PresumingWriteBead(r) ==
    /\ req[r].pc = "write"
    /\ \E store \in Backends, id \in BeadIds :
           /\ store = "do" => id = req[r].id
           /\ InsertBead(r, id, store)
           /\ \/ req' = [req EXCEPT ![r].pc = "head", ![r].bead = req[r].id]
              \/ Goto(r, "error")
    /\ UNCHANGED <<attestations, pending, sweep, blobs>>

\* Step 2: the bead row.  BeadStore keeps the id it is given; rsry answers
\* with the id of the row it made.
WriteBead(r) ==
    /\ req[r].pc = "write"
    /\ \E store \in Backends, id \in BeadIds :
           /\ store = "do" => id = req[r].id
           /\ InsertBead(r, id, store)
           /\ \/ req' = [req EXCEPT ![r].pc = "head", ![r].bead = id]
              \/ Goto(r, "error")   \* written, but the reply was lost or unusable
    /\ UNCHANGED <<attestations, pending, sweep, blobs>>

\* As if an error of the bead store did not stop the pipeline.
SwallowedWriteFails(r) ==
    /\ req[r].pc = "write"
    /\ Goto(r, "head")
    /\ UNCHANGED <<attestations, pending, sweep, blobs, beads>>

\* The id is taken, the store answers with an error, or it is out of reach:
\* the pipeline stops before the TrustStore is touched.
WriteBeadFails(r) ==
    /\ req[r].pc = "write"
    /\ Goto(r, "error")
    /\ UNCHANGED <<attestations, pending, sweep, blobs, beads>>

\* Step 3, first call: lastAttestationForPeer.
ReadHead(r) ==
    /\ req[r].pc = "head"
    /\ req' = [req EXCEPT ![r].pc = "apply", ![r].prev = HeadRef(PeerOf[r])]
    /\ UNCHANGED <<attestations, pending, sweep, blobs, beads>>

\* It is awaited outside the try, so its failure is the request's failure.
ReadHeadFails(r) ==
    /\ req[r].pc = "head"
    /\ Goto(r, "error")
    /\ UNCHANGED <<attestations, pending, sweep, blobs, beads>>

\* As if the head were checked when it is read, not when the row is written.
UngatedApply(r) ==
    /\ req[r].pc = "apply"
    /\ attestations' = attestations \cup
           {[peer |-> PeerOf[r], seq |-> HeadSeq(PeerOf[r]) + 1, prev |-> req[r].prev,
             hash |-> req[r].hash, bead |-> req[r].bead]}
    /\ Goto(r, "ok")
    /\ UNCHANGED <<pending, sweep, blobs, beads>>

\* Step 3, second call: applyAttestation lands.
Apply(r) ==
    /\ req[r].pc = "apply"
    /\ ApplyAttestation(PeerOf[r], req[r].hash, req[r].bead, req[r].prev)
    /\ \/ Goto(r, "ok")
       \/ Goto(r, "enqueue")        \* landed, but the reply was lost
    /\ UNCHANGED <<pending, sweep, blobs, beads>>

\* As if a refused attestation were ignored.
SilentApplyFails(r) ==
    /\ req[r].pc = "apply"
    /\ Goto(r, "ok")
    /\ UNCHANGED <<attestations, pending, sweep, blobs, beads>>

\* applyAttestation answers ok = false (the head moved) or throws.
ApplyFails(r) ==
    /\ req[r].pc = "apply"
    /\ Goto(r, "enqueue")
    /\ UNCHANGED <<attestations, pending, sweep, blobs, beads>>

\* Step 4: enqueuePendingAttestation.  The caller's bead_create succeeds.
Enqueue(r) ==
    /\ req[r].pc = "enqueue"
    /\ EnqueuePending(KeyOf(r))
    /\ \/ Goto(r, "ok")
       \/ Goto(r, "error")          \* queued, but the reply was lost
    /\ UNCHANGED <<attestations, sweep, blobs, beads>>

EnqueueFails(r) ==
    /\ req[r].pc = "enqueue"
    /\ Goto(r, "error")
    /\ UNCHANGED <<attestations, pending, sweep, blobs, beads>>

\* The worker dies between two calls.
Crash(r) ==
    /\ req[r].pc \notin {"new", "ok", "error", "lost"}
    /\ Goto(r, "lost")
    /\ UNCHANGED <<attestations, pending, sweep, blobs, beads>>

Step(r) ==
    \/ PutBlob(r)   \/ PutBlobFails(r)
    \/ WriteBead(r) \/ WriteBeadFails(r)
    \/ ReadHead(r)  \/ ReadHeadFails(r)
    \/ Apply(r)     \/ ApplyFails(r)
    \/ Enqueue(r)   \/ EnqueueFails(r)

Elapse == \E q \in pending : BackoffElapses(q)

Queue(s) == StartSweep(s) \/ SweepStep(s) \/ SweepDies(s)

Next ==
    \/ \E r \in Requests : Begin(r) \/ Step(r) \/ Crash(r)
    \/ Elapse /\ UNCHANGED bcVars
    \/ \E s \in Sweeps : Queue(s) /\ UNCHANGED bcVars

Spec == Init /\ [][Next]_vars

-----------------------------------------------------------------------------
(***************************************************************************)
(* Properties                                                              *)
(***************************************************************************)

Accounted(k) == Attested(k) \/ IsPending(k)

\* A client that was told bead_create succeeded can rely on the audit trail:
\* its write is attested or queued, now and ever after, whatever other
\* requests, sweeps and failures came between (steps 3 and 4 of
\* runBeadCreateOrchestrator, and drainPendingRetries).
AckedIsAccounted == \A r \in Requests : req[r].pc = "ok" => Accounted(KeyOf(r))

\* The audit trail never speaks of a write that is not there: the content of
\* every attestation and of every queued row is in BlobStore, and a bead row
\* was committed for it before the TrustStore was touched.
EvidenceGrounded ==
    \A k \in Key :
        Accounted(k) =>
            /\ k[2] \in blobs
            /\ \E b \in beads : b.digest = k[2]

\* A bead_id in the audit trail leads to the bead that was attested: the join
\* attestationsForBead relies on finds a row written for the same content.
BeadLinkIsRight ==
    \A a \in attestations :
        a.bead # NoBead => \E b \in beads : b.id = a.bead /\ b.digest = a.hash

\* "A TrustStore failure does NOT throw - the attestation is enqueued for
\* retry" (the comment on runBeadCreateOrchestrator): after the bead row is
\* written, a request fails only from the attempt to enqueue.
TrustFailureDoesNotThrow ==
    [][\A r \in Requests :
           req[r].bead # NoBead /\ req'[r].pc = "error" => req[r].pc \in {"enqueue", "error"}]_req
=============================================================================
