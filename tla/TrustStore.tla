----------------------------- MODULE TrustStore -----------------------------
(***************************************************************************)
(* The audit tables of the TrustStore Durable Object: peer_attestations,   *)
(* the per-peer chain of attestation rows, and pending_attestations, the   *)
(* queue of attestations that did not land at the first try, with the RPC  *)
(* methods that write them and the sweep (drainPendingRetries) that moves  *)
(* rows from the queue to the chain.                                       *)
(*                                                                         *)
(* A row keeps what the properties tell apart: peer, seq, prev_self_ref,   *)
(* content_hash and bead_id.  cert, sig, scope and created_at travel with  *)
(* the content hash; origins is dropped and kept exactly where bead_id is. *)
(*                                                                         *)
(* Atomicity.  A Durable Object runs one JavaScript turn at a time, so     *)
(* code between two awaits is one step.  blockConcurrencyWhile makes the   *)
(* look-up and the insert of applyAttestation one step as well; what a     *)
(* caller, or a sweep, read before it entered the gate may be stale by     *)
(* then.                                                                   *)
(*                                                                         *)
(* Time is kept only as "has this row's backoff elapsed".                  *)
(***************************************************************************)
EXTENDS Naturals, FiniteSets

CONSTANTS
    Peers,              \* peer fingerprints
    Hashes,             \* content hashes
    BeadIds,            \* ids of bead rows
    NoRef,              \* prev_self_ref of a genesis row (SQL NULL)
    NoBead,             \* bead_id of a row that names no bead (SQL NULL)
    Sweeps,             \* invocations of drainPendingRetries
    BatchLimit,         \* most rows one sweep claims
    MaxRetryAttempts    \* failures after which a row is left to a human

ASSUME TrustStoreAssumption ==
    /\ NoRef \notin Hashes
    /\ NoBead \notin BeadIds
    /\ MaxRetryAttempts \in Nat \ {0}
    /\ BatchLimit \in Nat \ {0}

VARIABLES
    attestations,       \* rows of peer_attestations
    pending,            \* rows of pending_attestations
    sweep               \* the local state of each sweep

tsVars == <<attestations, pending, sweep>>

Key == Peers \X Hashes

Attestation == [peer : Peers, seq : Nat \ {0}, prev : Hashes \cup {NoRef},
                hash : Hashes, bead : BeadIds \cup {NoBead}]

Pending == [key : Key, attempts : Nat, retry : {"wait", "due", "never"}]

NoKey == <<>>

(***************************************************************************)
(* A sweep holds the keys it claimed and has not settled yet, the one it   *)
(* is working on, the chain head it read for it, and whether the write     *)
(* landed.                                                                 *)
(***************************************************************************)
SweepState == [phase : {"idle", "apply", "settle", "over"},
               batch : SUBSET Key,
               cur   : Key \cup {NoKey},
               prev  : Hashes \cup {NoRef},
               ok    : BOOLEAN]

TSTypeOK ==
    /\ attestations \subseteq Attestation
    /\ pending \subseteq Pending
    /\ sweep \in [Sweeps -> SweepState]
    /\ \A s \in Sweeps : sweep[s].phase \in {"apply", "settle"} => sweep[s].cur \in Key

TSInit ==
    /\ attestations = {}
    /\ pending = {}
    /\ sweep = [s \in Sweeps |-> [phase |-> "idle", batch |-> {}, cur |-> NoKey,
                                  prev |-> NoRef, ok |-> FALSE]]

-----------------------------------------------------------------------------
(***************************************************************************)
(* peer_attestations                                                       *)
(***************************************************************************)

RowsOf(p) == {a \in attestations : a.peer = p}

\* The row with the highest seq: ORDER BY seq DESC LIMIT 1.
IsHead(a, p) == a \in RowsOf(p) /\ \A b \in RowsOf(p) : b.seq <= a.seq

LastAttestationForPeer(p) == CHOOSE a \in RowsOf(p) : IsHead(a, p)

HeadRef(p) == IF RowsOf(p) = {} THEN NoRef ELSE LastAttestationForPeer(p).hash

HeadSeq(p) == IF RowsOf(p) = {} THEN 0 ELSE LastAttestationForPeer(p).seq

Attested(k) == \E a \in attestations : a.peer = k[1] /\ a.hash = k[2]

\* As if the caller's claim about the head were trusted.
UncheckedApply(p, h, b, prev) ==
    attestations' = attestations \cup
        {[peer |-> p, seq |-> HeadSeq(p) + 1, prev |-> prev, hash |-> h, bead |-> b]}

\* As if a row for the same content were replaced instead of added.
ReplacingApply(p, h, b, prev) ==
    /\ prev = HeadRef(p)
    /\ attestations' = {a \in attestations : a.peer # p \/ a.hash # h} \cup
           {[peer |-> p, seq |-> HeadSeq(p) + 1, prev |-> prev, hash |-> h, bead |-> b]}

\* applyAttestation answers ok: the caller's prev_self_ref names the head,
\* and one row is inserted after it.  Otherwise nothing is written.
ApplyAttestation(p, h, b, prev) ==
    /\ prev = HeadRef(p)
    /\ attestations' = attestations \cup
           {[peer |-> p, seq |-> HeadSeq(p) + 1, prev |-> prev, hash |-> h, bead |-> b]}

-----------------------------------------------------------------------------
(***************************************************************************)
(* pending_attestations                                                    *)
(***************************************************************************)

IsPending(k) == \E q \in pending : q.key = k

\* As if the row kept a NULL when the schedule is exhausted.
NullBackoff(attempts) == IF attempts >= MaxRetryAttempts THEN "null" ELSE "wait"

\* next_retry_at: a time to come, or the sentinel that is never reached.
Backoff(attempts) == IF attempts >= MaxRetryAttempts THEN "never" ELSE "wait"

\* As if enqueueing again reset the row.
ResettingEnqueue(k) ==
    pending' = {q \in pending : q.key # k} \cup
                   {[key |-> k, attempts |-> 0, retry |-> Backoff(0)]}

\* INSERT ... ON CONFLICT DO NOTHING: the row already there stays as it is.
EnqueuePending(k) ==
    pending' = IF IsPending(k) THEN pending
               ELSE pending \cup {[key |-> k, attempts |-> 0, retry |-> Backoff(0)]}

CommitPending(k) == pending' = {q \in pending : q.key # k}

RecordFailedAttempt(k) ==
    pending' = {IF q.key = k
                THEN [q EXCEPT !.attempts = q.attempts + 1,
                               !.retry    = Backoff(q.attempts + 1)]
                ELSE q : q \in pending}

Due == {q \in pending : q.retry = "due" /\ q.attempts < MaxRetryAttempts}

\* The clock passes next_retry_at.
BackoffElapses(q) ==
    /\ q.retry = "wait"
    /\ pending' = (pending \ {q}) \cup {[q EXCEPT !.retry = "due"]}
    /\ UNCHANGED <<attestations, sweep>>

-----------------------------------------------------------------------------
(***************************************************************************)
(* drainPendingRetries.  Between its awaits it takes three kinds of steps: *)
(* claim the batch and read the head for the first row; write, inside the  *)
(* gate; settle the row and read the head for the next.                    *)
(***************************************************************************)

\* The row sets claimRetryBatch may return: the due rows, or BatchLimit of them.
ClaimRetryBatch ==
    {rows \in SUBSET Due : /\ Cardinality(rows) <= BatchLimit
                           /\ rows = Due \/ Cardinality(rows) = BatchLimit}

\* The sweep turns to a row of what is left, or ends when nothing is.
WorkOn(s, left) ==
    \/ \E k \in left :
           sweep' = [sweep EXCEPT ![s] = [phase |-> "apply", batch |-> left, cur |-> k,
                                          prev |-> HeadRef(k[1]), ok |-> FALSE]]
    \/ /\ left = {}
       /\ sweep' = [sweep EXCEPT ![s] = [phase |-> "over", batch |-> {}, cur |-> NoKey,
                                         prev |-> NoRef, ok |-> FALSE]]

StartSweep(s) ==
    /\ sweep[s].phase = "idle"
    /\ Due # {}
    /\ \E rows \in ClaimRetryBatch : WorkOn(s, {q.key : q \in rows})
    /\ UNCHANGED <<attestations, pending>>

\* The write, with the head read before the gate.  The pending row carries
\* no bead_id, so the attestation gets none.
SweepApplied(s) ==
    /\ sweep[s].phase = "apply"
    /\ ApplyAttestation(sweep[s].cur[1], sweep[s].cur[2], NoBead, sweep[s].prev)
    /\ sweep' = [sweep EXCEPT ![s].phase = "settle", ![s].ok = TRUE]
    /\ UNCHANGED pending

\* The head moved since it was read, or the write threw.
SweepRefused(s) ==
    /\ sweep[s].phase = "apply"
    /\ sweep' = [sweep EXCEPT ![s].phase = "settle", ![s].ok = FALSE]
    /\ UNCHANGED <<attestations, pending>>

\* As if the row were dropped whether or not the write landed.
EagerSettle(s) ==
    /\ sweep[s].phase = "settle"
    /\ CommitPending(sweep[s].cur)
    /\ WorkOn(s, sweep[s].batch \ {sweep[s].cur})
    /\ UNCHANGED attestations

\* A row that landed is deleted, any other one counts a failure; so does one
\* whose deletion throws.
SweepSettle(s) ==
    /\ sweep[s].phase = "settle"
    /\ \/ sweep[s].ok /\ CommitPending(sweep[s].cur)
       \/ RecordFailedAttempt(sweep[s].cur)
    /\ WorkOn(s, sweep[s].batch \ {sweep[s].cur})
    /\ UNCHANGED attestations

\* The object is evicted or restarted, or the handler throws: what the sweep
\* knew is gone, the tables stay.
SweepDies(s) ==
    /\ sweep[s].phase \in {"apply", "settle"}
    /\ sweep' = [sweep EXCEPT ![s] = [phase |-> "over", batch |-> {}, cur |-> NoKey,
                                      prev |-> NoRef, ok |-> FALSE]]
    /\ UNCHANGED <<attestations, pending>>

SweepStep(s) ==
    \/ SweepApplied(s)
    \/ SweepRefused(s)
    \/ SweepSettle(s)

-----------------------------------------------------------------------------
(***************************************************************************)
(* The component on its own: its callers may send any RPC at any time and  *)
(* claim any prev_self_ref.                                                *)
(***************************************************************************)

RpcApply(p, h, b, prev) ==
    /\ ApplyAttestation(p, h, b, prev)
    /\ UNCHANGED <<pending, sweep>>

RpcEnqueue(k) ==
    /\ EnqueuePending(k)
    /\ UNCHANGED <<attestations, sweep>>

TSNext ==
    \/ \E p \in Peers, h \in Hashes, b \in BeadIds \cup {NoBead},
          prev \in Hashes \cup {NoRef} : RpcApply(p, h, b, prev)
    \/ \E k \in Key : RpcEnqueue(k)
    \/ \E q \in pending : BackoffElapses(q)
    \/ \E s \in Sweeps : StartSweep(s) \/ SweepStep(s) \/ SweepDies(s)

TSSpec == TSInit /\ [][TSNext]_tsVars

-----------------------------------------------------------------------------
(***************************************************************************)
(* What the component promises.                                            *)
(***************************************************************************)

\* A peer's rows form one chain: no two rows share a seq, a genesis row has
\* no predecessor, and every other row names the content of the row just
\* before it.  Sweeps and direct calls read the head before they enter the
\* gate of applyAttestation, and still can neither fork the chain nor leave
\* a hole in it.
ChainLinked ==
    /\ \A a, b \in attestations : a.peer = b.peer /\ a.seq = b.seq => a = b
    /\ \A a \in attestations :
           \/ a.seq = 1 /\ a.prev = NoRef
           \/ \E b \in attestations :
                  b.peer = a.peer /\ b.seq + 1 = a.seq /\ b.hash = a.prev

\* An attestation, once written, is neither changed nor removed by any RPC,
\* sweep or failure.
AppendOnly == [][attestations \subseteq attestations']_attestations

\* A row leaves the queue only when the chain has its content, however
\* sweeps over the same row overlap, fail or die (commitPending runs after
\* the await of the write, possibly for a row another sweep also claimed).
DroppedOnlyIfAttested ==
    [][\A q \in pending :
           (~ \E r \in pending' : r.key = q.key) => Attested(q.key)]_pending

\* The attempts of a queued row never go down: enqueueing the same write
\* again does not reset them, so a storm of retries cannot hide a failure.
AttemptsNeverReset ==
    [][\A q \in pending : \A r \in pending' : r.key = q.key => r.attempts >= q.attempts]_pending

\* The two tables keep what they were given: attestations are only added, a
\* queued one goes only when it is attested, and its attempts are never
\* forgotten, over sweeps that overlap and die.
TablesKept == AppendOnly /\ DroppedOnlyIfAttested /\ AttemptsNeverReset
=============================================================================
