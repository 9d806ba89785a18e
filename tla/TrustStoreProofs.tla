-------------------------- MODULE TrustStoreProofs --------------------------
(***************************************************************************)
(* What the audit tables of TrustStore promise, proved for every set of    *)
(* peers, hashes and bead ids, every number of overlapping sweeps and      *)
(* every batch and retry limit.                                            *)
(*                                                                         *)
(* The invariant that carries the proofs, SafeInv, adds three facts to     *)
(* type correctness and to the linked chain: a peer with rows has a row    *)
(* with the highest seq (so CHOOSE finds the head), the queue holds a key  *)
(* once, and a sweep that believes its write landed is right.              *)
(***************************************************************************)
EXTENDS TrustStore, TLAPS

HeadExists == \A p \in Peers : RowsOf(p) # {} => \E a \in attestations : IsHead(a, p)

QueueHasKeyOnce == \A q, r \in pending : q.key = r.key => q = r

SweepIsRight ==
    \A s \in Sweeps : sweep[s].phase = "settle" /\ sweep[s].ok => Attested(sweep[s].cur)

SafeInv == ChainLinked /\ HeadExists /\ QueueHasKeyOnce /\ SweepIsRight

-----------------------------------------------------------------------------
(***************************************************************************)
(* The head of a chain                                                     *)
(***************************************************************************)

\* The row lastAttestationForPeer returns is a head, when there is a row.
LEMMA HeadIsHead ==
    ASSUME HeadExists, NEW p \in Peers, RowsOf(p) # {}
    PROVE  IsHead(LastAttestationForPeer(p), p)
BY Zenon DEF HeadExists, LastAttestationForPeer, IsHead, RowsOf

\* Its hash and seq are values of the columns.
LEMMA HeadType ==
    ASSUME TSTypeOK, HeadExists, NEW p \in Peers
    PROVE  HeadRef(p) \in Hashes \cup {NoRef} /\ HeadSeq(p) \in Nat
<1>1. CASE RowsOf(p) = {}
  BY <1>1 DEF HeadRef, HeadSeq
<1>2. CASE RowsOf(p) # {}
  <2>1. LastAttestationForPeer(p) \in Attestation
    BY <1>2, HeadIsHead DEF IsHead, RowsOf, TSTypeOK
  <2> QED
    BY <1>2, <2>1 DEF HeadRef, HeadSeq, Attestation
<1> QED
  BY <1>1, <1>2

-----------------------------------------------------------------------------
(***************************************************************************)
(* Type correctness                                                        *)
(***************************************************************************)

LEMMA ApplyType ==
    ASSUME TSTypeOK, HeadExists,
           NEW p \in Peers, NEW h \in Hashes, NEW b \in BeadIds \cup {NoBead},
           NEW prev \in Hashes \cup {NoRef}, ApplyAttestation(p, h, b, prev)
    PROVE  attestations' \subseteq Attestation
<1>1. HeadSeq(p) \in Nat
  BY HeadType
<1>2. [peer |-> p, seq |-> HeadSeq(p) + 1, prev |-> prev, hash |-> h, bead |-> b] \in Attestation
  BY <1>1 DEF Attestation
<1> QED
  BY <1>2 DEF TSTypeOK, ApplyAttestation

LEMMA BackoffType == ASSUME NEW n \in Nat PROVE Backoff(n) \in {"wait", "never"}
BY DEF Backoff

LEMMA EnqueueType ==
    ASSUME TSTypeOK, NEW k \in Key, EnqueuePending(k)
    PROVE  pending' \subseteq Pending
<1>1. [key |-> k, attempts |-> 0, retry |-> Backoff(0)] \in Pending
  BY BackoffType DEF Pending
<1> QED
  BY <1>1 DEF TSTypeOK, EnqueuePending

LEMMA WorkOnType ==
    ASSUME TSTypeOK, HeadExists, NEW s \in Sweeps, NEW left \in SUBSET Key, WorkOn(s, left)
    PROVE  /\ sweep' \in [Sweeps -> SweepState]
           /\ \A t \in Sweeps : sweep'[t].phase \in {"apply", "settle"} => sweep'[t].cur \in Key
<1>1. CASE left = {} /\ sweep' = [sweep EXCEPT ![s] = [phase |-> "over", batch |-> {}, cur |-> NoKey,
                                                       prev |-> NoRef, ok |-> FALSE]]
  BY <1>1 DEF TSTypeOK, SweepState
<1>2. ASSUME NEW k \in left,
             sweep' = [sweep EXCEPT ![s] = [phase |-> "apply", batch |-> left, cur |-> k,
                                            prev |-> HeadRef(k[1]), ok |-> FALSE]]
      PROVE  /\ sweep' \in [Sweeps -> SweepState]
             /\ \A t \in Sweeps : sweep'[t].phase \in {"apply", "settle"} => sweep'[t].cur \in Key
  <2>1. k \in Key /\ k[1] \in Peers
    BY DEF Key
  <2>2. HeadRef(k[1]) \in Hashes \cup {NoRef}
    BY <2>1, HeadType
  <2>3. [phase |-> "apply", batch |-> left, cur |-> k, prev |-> HeadRef(k[1]), ok |-> FALSE]
            \in SweepState
    BY <2>1, <2>2 DEF SweepState
  <2> QED
    BY <1>2, <2>1, <2>3 DEF TSTypeOK
<1> QED
  BY <1>1, <1>2 DEF WorkOn

LEMMA RecordFailedType ==
    ASSUME TSTypeOK, NEW k \in Key, RecordFailedAttempt(k)
    PROVE  pending' \subseteq Pending
<1>1. SUFFICES ASSUME NEW q \in pending
               PROVE  [q EXCEPT !.attempts = q.attempts + 1,
                                !.retry    = Backoff(q.attempts + 1)] \in Pending
  BY DEF RecordFailedAttempt, TSTypeOK
<1>2. q \in Pending /\ q.attempts + 1 \in Nat
  BY DEF TSTypeOK, Pending
<1>3. Backoff(q.attempts + 1) \in {"wait", "never"}
  BY <1>2, BackoffType
<1> QED
  BY <1>2, <1>3 DEF Pending

\* Every step of the component keeps the types.  The chain must have a head
\* for the type of what a sweep or a caller reads of it.
LEMMA TypeStep ==
    ASSUME TSTypeOK, HeadExists, [TSNext]_tsVars
    PROVE  TSTypeOK'
<1>1. ASSUME NEW p \in Peers, NEW h \in Hashes, NEW b \in BeadIds \cup {NoBead},
             NEW prev \in Hashes \cup {NoRef}, RpcApply(p, h, b, prev)
      PROVE  TSTypeOK'
  <2>1. attestations' \subseteq Attestation
    BY <1>1, ApplyType DEF RpcApply
  <2> QED
    BY <1>1, <2>1 DEF RpcApply, TSTypeOK
<1>2. ASSUME NEW k \in Key, RpcEnqueue(k)
      PROVE  TSTypeOK'
  <2>1. pending' \subseteq Pending
    BY <1>2, EnqueueType DEF RpcEnqueue
  <2> QED
    BY <1>2, <2>1 DEF RpcEnqueue, TSTypeOK
<1>3. ASSUME NEW q \in pending, BackoffElapses(q)
      PROVE  TSTypeOK'
  <2>1. [q EXCEPT !.retry = "due"] \in Pending
    BY DEF TSTypeOK, Pending
  <2> QED
    BY <1>3, <2>1 DEF BackoffElapses, TSTypeOK
<1>4. ASSUME NEW s \in Sweeps, StartSweep(s)
      PROVE  TSTypeOK'
  <2>1. PICK rows \in ClaimRetryBatch : WorkOn(s, {q.key : q \in rows})
    BY <1>4 DEF StartSweep
  <2>2. {q.key : q \in rows} \in SUBSET Key
    BY <2>1 DEF ClaimRetryBatch, Due, TSTypeOK, Pending
  <2>3. /\ sweep' \in [Sweeps -> SweepState]
        /\ \A t \in Sweeps : sweep'[t].phase \in {"apply", "settle"} => sweep'[t].cur \in Key
    BY <2>1, <2>2, WorkOnType
  <2> QED
    BY <1>4, <2>3 DEF StartSweep, TSTypeOK
<1>5. ASSUME NEW s \in Sweeps, SweepApplied(s)
      PROVE  TSTypeOK'
  <2>1. /\ sweep[s].cur[1] \in Peers /\ sweep[s].cur[2] \in Hashes
        /\ sweep[s].prev \in Hashes \cup {NoRef}
    BY <1>5 DEF SweepApplied, TSTypeOK, SweepState, Key
  <2>2. attestations' \subseteq Attestation
    BY <1>5, <2>1, ApplyType DEF SweepApplied
  <2>3. /\ sweep' \in [Sweeps -> SweepState]
        /\ \A t \in Sweeps : sweep'[t].phase \in {"apply", "settle"} => sweep'[t].cur \in Key
    BY <1>5 DEF SweepApplied, TSTypeOK, SweepState
  <2> QED
    BY <1>5, <2>2, <2>3 DEF SweepApplied, TSTypeOK
<1>6. ASSUME NEW s \in Sweeps, SweepRefused(s)
      PROVE  TSTypeOK'
  BY <1>6 DEF SweepRefused, TSTypeOK, SweepState
<1>7. ASSUME NEW s \in Sweeps, SweepSettle(s)
      PROVE  TSTypeOK'
  <2>1. sweep[s].cur \in Key /\ sweep[s].batch \ {sweep[s].cur} \in SUBSET Key
    BY <1>7 DEF SweepSettle, TSTypeOK, SweepState
  <2>2. pending' \subseteq Pending
    BY <1>7, <2>1, RecordFailedType DEF SweepSettle, CommitPending, TSTypeOK
  <2>3. /\ sweep' \in [Sweeps -> SweepState]
        /\ \A t \in Sweeps : sweep'[t].phase \in {"apply", "settle"} => sweep'[t].cur \in Key
    BY <1>7, <2>1, WorkOnType DEF SweepSettle
  <2> QED
    BY <1>7, <2>2, <2>3 DEF SweepSettle, TSTypeOK
<1>8. ASSUME NEW s \in Sweeps, SweepDies(s)
      PROVE  TSTypeOK'
  BY <1>8 DEF SweepDies, TSTypeOK, SweepState
<1>9. CASE UNCHANGED tsVars
  BY <1>9 DEF tsVars, TSTypeOK
<1> QED
  BY <1>1, <1>2, <1>3, <1>4, <1>5, <1>6, <1>7, <1>8, <1>9 DEF TSNext, SweepStep

-----------------------------------------------------------------------------
(***************************************************************************)
(* The chain                                                               *)
(***************************************************************************)

\* Inserting after the head keeps a linked chain linked, and its new row is
\* the new head.
LEMMA ApplyKeepsChain ==
    ASSUME TSTypeOK, ChainLinked, HeadExists,
           NEW p \in Peers, NEW h \in Hashes, NEW b \in BeadIds \cup {NoBead},
           NEW prev, ApplyAttestation(p, h, b, prev)
    PROVE  ChainLinked' /\ HeadExists'
<1>1. PICK new : /\ new = [peer |-> p, seq |-> HeadSeq(p) + 1, prev |-> prev,
                           hash |-> h, bead |-> b]
                 /\ attestations' = attestations \cup {new}
                 /\ prev = HeadRef(p)
  BY DEF ApplyAttestation
<1>2. HeadSeq(p) \in Nat
  BY HeadType
<1>3. \A a \in attestations : a.seq \in Nat
  BY DEF TSTypeOK, Attestation
<1>4. \A a \in attestations : a.peer = p => a.seq <= HeadSeq(p)
  <2>1. CASE RowsOf(p) = {}
    BY <2>1 DEF RowsOf
  <2>2. CASE RowsOf(p) # {}
    BY <2>2, HeadIsHead DEF IsHead, RowsOf, HeadSeq
  <2> QED
    BY <2>1, <2>2
<1>5. \/ new.seq = 1 /\ new.prev = NoRef
      \/ \E a \in attestations : a.peer = p /\ a.seq + 1 = new.seq /\ a.hash = new.prev
  <2>1. CASE RowsOf(p) = {}
    BY <1>1, <2>1 DEF HeadRef, HeadSeq
  <2>2. CASE RowsOf(p) # {}
    <3>1. LastAttestationForPeer(p) \in attestations /\ LastAttestationForPeer(p).peer = p
      BY <2>2, HeadIsHead DEF IsHead, RowsOf
    <3> QED
      BY <1>1, <2>2, <3>1 DEF HeadRef, HeadSeq
  <2> QED
    BY <2>1, <2>2
<1>6. ChainLinked'
  <2>1. \A a, c \in attestations' : a.peer = c.peer /\ a.seq = c.seq => a = c
    BY <1>1, <1>2, <1>3, <1>4 DEF ChainLinked
  <2>2. \A a \in attestations' :
            \/ a.seq = 1 /\ a.prev = NoRef
            \/ \E c \in attestations' : c.peer = a.peer /\ c.seq + 1 = a.seq /\ c.hash = a.prev
    BY <1>1, <1>5 DEF ChainLinked
  <2> QED
    BY <2>1, <2>2 DEF ChainLinked
<1>7. HeadExists'
  <2>1. SUFFICES ASSUME NEW q \in Peers, RowsOf(q)' # {}
                 PROVE  \E a \in attestations' : IsHead(a, q)'
    BY DEF HeadExists
  <2>2. CASE q = p
    <3>1. \A a \in attestations' : a.peer = p => a.seq <= new.seq
      BY <1>1, <1>2, <1>3, <1>4
    <3>2. new \in attestations' /\ IsHead(new, p)'
      BY <1>1, <3>1 DEF IsHead, RowsOf
    <3> QED
      BY <2>2, <3>2
  <2>3. CASE q # p
    <3>1. RowsOf(q)' = RowsOf(q)
      BY <1>1, <2>3 DEF RowsOf
    <3>2. PICK a \in attestations : IsHead(a, q)
      BY <2>1, <3>1 DEF HeadExists
    <3> QED
      BY <1>1, <3>1, <3>2 DEF IsHead
  <2> QED
    BY <2>2, <2>3
<1> QED
  BY <1>6, <1>7

\* A step either inserts one row after a head or leaves the chain alone.
LEMMA ChainStep ==
    ASSUME TSTypeOK, [TSNext]_tsVars
    PROVE  \/ \E p \in Peers, h \in Hashes, b \in BeadIds \cup {NoBead},
                 prev \in Hashes \cup {NoRef} : ApplyAttestation(p, h, b, prev)
           \/ UNCHANGED attestations
<1>1. ASSUME NEW s \in Sweeps, SweepApplied(s)
      PROVE  \E p \in Peers, h \in Hashes, b \in BeadIds \cup {NoBead},
                prev \in Hashes \cup {NoRef} : ApplyAttestation(p, h, b, prev)
  <2>1. /\ sweep[s].cur[1] \in Peers /\ sweep[s].cur[2] \in Hashes
        /\ sweep[s].prev \in Hashes \cup {NoRef}
    BY <1>1 DEF SweepApplied, TSTypeOK, SweepState, Key
  <2>2. ApplyAttestation(sweep[s].cur[1], sweep[s].cur[2], NoBead, sweep[s].prev)
    BY <1>1 DEF SweepApplied
  <2> QED
    BY <2>1, <2>2
<1>2. CASE \E p \in Peers, h \in Hashes, b \in BeadIds \cup {NoBead},
              prev \in Hashes \cup {NoRef} : RpcApply(p, h, b, prev)
  BY <1>2 DEF RpcApply
<1>3. CASE \E k \in Key : RpcEnqueue(k)
  BY <1>3 DEF RpcEnqueue
<1>4. CASE \E q \in pending : BackoffElapses(q)
  BY <1>4 DEF BackoffElapses
<1>5. CASE \E s \in Sweeps : StartSweep(s) \/ SweepStep(s) \/ SweepDies(s)
  BY <1>1, <1>5 DEF StartSweep, SweepStep, SweepRefused, SweepSettle, SweepDies
<1>6. CASE UNCHANGED tsVars
  BY <1>6 DEF tsVars
<1> QED
  BY <1>2, <1>3, <1>4, <1>5, <1>6 DEF TSNext

\* No step takes an attestation away.
LEMMA ChainGrows ==
    ASSUME TSTypeOK, [TSNext]_tsVars
    PROVE  attestations \subseteq attestations'
BY ChainStep DEF ApplyAttestation

LEMMA AttestedStays ==
    ASSUME TSTypeOK, [TSNext]_tsVars, NEW k, Attested(k)
    PROVE  Attested(k)'
BY ChainGrows DEF Attested

LEMMA ChainInvStep ==
    ASSUME TSTypeOK, ChainLinked, HeadExists, [TSNext]_tsVars
    PROVE  ChainLinked' /\ HeadExists'
<1>1. CASE UNCHANGED attestations
  BY <1>1 DEF ChainLinked, HeadExists, RowsOf, IsHead
<1>2. ASSUME NEW p \in Peers, NEW h \in Hashes, NEW b \in BeadIds \cup {NoBead},
             NEW prev \in Hashes \cup {NoRef}, ApplyAttestation(p, h, b, prev)
      PROVE  ChainLinked' /\ HeadExists'
  BY <1>2, ApplyKeepsChain
<1> QED
  BY <1>1, <1>2, ChainStep

-----------------------------------------------------------------------------
(***************************************************************************)
(* The queue                                                               *)
(***************************************************************************)

\* What a step may do to the queue.
LEMMA QueueStep ==
    ASSUME [TSNext]_tsVars
    PROVE  \/ \E k \in Key : EnqueuePending(k)
           \/ \E q \in pending : BackoffElapses(q)
           \/ \E s \in Sweeps : SweepSettle(s)
           \/ UNCHANGED pending
BY DEF TSNext, tsVars, RpcApply, RpcEnqueue, StartSweep, SweepStep, SweepApplied,
       SweepRefused, SweepDies

\* A key stays unique in the queue.
LEMMA QueueKeyStep ==
    ASSUME TSTypeOK, QueueHasKeyOnce, [TSNext]_tsVars
    PROVE  QueueHasKeyOnce'
<1>1. ASSUME NEW k \in Key, EnqueuePending(k)
      PROVE  QueueHasKeyOnce'
  BY <1>1 DEF EnqueuePending, QueueHasKeyOnce, IsPending
<1>2. ASSUME NEW q \in pending, BackoffElapses(q)
      PROVE  QueueHasKeyOnce'
  <2>1. [q EXCEPT !.retry = "due"].key = q.key
    BY DEF TSTypeOK, Pending
  <2> QED
    BY <1>2, <2>1 DEF BackoffElapses, QueueHasKeyOnce
<1>3. ASSUME NEW s \in Sweeps, SweepSettle(s)
      PROVE  QueueHasKeyOnce'
  <2>1. CASE CommitPending(sweep[s].cur)
    BY <2>1 DEF CommitPending, QueueHasKeyOnce
  <2>2. CASE RecordFailedAttempt(sweep[s].cur)
    <3>1. \A q \in pending : [q EXCEPT !.attempts = q.attempts + 1,
                                       !.retry    = Backoff(q.attempts + 1)].key = q.key
      BY DEF TSTypeOK, Pending
    <3>2. SUFFICES ASSUME NEW q \in pending', NEW r \in pending', q.key = r.key
                   PROVE  q = r
      BY DEF QueueHasKeyOnce
    <3> DEFINE Failed(d) == IF d.key = sweep[s].cur
                            THEN [d EXCEPT !.attempts = d.attempts + 1,
                                           !.retry    = Backoff(d.attempts + 1)]
                            ELSE d
    <3>3. PICK d \in pending : q = Failed(d)
      BY <2>2 DEF RecordFailedAttempt
    <3>4. PICK e \in pending : r = Failed(e)
      BY <2>2 DEF RecordFailedAttempt
    <3>5. Failed(d).key = d.key /\ Failed(e).key = e.key
      BY <3>1
    <3>6. d = e
      BY <3>2, <3>3, <3>4, <3>5 DEF QueueHasKeyOnce
    <3> QED
      BY <3>3, <3>4, <3>6
  <2> QED
    BY <1>3, <2>1, <2>2 DEF SweepSettle
<1>4. CASE UNCHANGED pending
  BY <1>4 DEF QueueHasKeyOnce
<1> QED
  BY <1>1, <1>2, <1>3, <1>4, QueueStep

\* A sweep that turns to settle with ok has just written the row it is on.
LEMMA SweepRightStep ==
    ASSUME TSTypeOK, SweepIsRight, [TSNext]_tsVars
    PROVE  SweepIsRight'
<1>1. SUFFICES ASSUME NEW t \in Sweeps, sweep'[t].phase = "settle", sweep'[t].ok
               PROVE  Attested(sweep[t].cur)'
  BY DEF SweepIsRight
<1>2. CASE sweep'[t] = sweep[t]
  BY <1>1, <1>2, AttestedStays DEF SweepIsRight
<1>3. ASSUME NEW s \in Sweeps, SweepApplied(s), s = t
      PROVE  Attested(sweep[t].cur)'
  <2>1. sweep'[t].cur = sweep[t].cur
    BY <1>3 DEF SweepApplied, TSTypeOK, SweepState
  <2>2. \E a \in attestations' : a.peer = sweep[t].cur[1] /\ a.hash = sweep[t].cur[2]
    <3> DEFINE new == [peer |-> sweep[t].cur[1], seq |-> HeadSeq(sweep[t].cur[1]) + 1,
                       prev |-> sweep[t].prev, hash |-> sweep[t].cur[2], bead |-> NoBead]
    <3>1. new \in attestations'
      BY <1>3 DEF SweepApplied, ApplyAttestation
    <3> QED
      BY <3>1
  <2> QED
    BY <2>1, <2>2 DEF Attested
<1>4. ASSUME NEW s \in Sweeps, SweepApplied(s), s # t
      PROVE  sweep'[t] = sweep[t]
  BY <1>4 DEF SweepApplied, TSTypeOK
<1>5. ASSUME NEW s \in Sweeps, StartSweep(s) \/ SweepSettle(s)
      PROVE  sweep'[t] = sweep[t]
  BY <1>1, <1>5 DEF StartSweep, SweepSettle, WorkOn, TSTypeOK
<1>6. ASSUME NEW s \in Sweeps, SweepRefused(s) \/ SweepDies(s)
      PROVE  sweep'[t] = sweep[t]
  BY <1>1, <1>6 DEF SweepRefused, SweepDies, TSTypeOK, SweepState
<1>7. \/ \E s \in Sweeps : StartSweep(s) \/ SweepStep(s) \/ SweepDies(s)
      \/ UNCHANGED sweep
  BY DEF TSNext, tsVars, RpcApply, RpcEnqueue, BackoffElapses
<1> QED
  BY <1>2, <1>3, <1>4, <1>5, <1>6, <1>7 DEF SweepStep

-----------------------------------------------------------------------------
(***************************************************************************)
(* The theorems                                                            *)
(***************************************************************************)

LEMMA SafeInit == TSInit => TSTypeOK /\ SafeInv
BY DEF TSInit, TSTypeOK, SafeInv, ChainLinked, HeadExists, RowsOf, QueueHasKeyOnce,
       SweepIsRight, SweepState

LEMMA SafeStep ==
    ASSUME TSTypeOK, SafeInv, [TSNext]_tsVars
    PROVE  TSTypeOK' /\ SafeInv'
BY TypeStep, ChainInvStep, QueueKeyStep, SweepRightStep DEF SafeInv

\* The invariant holds throughout.
THEOREM TSInvariant == TSSpec => [](TSTypeOK /\ SafeInv)
<1>1. TSTypeOK /\ SafeInv /\ [TSNext]_tsVars => TSTypeOK' /\ SafeInv'
  BY SafeStep
<1> QED
  BY SafeInit, <1>1, PTL DEF TSSpec

\* A peer's attestations form one chain without forks or holes, whatever the
\* interleaving of callers and sweeps (applyAttestation under its gate).
THEOREM TSChainLinked == TSSpec => []ChainLinked
<1>1. TSTypeOK /\ SafeInv => ChainLinked
  BY DEF SafeInv
<1> QED
  BY <1>1, TSInvariant, PTL

\* Attestations are never changed or removed.
THEOREM TSAppendOnly == TSSpec => AppendOnly
<1>1. TSTypeOK /\ [TSNext]_tsVars => [attestations \subseteq attestations']_attestations
  BY ChainGrows
<1> QED
  BY <1>1, TSInvariant, PTL DEF TSSpec, AppendOnly

LEMMA DroppedIsAttested ==
    ASSUME TSTypeOK, SafeInv, [TSNext]_tsVars, NEW q \in pending,
           ~ \E r \in pending' : r.key = q.key
    PROVE  Attested(q.key)
<1>1. ASSUME NEW k \in Key, EnqueuePending(k)
      PROVE  FALSE
  BY <1>1 DEF EnqueuePending
<1>2. ASSUME NEW d \in pending, BackoffElapses(d)
      PROVE  FALSE
  <2>1. [d EXCEPT !.retry = "due"].key = d.key
    BY DEF TSTypeOK, Pending
  <2> QED
    BY <1>2, <2>1 DEF BackoffElapses
<1>3. ASSUME NEW s \in Sweeps, SweepSettle(s), RecordFailedAttempt(sweep[s].cur)
      PROVE  FALSE
  <2>1. [q EXCEPT !.attempts = q.attempts + 1,
                  !.retry    = Backoff(q.attempts + 1)].key = q.key
    BY DEF TSTypeOK, Pending
  <2> QED
    BY <1>3, <2>1 DEF RecordFailedAttempt
<1>4. ASSUME NEW s \in Sweeps, SweepSettle(s), sweep[s].ok, CommitPending(sweep[s].cur)
      PROVE  Attested(q.key)
  <2>1. q.key = sweep[s].cur
    BY <1>4 DEF CommitPending
  <2>2. Attested(sweep[s].cur)
    BY <1>4 DEF SafeInv, SweepIsRight, SweepSettle
  <2> QED
    BY <2>1, <2>2
<1> QED
  BY <1>1, <1>2, <1>3, <1>4, QueueStep DEF SweepSettle

\* A row leaves the queue only when the chain has its content.
THEOREM TSDroppedOnlyIfAttested == TSSpec => DroppedOnlyIfAttested
<1>1. TSTypeOK /\ SafeInv /\ [TSNext]_tsVars =>
          [\A q \in pending : (~ \E r \in pending' : r.key = q.key) => Attested(q.key)]_pending
  BY DroppedIsAttested
<1> QED
  BY <1>1, TSInvariant, PTL DEF TSSpec, DroppedOnlyIfAttested

\* The attempts of a queued row never go down.
THEOREM TSAttemptsNeverReset == TSSpec => AttemptsNeverReset
<1>1. ASSUME TSTypeOK, SafeInv, [TSNext]_tsVars,
             NEW q \in pending, NEW r \in pending', r.key = q.key
      PROVE  r.attempts >= q.attempts
  <2>0. /\ \A d \in pending : d.key = q.key => d = q
        /\ \A d \in pending : d \in Pending /\ d.attempts \in Nat
    BY <1>1 DEF SafeInv, QueueHasKeyOnce, TSTypeOK, Pending
  <2>1. ASSUME NEW k \in Key, EnqueuePending(k)
        PROVE  r.attempts >= q.attempts
    BY <1>1, <2>0, <2>1 DEF EnqueuePending, IsPending
  <2>2. ASSUME NEW d \in pending, BackoffElapses(d)
        PROVE  r.attempts >= q.attempts
    <3>1. [d EXCEPT !.retry = "due"].key = d.key /\ [d EXCEPT !.retry = "due"].attempts = d.attempts
      BY <2>0 DEF Pending
    <3>2. r \in pending \/ r = [d EXCEPT !.retry = "due"]
      BY <1>1, <2>2 DEF BackoffElapses
    <3>3. CASE r \in pending
      BY <1>1, <2>0, <3>3
    <3>4. CASE r = [d EXCEPT !.retry = "due"]
      <4>1. d = q
        BY <1>1, <2>0, <3>1, <3>4
      <4> QED
        BY <2>0, <3>1, <3>4, <4>1
    <3> QED
      BY <3>2, <3>3, <3>4
  <2>3. ASSUME NEW k, CommitPending(k)
        PROVE  r.attempts >= q.attempts
    BY <1>1, <2>0, <2>3 DEF CommitPending
  <2>4. ASSUME NEW k, RecordFailedAttempt(k)
        PROVE  r.attempts >= q.attempts
    <3>1. PICK d \in pending :
              r = IF d.key = k THEN [d EXCEPT !.attempts = d.attempts + 1,
                                              !.retry    = Backoff(d.attempts + 1)]
                  ELSE d
      BY <1>1, <2>4 DEF RecordFailedAttempt
    <3>2. r.key = d.key /\ r.attempts >= d.attempts
      BY <2>0, <3>1 DEF Pending
    <3> QED
      BY <1>1, <2>0, <3>2
  <2>5. CASE UNCHANGED pending
    BY <1>1, <2>0, <2>5
  <2>6. ASSUME NEW s \in Sweeps, SweepSettle(s)
        PROVE  r.attempts >= q.attempts
    BY <2>3, <2>4, <2>6 DEF SweepSettle
  <2> QED
    BY <1>1, <2>1, <2>2, <2>5, <2>6, QueueStep
<1>2. TSTypeOK /\ SafeInv /\ [TSNext]_tsVars =>
          [\A q \in pending : \A r \in pending' :
               r.key = q.key => r.attempts >= q.attempts]_pending
  BY <1>1
<1> QED
  BY <1>2, TSInvariant, PTL DEF TSSpec, AttemptsNeverReset

\* What the audit tables owe their callers over time: applyAttestation never
\* takes anything back, and the queue loses neither a row nor an attempt.
THEOREM TSTablesKept == TSSpec => TablesKept
  BY TSAppendOnly, TSDroppedOnlyIfAttested, TSAttemptsNeverReset DEF TablesKept
=============================================================================
