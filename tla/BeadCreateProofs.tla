-------------------------- MODULE BeadCreateProofs --------------------------
(***************************************************************************)
(* The bead_create pipeline, proved for every number of requests, sweeps,  *)
(* peers, calls, ids and seconds, and for either bead store.               *)
(*                                                                         *)
(* Refinement comes first: seen from the audit tables, every step of the   *)
(* pipeline is a step the component allows or a stutter, so the theorems   *)
(* about the component hold in the pipeline.  The properties of the        *)
(* pipeline then follow from GroundInv, which says what a request, and a   *)
(* sweep, has behind it at each stage.                                     *)
(***************************************************************************)
EXTENDS BeadCreate, TrustStoreProofs

Grounded(k) ==
    /\ k[2] \in blobs
    /\ \E b \in beads : b.digest = k[2]

\* A request that has begun has a digest.
ReqHashed == \A r \in Requests : req[r].pc # "new" => req[r].hash \in Hashes

\* A request past step 1 has its blob, one past step 2 its bead row.
ReqGrounded ==
    \A r \in Requests :
        /\ req[r].pc \in {"write", "head", "apply", "enqueue", "ok"} => req[r].hash \in blobs
        /\ req[r].pc \in {"head", "apply", "enqueue", "ok"} =>
               \E b \in beads : b.id = req[r].bead /\ b.digest = req[r].hash

\* A sweep works on what the queue held.
SweepGrounded ==
    \A s \in Sweeps :
        /\ \A k \in sweep[s].batch : Grounded(k)
        /\ sweep[s].phase \in {"apply", "settle"} => sweep[s].cur \in sweep[s].batch

TablesGrounded ==
    /\ \A a \in attestations : Grounded(<<a.peer, a.hash>>)
    /\ \A q \in pending : Grounded(q.key)

GroundInv == ReqGrounded /\ SweepGrounded /\ TablesGrounded

-----------------------------------------------------------------------------
(***************************************************************************)
(* Refinement                                                              *)
(***************************************************************************)

\* A step of the pipeline is a step of the audit tables, or leaves them.
LEMMA StepRefines ==
    ASSUME TypeOK, ReqHashed, [Next]_vars
    PROVE  [TSNext]_tsVars
<1> USE DEF tsVars
<1>1. ASSUME NEW r \in Requests, Apply(r)
      PROVE  TSNext
  <2>1. RpcApply(PeerOf[r], req[r].hash, req[r].bead, req[r].prev)
    BY <1>1 DEF Apply, RpcApply
  <2>2. /\ PeerOf[r] \in Peers /\ req[r].hash \in Hashes
        /\ req[r].bead \in BeadIds \cup {NoBead} /\ req[r].prev \in Hashes \cup {NoRef}
    BY <1>1, BeadCreateAssumption DEF Apply, ReqHashed, TypeOK, ReqState
  <2> QED
    BY <2>1, <2>2 DEF TSNext
<1>2. ASSUME NEW r \in Requests, Enqueue(r)
      PROVE  TSNext
  <2>1. RpcEnqueue(KeyOf(r))
    BY <1>2 DEF Enqueue, RpcEnqueue
  <2>2. KeyOf(r) \in Key
    BY <1>2, BeadCreateAssumption DEF Enqueue, ReqHashed, KeyOf, Key
  <2> QED
    BY <2>1, <2>2 DEF TSNext
<1>3. ASSUME NEW r \in Requests,
             \/ Begin(r) \/ Crash(r) \/ PutBlob(r) \/ PutBlobFails(r) \/ WriteBead(r)
             \/ WriteBeadFails(r) \/ ReadHead(r) \/ ReadHeadFails(r) \/ ApplyFails(r)
             \/ EnqueueFails(r)
      PROVE  UNCHANGED tsVars
  BY <1>3 DEF Begin, Crash, PutBlob, PutBlobFails, WriteBead, WriteBeadFails, ReadHead,
              ReadHeadFails, ApplyFails, EnqueueFails
<1>4. CASE \E r \in Requests : Begin(r) \/ Step(r) \/ Crash(r)
  BY <1>1, <1>2, <1>3, <1>4 DEF Step
<1>5. CASE Elapse /\ UNCHANGED bcVars
  BY <1>5 DEF Elapse, TSNext
<1>6. CASE \E s \in Sweeps : Queue(s) /\ UNCHANGED bcVars
  BY <1>6 DEF Queue, TSNext
<1>7. CASE UNCHANGED vars
  BY <1>7 DEF vars
<1> QED
  BY <1>4, <1>5, <1>6, <1>7 DEF Next

\* What a step may do to the state of the pipeline.
LEMMA RequestStep ==
    ASSUME [Next]_vars
    PROVE  \/ \E r \in Requests : Begin(r) \/ Step(r) \/ Crash(r)
           \/ UNCHANGED <<blobs, beads, req>>
BY DEF Next, vars, bcVars

\* A request's own step leaves the other requests alone.
LEMMA OtherRequests ==
    ASSUME TypeOK, NEW r \in Requests, Begin(r) \/ Step(r) \/ Crash(r),
           NEW q \in Requests, q # r
    PROVE  req'[q] = req[q]
BY DEF TypeOK, Begin, Step, Crash, Goto, PutBlob, PutBlobFails, WriteBead, WriteBeadFails,
       ReadHead, ReadHeadFails, Apply, ApplyFails, Enqueue, EnqueueFails

LEMMA InsertType ==
    ASSUME TypeOK, ReqHashed, NEW r \in Requests, req[r].pc = "write", NEW id \in BeadIds,
           NEW store \in Backends, InsertBead(r, id, store)
    PROVE  beads' \subseteq Bead
<1>1. PICK now \in req[r].at..MaxSecond :
          beads' = beads \cup {[id |-> id, call |-> CallOf[r], digest |-> req[r].hash,
                                at |-> now, store |-> store]}
  BY DEF InsertBead
<1>2. now \in 0..MaxSecond
  BY BeadCreateAssumption DEF TypeOK, ReqState
<1>3. [id |-> id, call |-> CallOf[r], digest |-> req[r].hash, at |-> now, store |-> store]
          \in Bead
  BY <1>2, BeadCreateAssumption DEF Bead, TypeOK, ReqHashed
<1> QED
  BY <1>1, <1>3 DEF TypeOK

LEMMA RequestType ==
    ASSUME TypeOK, ReqHashed, HeadExists, [Next]_vars
    PROVE  /\ blobs' \subseteq Hashes /\ beads' \subseteq Bead
           /\ req' \in [Requests -> ReqState] /\ ReqHashed'
<1> DEFINE Goal == /\ blobs' \subseteq Hashes /\ beads' \subseteq Bead
                   /\ req' \in [Requests -> ReqState] /\ ReqHashed'
<1>1. ASSUME NEW r \in Requests, Begin(r)
      PROVE  Goal
  <2>1. PICK id \in BeadIds, now \in 0..MaxSecond :
            req' = [req EXCEPT ![r].pc = "put", ![r].id = id, ![r].at = now,
                               ![r].hash = Digest(CallOf[r], id, now)]
    BY <1>1 DEF Begin
  <2>2. Digest(CallOf[r], id, now) \in Hashes
    BY BeadCreateAssumption DEF TypeOK
  <2>3. PICK d \in Hashes :
            req' = [req EXCEPT ![r].pc = "put", ![r].id = id, ![r].at = now, ![r].hash = d]
    BY <2>1, <2>2
  <2>4. req' \in [Requests -> ReqState]
    <3>1. req[r] \in ReqState
      BY DEF TypeOK
    <3>2. [req[r] EXCEPT !.pc = "put", !.id = id, !.at = now, !.hash = d] \in ReqState
      BY <3>1 DEF ReqState
    <3>3. req' = [req EXCEPT ![r] = [req[r] EXCEPT !.pc = "put", !.id = id, !.at = now, !.hash = d]]
      BY <2>3 DEF TypeOK
    <3> QED
      BY <3>2, <3>3 DEF TypeOK
  <2>5. ReqHashed'
    BY <2>3 DEF TypeOK, ReqState, ReqHashed
  <2> QED
    BY <1>1, <2>4, <2>5 DEF Begin, TypeOK
<1>2. ASSUME NEW r \in Requests, WriteBead(r)
      PROVE  Goal
  <2>1. PICK store \in Backends, id \in BeadIds :
            /\ InsertBead(r, id, store)
            /\ \/ req' = [req EXCEPT ![r].pc = "head", ![r].bead = id]
               \/ Goto(r, "error")
    BY <1>2 DEF WriteBead
  <2>2. beads' \subseteq Bead
    BY <1>2, <2>1, InsertType DEF WriteBead
  <2>3. req' \in [Requests -> ReqState] /\ ReqHashed'
    BY <1>2, <2>1 DEF WriteBead, Goto, TypeOK, ReqState, ReqHashed
  <2> QED
    BY <1>2, <2>2, <2>3 DEF WriteBead, TypeOK
<1>3. ASSUME NEW r \in Requests, ReadHead(r)
      PROVE  Goal
  <2>1. HeadRef(PeerOf[r]) \in Hashes \cup {NoRef}
    BY BeadCreateAssumption, HeadType DEF TypeOK
  <2> QED
    BY <1>3, <2>1 DEF ReadHead, TypeOK, ReqState, ReqHashed
<1>4. ASSUME NEW r \in Requests, PutBlob(r) \/ PutBlobFails(r)
      PROVE  Goal
  BY <1>4 DEF PutBlob, PutBlobFails, Goto, TypeOK, ReqState, ReqHashed
<1>5. ASSUME NEW r \in Requests,
             WriteBeadFails(r) \/ ReadHeadFails(r) \/ ApplyFails(r) \/ EnqueueFails(r) \/ Crash(r)
      PROVE  Goal
  BY <1>5 DEF WriteBeadFails, ReadHeadFails, ApplyFails, EnqueueFails, Crash, Goto, TypeOK,
              ReqState, ReqHashed
<1>6. ASSUME NEW r \in Requests, Apply(r) \/ Enqueue(r)
      PROVE  Goal
  <2>1. PICK pc \in {"ok", "enqueue", "error"} : req' = [req EXCEPT ![r].pc = pc]
    BY <1>6 DEF Apply, Enqueue, Goto
  <2>2. req[r].pc \in {"apply", "enqueue"}
    BY <1>6 DEF Apply, Enqueue
  <2>3. req' \in [Requests -> ReqState]
    BY <2>1 DEF TypeOK, ReqState
  <2>4. ReqHashed'
    BY <2>1, <2>2 DEF TypeOK, ReqState, ReqHashed
  <2> QED
    BY <1>6, <2>3, <2>4 DEF Apply, Enqueue, TypeOK
<1>7. CASE UNCHANGED <<blobs, beads, req>>
  BY <1>7 DEF TypeOK, ReqHashed
<1> QED
  BY <1>1, <1>2, <1>3, <1>4, <1>5, <1>6, <1>7, RequestStep DEF Step

\* Types, the digests of requests and the invariant of the audit tables.
BaseInv == TypeOK /\ ReqHashed /\ SafeInv

LEMMA BaseInit == Init => BaseInv
<1> SUFFICES ASSUME Init PROVE BaseInv
  OBVIOUS
<1>1. TSTypeOK /\ SafeInv
  BY SafeInit DEF Init
<1> QED
  BY <1>1, BeadCreateAssumption DEF Init, BaseInv, TypeOK, ReqHashed, ReqState

LEMMA BaseStep ==
    ASSUME BaseInv, [Next]_vars
    PROVE  BaseInv'
<1>1. TSTypeOK' /\ SafeInv'
  BY StepRefines, SafeStep DEF BaseInv, TypeOK
<1> QED
  BY <1>1, RequestType DEF BaseInv, TypeOK, SafeInv

\* Every variable stays within its type, in the whole pipeline.
THEOREM BaseInvariant == Spec => []BaseInv
<1>1. BaseInv /\ [Next]_vars => BaseInv'
  BY BaseStep
<1> QED
  BY BaseInit, <1>1, PTL DEF Spec

\* The state of the pipeline and of the tables it writes has its type.
THEOREM PipelineTypes == Spec => []TypeOK
<1>1. BaseInv => TypeOK
  BY DEF BaseInv
<1> QED
  BY <1>1, BaseInvariant, PTL

\* The pipeline uses the audit tables as their specification allows.
THEOREM PipelineRefinesTrustStore == Spec => TSSpec
<1>1. Init => TSInit
  BY DEF Init
<1>2. BaseInv /\ [Next]_vars => [TSNext]_tsVars
  BY StepRefines DEF BaseInv
<1> QED
  BY <1>1, <1>2, BaseInvariant, PTL DEF Spec, TSSpec

-----------------------------------------------------------------------------
(***************************************************************************)
(* What the audit trail rests on                                           *)
(***************************************************************************)

\* Blobs and bead rows are never removed.
LEMMA EvidenceStays ==
    ASSUME [Next]_vars
    PROVE  blobs \subseteq blobs' /\ beads \subseteq beads'
<1>1. ASSUME NEW r \in Requests, Begin(r) \/ Step(r) \/ Crash(r)
      PROVE  blobs \subseteq blobs' /\ beads \subseteq beads'
  BY <1>1 DEF Begin, Step, Crash, PutBlob, PutBlobFails, WriteBead, WriteBeadFails, InsertBead,
              ReadHead, ReadHeadFails, Apply, ApplyFails, Enqueue, EnqueueFails
<1> QED
  BY <1>1, RequestStep

LEMMA GroundedStays ==
    ASSUME [Next]_vars, NEW k, Grounded(k)
    PROVE  Grounded(k)'
BY EvidenceStays DEF Grounded

LEMMA ReqGroundedStep ==
    ASSUME TypeOK, ReqGrounded, [Next]_vars
    PROVE  ReqGrounded'
<1> DEFINE G(r) ==
        /\ req[r].pc \in {"write", "head", "apply", "enqueue", "ok"} => req[r].hash \in blobs
        /\ req[r].pc \in {"head", "apply", "enqueue", "ok"} =>
               \E b \in beads : b.id = req[r].bead /\ b.digest = req[r].hash
<1>1. SUFFICES ASSUME NEW q \in Requests PROVE G(q)'
  BY DEF ReqGrounded
<1>2. G(q)
  BY DEF ReqGrounded
<1>3. CASE req'[q] = req[q]
  BY <1>2, <1>3, EvidenceStays
<1>4. CASE Begin(q)
  BY <1>4 DEF Begin, TypeOK, ReqState
<1>5. CASE PutBlob(q)
  BY <1>5 DEF PutBlob, Goto, TypeOK, ReqState
<1>6. CASE WriteBead(q)
  <2>1. PICK store \in Backends, id \in BeadIds :
            /\ InsertBead(q, id, store)
            /\ \/ req' = [req EXCEPT ![q].pc = "head", ![q].bead = id]
               \/ Goto(q, "error")
    BY <1>6 DEF WriteBead
  <2>2. CASE Goto(q, "error")
    BY <2>2 DEF Goto, TypeOK, ReqState
  <2>3. CASE req' = [req EXCEPT ![q].pc = "head", ![q].bead = id]
    <3>1. \E row \in beads' : row.id = id /\ row.digest = req[q].hash
      <4>1. PICK now \in req[q].at..MaxSecond :
                beads' = beads \cup {[id |-> id, call |-> CallOf[q], digest |-> req[q].hash,
                                      at |-> now, store |-> store]}
        BY <2>1 DEF InsertBead
      <4>2. PICK row \in beads' : row = [id |-> id, call |-> CallOf[q], digest |-> req[q].hash,
                                         at |-> now, store |-> store]
        BY <4>1
      <4> QED
        BY <4>2
    <3>2. req'[q].bead = id /\ req'[q].hash = req[q].hash
      BY <2>3 DEF TypeOK, ReqState
    <3>3. req'[q].hash \in blobs'
      BY <1>2, <1>6, <3>2, EvidenceStays DEF WriteBead
    <3>4. \E b \in beads' : b.id = req'[q].bead /\ b.digest = req'[q].hash
      BY <3>1, <3>2
    <3> QED
      BY <3>3, <3>4
  <2> QED
    BY <2>1, <2>2, <2>3
<1>7. CASE \/ PutBlobFails(q) \/ WriteBeadFails(q) \/ ReadHeadFails(q) \/ EnqueueFails(q)
          \/ Crash(q)
  BY <1>7 DEF PutBlobFails, WriteBeadFails, ReadHeadFails, EnqueueFails, Crash, Goto, TypeOK, ReqState
<1>8. CASE ReadHead(q) \/ Apply(q) \/ ApplyFails(q) \/ Enqueue(q)
  <2>1. /\ req[q].pc \in {"head", "apply", "enqueue"}
        /\ req'[q].hash = req[q].hash /\ req'[q].bead = req[q].bead
    BY <1>8 DEF ReadHead, Apply, ApplyFails, Enqueue, Goto, TypeOK, ReqState
  <2> QED
    BY <1>2, <2>1, EvidenceStays
<1>9. ASSUME NEW r \in Requests, r # q, Begin(r) \/ Step(r) \/ Crash(r)
      PROVE  req'[q] = req[q]
  BY <1>9, OtherRequests
<1> QED
  BY <1>3, <1>4, <1>5, <1>6, <1>7, <1>8, <1>9, RequestStep DEF Step

\* A sweep claims only what is queued, and its batch only shrinks.
LEMMA SweepGroundedStep ==
    ASSUME TypeOK, TablesGrounded, SweepGrounded, [Next]_vars
    PROVE  SweepGrounded'
<1>1. ASSUME NEW s \in Sweeps, NEW left, WorkOn(s, left), \A k \in left : Grounded(k)
      PROVE  SweepGrounded'
  <2>1. \A t \in Sweeps : t # s => sweep'[t] = sweep[t]
    BY <1>1 DEF WorkOn, TypeOK, TSTypeOK
  <2>2. /\ \A k \in sweep'[s].batch : Grounded(k)
        /\ sweep'[s].phase \in {"apply", "settle"} => sweep'[s].cur \in sweep'[s].batch
    BY <1>1 DEF WorkOn, TypeOK, TSTypeOK
  <2> QED
    BY <2>1, <2>2, GroundedStays DEF SweepGrounded
<1>2. ASSUME NEW s \in Sweeps, StartSweep(s)
      PROVE  SweepGrounded'
  <2>1. PICK rows \in ClaimRetryBatch : WorkOn(s, {q.key : q \in rows})
    BY <1>2 DEF StartSweep
  <2>2. \A q \in rows : q \in pending
    BY DEF ClaimRetryBatch, Due
  <2>3. \A k \in {q.key : q \in rows} : Grounded(k)
    BY <2>2 DEF TablesGrounded
  <2> QED
    BY <1>1, <2>1, <2>3
<1>3. ASSUME NEW s \in Sweeps, SweepSettle(s)
      PROVE  SweepGrounded'
  BY <1>1, <1>3 DEF SweepSettle, SweepGrounded
<1>4. ASSUME NEW s \in Sweeps, SweepApplied(s) \/ SweepRefused(s) \/ SweepDies(s)
      PROVE  SweepGrounded'
  <2>1. \A t \in Sweeps : t # s => sweep'[t] = sweep[t]
    BY <1>4 DEF SweepApplied, SweepRefused, SweepDies, TypeOK, TSTypeOK
  <2>2. /\ sweep'[s].batch \subseteq sweep[s].batch
        /\ sweep'[s].phase \in {"apply", "settle"} =>
               /\ sweep[s].phase = "apply"
               /\ sweep'[s].cur = sweep[s].cur
               /\ sweep'[s].batch = sweep[s].batch
    BY <1>4 DEF SweepApplied, SweepRefused, SweepDies, TypeOK, TSTypeOK, SweepState
  <2> QED
    BY <2>1, <2>2, GroundedStays DEF SweepGrounded
<1>5. CASE UNCHANGED sweep
  BY <1>5, GroundedStays DEF SweepGrounded
<1>6. \/ UNCHANGED sweep
      \/ \E s \in Sweeps : Queue(s)
  BY DEF Next, vars, Elapse, BackoffElapses, Begin, Step, Crash, PutBlob, PutBlobFails,
         WriteBead, WriteBeadFails, ReadHead, ReadHeadFails, Apply, ApplyFails, Enqueue,
         EnqueueFails
<1> QED
  BY <1>2, <1>3, <1>4, <1>5, <1>6 DEF Queue, SweepStep

\* What is written to the tables comes from a request past step 2, or from a
\* sweep.
LEMMA TablesGroundedStep ==
    ASSUME TypeOK, GroundInv, [Next]_vars
    PROVE  TablesGrounded'
<1>1. ASSUME NEW p, NEW h, NEW b, NEW prev, ApplyAttestation(p, h, b, prev),
             Grounded(<<p, h>>), UNCHANGED pending
      PROVE  TablesGrounded'
  <2>1. PICK new : /\ new = [peer |-> p, seq |-> HeadSeq(p) + 1, prev |-> prev, hash |-> h,
                             bead |-> b]
                   /\ attestations' = attestations \cup {new}
    BY <1>1 DEF ApplyAttestation
  <2>2. \A a \in attestations' : Grounded(<<a.peer, a.hash>>)
    <3>1. Grounded(<<new.peer, new.hash>>)
      BY <1>1, <2>1 DEF Grounded
    <3> QED
      BY <2>1, <3>1 DEF GroundInv, TablesGrounded
  <2> QED
    BY <1>1, <2>2, GroundedStays DEF GroundInv, TablesGrounded
<1>2. ASSUME NEW r \in Requests, Apply(r)
      PROVE  TablesGrounded'
  <2>1. Grounded(<<PeerOf[r], req[r].hash>>)
    BY <1>2 DEF Apply, GroundInv, ReqGrounded, Grounded
  <2> QED
    BY <1>1, <1>2, <2>1 DEF Apply
<1>3. ASSUME NEW s \in Sweeps, SweepApplied(s)
      PROVE  TablesGrounded'
  <2>1. Grounded(sweep[s].cur)
    BY <1>3 DEF SweepApplied, GroundInv, SweepGrounded
  <2>2. Grounded(<<sweep[s].cur[1], sweep[s].cur[2]>>)
    BY <2>1 DEF Grounded
  <2> QED
    BY <1>1, <1>3, <2>2 DEF SweepApplied
<1>4. ASSUME UNCHANGED attestations, \A q \in pending' : \E d \in pending : q.key = d.key
      PROVE  TablesGrounded'
  BY <1>4, GroundedStays DEF GroundInv, TablesGrounded
<1>5. ASSUME NEW r \in Requests, Enqueue(r)
      PROVE  TablesGrounded'
  <2>1. Grounded(KeyOf(r))
    BY <1>5 DEF Enqueue, GroundInv, ReqGrounded, Grounded, KeyOf
  <2>2. \A q \in pending' : q \in pending \/ q.key = KeyOf(r)
    BY <1>5 DEF Enqueue, EnqueuePending
  <2>3. \A q \in pending' : Grounded(q.key)
    BY <2>1, <2>2 DEF GroundInv, TablesGrounded
  <2> QED
    BY <1>5, <2>3, GroundedStays DEF Enqueue, GroundInv, TablesGrounded
<1>6. ASSUME NEW d \in pending, BackoffElapses(d)
      PROVE  TablesGrounded'
  <2>1. [d EXCEPT !.retry = "due"].key = d.key
    BY DEF TypeOK, TSTypeOK, Pending
  <2> QED
    BY <1>4, <1>6, <2>1 DEF BackoffElapses
<1>7. ASSUME NEW s \in Sweeps, SweepSettle(s)
      PROVE  TablesGrounded'
  <2>1. CASE CommitPending(sweep[s].cur)
    BY <1>4, <1>7, <2>1 DEF SweepSettle, CommitPending
  <2>2. CASE RecordFailedAttempt(sweep[s].cur)
    <3>1. \A d \in pending : [d EXCEPT !.attempts = d.attempts + 1,
                                       !.retry    = Backoff(d.attempts + 1)].key = d.key
      BY DEF TypeOK, TSTypeOK, Pending
    <3>2. \A q \in pending' : \E d \in pending : q.key = d.key
      BY <2>2, <3>1 DEF RecordFailedAttempt
    <3> QED
      BY <1>4, <1>7, <3>2 DEF SweepSettle
  <2> QED
    BY <1>7, <2>1, <2>2 DEF SweepSettle
<1>8. CASE UNCHANGED <<attestations, pending>>
  BY <1>4, <1>8
<1>9. \/ UNCHANGED <<attestations, pending>>
      \/ \E r \in Requests : Apply(r) \/ Enqueue(r)
      \/ \E q \in pending : BackoffElapses(q)
      \/ \E s \in Sweeps : SweepApplied(s) \/ SweepSettle(s)
  BY DEF Next, vars, Elapse, Queue, StartSweep, SweepStep, SweepRefused, SweepDies, Begin,
         Step, Crash, PutBlob, PutBlobFails, WriteBead, WriteBeadFails, ReadHead, ReadHeadFails,
         ApplyFails, EnqueueFails
<1> QED
  BY <1>2, <1>3, <1>5, <1>6, <1>7, <1>8, <1>9

\* What requests and sweeps hold and the tables name was written before.
THEOREM GroundInvariant == Spec => []GroundInv
<1>1. Init => GroundInv
  BY DEF Init, TSInit, GroundInv, ReqGrounded, SweepGrounded, TablesGrounded
<1>2. BaseInv /\ GroundInv /\ [Next]_vars => GroundInv'
  BY ReqGroundedStep, SweepGroundedStep, TablesGroundedStep DEF BaseInv, GroundInv
<1> QED
  BY <1>1, <1>2, BaseInvariant, PTL DEF Spec

\* The audit trail never speaks of a write that is not there: the order of
\* the steps of runBeadCreateOrchestrator is what makes it so.
THEOREM PipelineEvidenceGrounded == Spec => []EvidenceGrounded
<1>1. GroundInv => EvidenceGrounded
  BY DEF GroundInv, TablesGrounded, EvidenceGrounded, Grounded, Accounted, Attested, IsPending
<1> QED
  BY <1>1, GroundInvariant, PTL

\* A bead_id written to the chain is that of the row the request committed;
\* a sweep writes none.
LEMMA LinkStep ==
    ASSUME GroundInv, BeadLinkIsRight, [Next]_vars
    PROVE  BeadLinkIsRight'
<1> DEFINE Linked(a) == a.bead # NoBead => \E b \in beads : b.id = a.bead /\ b.digest = a.hash
<1>1. SUFFICES ASSUME NEW a \in attestations' PROVE Linked(a)'
  BY DEF BeadLinkIsRight
<1>2. CASE a \in attestations
  BY <1>2, EvidenceStays DEF BeadLinkIsRight
<1>3. ASSUME NEW r \in Requests, Apply(r), a \notin attestations
      PROVE  Linked(a)'
  <2>1. a.bead = req[r].bead /\ a.hash = req[r].hash
    BY <1>3 DEF Apply, ApplyAttestation
  <2>2. \E b \in beads : b.id = req[r].bead /\ b.digest = req[r].hash
    BY <1>3 DEF Apply, GroundInv, ReqGrounded
  <2> QED
    BY <2>1, <2>2, EvidenceStays
<1>4. ASSUME NEW s \in Sweeps, SweepApplied(s), a \notin attestations
      PROVE  Linked(a)'
  <2>1. a.bead = NoBead
    BY <1>4 DEF SweepApplied, ApplyAttestation
  <2> QED
    BY <2>1
<1>5. \/ UNCHANGED attestations
      \/ \E r \in Requests : Apply(r)
      \/ \E s \in Sweeps : SweepApplied(s)
  BY DEF Next, vars, Elapse, Queue, StartSweep, BackoffElapses, SweepStep, SweepRefused,
         SweepSettle, SweepDies, Begin, Step, Crash, PutBlob, PutBlobFails, WriteBead,
         WriteBeadFails, ReadHead, ReadHeadFails, ApplyFails, Enqueue, EnqueueFails
<1> QED
  BY <1>2, <1>3, <1>4, <1>5

\* A bead_id in the audit trail leads to the bead that was attested, also where
\* rsry chose the id of the row.
THEOREM PipelineBeadLinkIsRight == Spec => []BeadLinkIsRight
<1>1. Init => BeadLinkIsRight
  BY DEF Init, TSInit, BeadLinkIsRight
<1>2. GroundInv /\ BeadLinkIsRight /\ [Next]_vars => BeadLinkIsRight'
  BY LinkStep
<1> QED
  BY <1>1, <1>2, GroundInvariant, PTL DEF Spec

-----------------------------------------------------------------------------
(***************************************************************************)
(* What a client that got an answer can rely on                            *)
(***************************************************************************)

\* Attested stays attested; queued stays queued until it is attested.
LEMMA AccountedStays ==
    ASSUME BaseInv, [Next]_vars, NEW k, Accounted(k)
    PROVE  Accounted(k)'
<1>1. [TSNext]_tsVars
  BY StepRefines DEF BaseInv
<1>2. CASE Attested(k)
  BY <1>1, <1>2, AttestedStays DEF Accounted, BaseInv, TypeOK
<1>3. ASSUME NEW q \in pending, q.key = k
      PROVE  Accounted(k)'
  <2>1. CASE \E r \in pending' : r.key = q.key
    BY <1>3, <2>1 DEF Accounted, IsPending
  <2>2. CASE ~ \E r \in pending' : r.key = q.key
    <3>1. Attested(k)
      BY <1>1, <1>3, <2>2, DroppedIsAttested DEF BaseInv, TypeOK
    <3> QED
      BY <1>2, <3>1
  <2> QED
    BY <2>1, <2>2
<1> QED
  BY <1>2, <1>3 DEF Accounted, IsPending

LEMMA AckedStep ==
    ASSUME BaseInv, AckedIsAccounted, [Next]_vars
    PROVE  AckedIsAccounted'
<1>1. SUFFICES ASSUME NEW q \in Requests, req'[q].pc = "ok"
               PROVE  Accounted(KeyOf(q))'
  BY DEF AckedIsAccounted
<1>2. ASSUME req'[q].hash = req[q].hash, Accounted(<<PeerOf[q], req[q].hash>>)'
      PROVE  Accounted(KeyOf(q))'
  BY <1>2 DEF KeyOf, Accounted, Attested, IsPending
<1>3. CASE req'[q] = req[q]
  BY <1>1, <1>2, <1>3, AccountedStays DEF AckedIsAccounted, KeyOf
<1>4. CASE Apply(q)
  <2>1. \E new \in attestations' : new.peer = PeerOf[q] /\ new.hash = req[q].hash
    <3> DEFINE new == [peer |-> PeerOf[q], seq |-> HeadSeq(PeerOf[q]) + 1, prev |-> req[q].prev,
                       hash |-> req[q].hash, bead |-> req[q].bead]
    <3>1. new \in attestations'
      BY <1>4 DEF Apply, ApplyAttestation
    <3> QED
      BY <3>1
  <2>2. req'[q].hash = req[q].hash
    BY <1>4 DEF Apply, Goto, BaseInv, TypeOK, ReqState
  <2> QED
    BY <1>2, <2>1, <2>2 DEF Accounted, Attested
<1>5. CASE Enqueue(q)
  <2>1. \E r \in pending' : r.key = KeyOf(q)
    <3>1. CASE IsPending(KeyOf(q))
      BY <1>5, <3>1 DEF Enqueue, EnqueuePending, IsPending
    <3>2. CASE ~ IsPending(KeyOf(q))
      <4>1. [key |-> KeyOf(q), attempts |-> 0, retry |-> Backoff(0)] \in pending'
        BY <1>5, <3>2 DEF Enqueue, EnqueuePending
      <4> QED
        BY <4>1
    <3> QED
      BY <3>1, <3>2
  <2>2. req'[q].hash = req[q].hash
    BY <1>5 DEF Enqueue, Goto, BaseInv, TypeOK, ReqState
  <2> QED
    BY <1>2, <2>1, <2>2 DEF Accounted, IsPending, KeyOf
<1>6. CASE \/ Begin(q) \/ Crash(q) \/ PutBlob(q) \/ PutBlobFails(q) \/ WriteBead(q)
          \/ WriteBeadFails(q) \/ ReadHead(q) \/ ReadHeadFails(q) \/ ApplyFails(q)
          \/ EnqueueFails(q)
  <2>0. q \in Requests /\ req \in [Requests -> ReqState]
    BY DEF BaseInv, TypeOK
  <2>1. CASE Begin(q) \/ WriteBead(q) \/ ReadHead(q)
    <3>1. CASE Begin(q)
      <4>1. PICK id \in BeadIds, now \in 0..MaxSecond :
                req' = [req EXCEPT ![q].pc = "put", ![q].id = id, ![q].at = now,
                                   ![q].hash = Digest(CallOf[q], id, now)]
        BY <3>1 DEF Begin
      <4> QED
        BY <1>1, <2>0, <4>1 DEF ReqState
    <3>2. CASE WriteBead(q) \/ ReadHead(q)
      BY <1>1, <2>0, <3>2 DEF WriteBead, ReadHead, Goto, ReqState
    <3> QED
      BY <2>1, <3>1, <3>2
  <2>2. CASE \/ Crash(q) \/ PutBlob(q) \/ PutBlobFails(q) \/ WriteBeadFails(q)
            \/ ReadHeadFails(q) \/ ApplyFails(q) \/ EnqueueFails(q)
    BY <1>1, <2>0, <2>2 DEF Crash, PutBlob, PutBlobFails, WriteBeadFails, ReadHeadFails,
                            ApplyFails, EnqueueFails, Goto, ReqState
  <2> QED
    BY <1>6, <2>1, <2>2
<1>7. ASSUME NEW r \in Requests, r # q, Begin(r) \/ Step(r) \/ Crash(r)
      PROVE  req'[q] = req[q]
  BY <1>7, OtherRequests DEF BaseInv
<1> QED
  BY <1>3, <1>4, <1>5, <1>6, <1>7, RequestStep DEF Step

\* A bead_create the client saw succeed is attested or queued, for ever.
THEOREM PipelineAckedIsAccounted == Spec => []AckedIsAccounted
<1>1. Init => AckedIsAccounted
  BY DEF Init, AckedIsAccounted
<1>2. BaseInv /\ AckedIsAccounted /\ [Next]_vars => AckedIsAccounted'
  BY AckedStep
<1> QED
  BY <1>1, <1>2, BaseInvariant, PTL DEF Spec
=============================================================================
