---------------------------- MODULE VaultProofs ----------------------------
(***************************************************************************)
(* The vault never holds credentials of two KEKs and always opens what it  *)
(* stored, nobody waits for a derivation that has failed, the in-flight    *)
(* count is exact and the budget holds: for any number of calls, peers,    *)
(* services and deployments, and any limits.                               *)
(***************************************************************************)
EXTENDS Vault, FiniteSetTheorems, TLAPS

USE DEF Running, AwaitsKek, Proxying, Pc

-----------------------------------------------------------------------------
(***************************************************************************)
(* Constants and types                                                     *)
(***************************************************************************)

\* The facts about the constants, one by one.
LEMMA Constants ==
  /\ Capacity \in Nat /\ Refill \in Nat /\ MaxInflight \in Nat
  /\ Absent \notin Specs /\ Absent # "0" /\ Absent # "1"
  /\ NoCred \notin Cred
  /\ IsFiniteSet(Calls)
  /\ Seed.peer \in Peers /\ Seed.service \in Services /\ Seed.allowed \in SUBSET Subs
  /\ \A d \in Deployments : d.kek \in Kek /\ d.dev \in BOOLEAN
<1> DEFINE Limits == {Capacity, Refill, MaxInflight}
<1>1. Limits \subseteq Nat
  BY VaultAssumption
<1>2. Capacity \in Nat /\ Refill \in Nat /\ MaxInflight \in Nat
  BY <1>1
<1> HIDE DEF Limits
<1>3. Absent \notin Specs /\ Absent # "0" /\ Absent # "1"
  BY VaultAssumption
<1>4. NoCred \notin Cred /\ IsFiniteSet(Calls)
  BY VaultAssumption
<1>5. Seed.peer \in Peers /\ Seed.service \in Services /\ Seed.allowed \in SUBSET Subs
  BY VaultAssumption
<1>6. \A d \in Deployments : d.kek \in Kek /\ d.dev \in BOOLEAN
  BY VaultAssumption
<1> QED
  BY <1>2, <1>3, <1>4, <1>5, <1>6

Bucket == [tokens : 0..Capacity, last : Nat]

\* A product over a difference, for the refill of a bucket.
LEMMA Distribute == \A r, x, y \in Nat : r * (x - y) = r * x - r * y /\ r * x \in Nat
  OBVIOUS

\* A product grows with its factor.
LEMMA Monotone == \A r, x, y \in Nat : x <= y => r * x <= r * y
<1> SUFFICES ASSUME NEW r \in Nat, NEW x \in Nat, NEW y \in Nat, x <= y PROVE r * x <= r * y
  OBVIOUS
<1>1. y - x \in Nat /\ r * (y - x) >= 0
  OBVIOUS
<1> QED
  BY <1>1, Distribute

\* A refilled bucket is a bucket and gained at most what the time is worth.
LEMMA Refilled ==
  ASSUME NEW b \in Bucket, NEW t \in Nat, b.last <= t
  PROVE  /\ RefillBucket(b, t) \in Bucket
         /\ RefillBucket(b, t).last = t
         /\ RefillBucket(b, t).tokens <= b.tokens + Refill * t - Refill * b.last
<1>1. Refill * (IF t > b.last THEN t - b.last ELSE 0) = Refill * t - Refill * b.last
  BY Constants, Distribute DEF Bucket
<1>2. PICK full : full = b.tokens + Refill * (IF t > b.last THEN t - b.last ELSE 0)
  OBVIOUS
<1>3. full \in Nat /\ full = b.tokens + Refill * t - Refill * b.last
  BY <1>1, <1>2, Constants, Distribute, Monotone DEF Bucket
<1>4. RefillBucket(b, t) = [tokens |-> IF full > Capacity THEN Capacity ELSE full, last |-> t]
  BY <1>2 DEF RefillBucket
<1> QED
  BY <1>3, <1>4, Constants DEF Bucket

(***************************************************************************)
(* The budget's invariant: what is left and what was spent is covered by   *)
(* what was refilled up to the last refill.                                *)
(***************************************************************************)
BudgetInv ==
  \A p \in Peers : /\ bucket[p].last <= now
                   /\ bucket[p].tokens + spent[p] <= Capacity + Refill * bucket[p].last

\* One charge keeps it.
LEMMA BudgetStep ==
  ASSUME TypeOK, BudgetInv, NEW p \in Peers, NEW cost \in Nat,
         ConsumeBudget(p, cost), now' = now
  PROVE  /\ bucket' \in [Peers -> Bucket] /\ spent' \in [Peers -> Nat]
         /\ BudgetInv'
<1> DEFINE b == RefillBucket(bucket[p], now)
<1>1. bucket \in [Peers -> Bucket] /\ spent \in [Peers -> Nat] /\ now \in Nat
  BY DEF TypeOK, Bucket
<1>2. /\ b \in Bucket /\ b.last = now
      /\ b.tokens <= bucket[p].tokens + Refill * now - Refill * bucket[p].last
  BY <1>1, Refilled DEF BudgetInv
<1>3. PICK charge \in Nat :
        /\ charge <= b.tokens
        /\ bucket' = [bucket EXCEPT ![p] = [b EXCEPT !.tokens = @ - charge]]
        /\ spent' = [spent EXCEPT ![p] = @ + charge]
  <2>1. CASE Affords(p, cost)
    <3>1. cost <= b.tokens
      BY <2>1, <1>2 DEF Affords, Bucket
    <3>2. /\ bucket' = [bucket EXCEPT ![p] = [b EXCEPT !.tokens = @ - cost]]
          /\ spent' = [spent EXCEPT ![p] = @ + cost]
      BY <2>1 DEF ConsumeBudget
    <3> QED
      BY <3>1, <3>2
  <2>2. CASE ~Affords(p, cost)
    <3>1. 0 <= b.tokens
      BY <1>2 DEF Bucket
    <3>2. /\ bucket' = [bucket EXCEPT ![p] = [b EXCEPT !.tokens = @ - 0]]
          /\ spent' = [spent EXCEPT ![p] = @ + 0]
      BY <2>2 DEF ConsumeBudget
    <3> QED
      BY <3>1, <3>2
  <2> QED
    BY <2>1, <2>2
<1> HIDE DEF b
<1>4. [b EXCEPT !.tokens = @ - charge] \in Bucket
  BY <1>2, <1>3, Constants DEF Bucket
<1>5. bucket' \in [Peers -> Bucket] /\ spent' \in [Peers -> Nat]
  BY <1>1, <1>3, <1>4
<1>6. ASSUME NEW q \in Peers
      PROVE  /\ bucket'[q].last <= now'
             /\ bucket'[q].tokens + spent'[q] <= Capacity + Refill * bucket'[q].last
  <2>1. CASE q # p
    BY <2>1, <1>1, <1>3 DEF BudgetInv
  <2>2. CASE q = p
    <3>1. bucket'[q].last = now /\ bucket'[q].tokens = b.tokens - charge
      BY <2>2, <1>1, <1>2, <1>3 DEF Bucket
    <3>2. spent'[q] = spent[q] + charge
      BY <2>2, <1>1, <1>3
    <3>3. bucket[q].tokens + spent[q] <= Capacity + Refill * bucket[q].last
      BY DEF BudgetInv
    <3>4. /\ Refill * now \in Nat /\ Refill * bucket[q].last \in Nat
          /\ bucket[q].tokens \in Nat /\ spent[q] \in Nat /\ b.tokens \in Nat
      BY <1>1, <1>2, Constants, Distribute DEF Bucket
    <3> QED
      BY <3>1, <3>2, <3>3, <3>4, <2>2, <1>1, <1>2, Constants
  <2> QED
    BY <2>1, <2>2
<1> QED
  BY <1>5, <1>6 DEF BudgetInv

\* A charge for one of the three prices.
LEMMA Prices == CostRead \in Nat /\ CostWrite \in Nat /\ CostProxy \in Nat
  BY DEF CostRead, CostWrite, CostProxy

\* The parts of the type invariant a call's step changes.
LEMMA BeginType ==
  ASSUME TypeOK, NEW c \in Calls, NEW pc \in Pc, NEW p \in Peers, NEW v \in Services,
         NEW subs \in SUBSET Subs, Begin(c, pc, p, v, subs)
  PROVE  calls' \in [Calls -> Call]
<1>1. [pc |-> pc, peer |-> p, service |-> v, subs |-> subs, cred |-> NoCred] \in Call
  BY DEF Call
<1> QED
  BY <1>1 DEF TypeOK, Begin

LEMMA FinishType ==
  ASSUME TypeOK, NEW c \in Calls, NEW pc \in Pc, Finish(c, pc)
  PROVE  calls' \in [Calls -> Call]
<1>1. calls[c] \in Call
  BY DEF TypeOK
<1>2. [calls[c] EXCEPT !.pc = pc] \in Call
  BY <1>1 DEF Call
<1> QED
  BY <1>2 DEF TypeOK, Finish

LEMMA GetKEKType ==
  ASSUME TypeOK, GetKEK
  PROVE  /\ pin' \in [spec : Specs \cup {Absent}, scoped : {"0", "1", Absent}]
         /\ slot' \in {"none", "pending", "ready", "rejected"}
<1>1. env.kek \in Kek
  BY Constants DEF TypeOK
<1> QED
  BY <1>1 DEF TypeOK, GetKEK, WritePin, Kek

\* The credential that a call seals is one.
LEMMA SealedType ==
  ASSUME TypeOK, NEW a \in SUBSET Subs
  PROVE  [kek |-> env.kek, allowed |-> a] \in Cred
  BY Constants DEF TypeOK, Cred

\* A new instance keeps the type invariant of what it resets.
LEMMA InstanceType ==
  ASSUME TypeOK, NewInstance
  PROVE  /\ slot' \in {"none", "pending", "ready", "rejected"}
         /\ inflight' \in [Peers -> Int] /\ seeded' \in BOOLEAN
         /\ calls' \in [Calls -> Call]
<1>1. ASSUME NEW c \in Calls
      PROVE  calls[c] \in Call /\ [calls[c] EXCEPT !.pc = "lost"] \in Call
  <2>1. calls[c] \in Call
    BY DEF TypeOK
  <2> QED
    BY <2>1 DEF Call
<1>2. slot' = "none" /\ seeded' = FALSE /\ inflight' = [p \in Peers |-> 0]
  BY DEF NewInstance
<1>3. calls' = [c \in Calls |-> IF calls[c].pc \in Running
                                THEN [calls[c] EXCEPT !.pc = "lost"] ELSE calls[c]]
  BY DEF NewInstance
<1>4. calls' \in [Calls -> Call]
  BY <1>1, <1>3, Zenon
<1>5. seeded' \in BOOLEAN
  BY <1>2
<1>6. inflight' \in [Peers -> Int] /\ slot' \in {"none", "pending", "ready", "rejected"}
  BY <1>2
<1> QED
  BY <1>4, <1>5, <1>6

\* Every initial state has the types, and its buckets are full.
LEMMA InitType == Init => TypeOK /\ BudgetInv
<1> SUFFICES ASSUME Init PROVE TypeOK /\ BudgetInv
  OBVIOUS
<1>1. calls \in [Calls -> Call]
  BY DEF Init, Call
<1>2. bucket \in [Peers -> Bucket] /\ spent \in [Peers -> Nat]
  BY Constants DEF Init, Bucket
<1>3. pin \in [spec : Specs \cup {Absent}, scoped : {"0", "1", Absent}]
  BY DEF Init
<1>4. BudgetInv
  BY Constants DEF Init, BudgetInv
<1>5. env \in Deployments /\ slot = "none" /\ seeded = FALSE /\ now = 0 /\ derived = {}
  BY DEF Init
<1>6. creds \in [Peers \X Services -> Cred \cup {NoCred}] /\ inflight \in [Peers -> Int]
  BY DEF Init
<1> QED
  BY <1>1, <1>2, <1>3, <1>4, <1>5, <1>6 DEF TypeOK, Bucket

\* Every step of a call keeps the types and the budget.
LEMMA CallType ==
  ASSUME TypeOK, BudgetInv, NEW c \in Calls, CallStep(c)
  PROVE  TypeOK' /\ BudgetInv'
<1>1. CASE \E p \in Peers, v \in Services, subs \in SUBSET Subs, valid \in BOOLEAN :
             PutCredential(c, p, v, subs, valid)
  <2>1. PICK p \in Peers, v \in Services, subs \in SUBSET Subs, valid \in BOOLEAN :
          PutCredential(c, p, v, subs, valid)
    BY <1>1
  <2>2. bucket' \in [Peers -> Bucket] /\ spent' \in [Peers -> Nat] /\ BudgetInv'
    BY <2>1, BudgetStep, Prices DEF PutCredential
  <2>3. calls' \in [Calls -> Call]
    BY <2>1, BeginType DEF PutCredential
  <2>4. /\ pin' \in [spec : Specs \cup {Absent}, scoped : {"0", "1", Absent}]
        /\ slot' \in {"none", "pending", "ready", "rejected"}
    BY <2>1, GetKEKType DEF PutCredential, TypeOK
  <2> QED
    BY <2>1, <2>2, <2>3, <2>4 DEF PutCredential, TypeOK, Bucket
<1>2. CASE \E p \in Peers, v \in Services : ReadCredentials(c, p, v)
  <2>1. PICK p \in Peers, v \in Services : ReadCredentials(c, p, v)
    BY <1>2
  <2>2. bucket' \in [Peers -> Bucket] /\ spent' \in [Peers -> Nat] /\ BudgetInv'
    BY <2>1, BudgetStep, Prices DEF ReadCredentials
  <2>3. calls' \in [Calls -> Call]
    BY <2>1, BeginType DEF ReadCredentials
  <2> QED
    BY <2>1, <2>2, <2>3 DEF ReadCredentials, TypeOK, Bucket, memVars
<1>3. CASE \E p \in Peers, v \in Services : DeleteCredential(c, p, v)
  <2>1. PICK p \in Peers, v \in Services : DeleteCredential(c, p, v)
    BY <1>3
  <2>2. bucket' \in [Peers -> Bucket] /\ spent' \in [Peers -> Nat] /\ BudgetInv'
    BY <2>1, BudgetStep, Prices DEF DeleteCredential
  <2>3. calls' \in [Calls -> Call]
    BY <2>1, BeginType DEF DeleteCredential
  <2>4. creds' \in [Peers \X Services -> Cred \cup {NoCred}]
    BY <2>1 DEF DeleteCredential, TypeOK
  <2> QED
    BY <2>1, <2>2, <2>3, <2>4 DEF DeleteCredential, TypeOK, Bucket, memVars
<1>4. CASE \E p \in Peers, v \in Services, sub \in Subs : ProxyRequest(c, p, v, sub)
  <2>1. PICK p \in Peers, v \in Services, sub \in Subs : ProxyRequest(c, p, v, sub)
    BY <1>4
  <2>2. bucket' \in [Peers -> Bucket] /\ spent' \in [Peers -> Nat] /\ BudgetInv'
    <3>1. CASE ~seeded /\ env.dev
      <4>1. ConsumeBudget(Seed.peer, CostWrite) /\ now' = now
        BY <3>1, <2>1 DEF ProxyRequest
      <4> QED
        BY <4>1, BudgetStep, Prices, Constants
    <3>2. CASE ~(~seeded /\ env.dev)
      <4>1. bucket' = bucket /\ spent' = spent /\ now' = now
        BY <3>2, <2>1 DEF ProxyRequest
      <4> QED
        BY <4>1 DEF TypeOK, BudgetInv, Bucket
    <3> QED
      BY <3>1, <3>2
  <2>3. calls' \in [Calls -> Call]
    BY <2>1, BeginType DEF ProxyRequest
  <2>4. /\ pin' \in [spec : Specs \cup {Absent}, scoped : {"0", "1", Absent}]
        /\ slot' \in {"none", "pending", "ready", "rejected"}
    BY <2>1, GetKEKType DEF ProxyRequest, TypeOK
  <2> QED
    BY <2>1, <2>2, <2>3, <2>4 DEF ProxyRequest, TypeOK, Bucket
<1>5. CASE WriteRow(c)
  <2>1. calls[c] \in Call
    BY DEF TypeOK
  <2>2. creds' \in [Peers \X Services -> Cred \cup {NoCred}]
    BY <1>5, <2>1, SealedType DEF WriteRow, TypeOK, Call
  <2>3. calls' \in [Calls -> Call]
    BY <1>5, FinishType DEF WriteRow
  <2> QED
    BY <1>5, <2>2, <2>3 DEF WriteRow, TypeOK, BudgetInv, memVars, history
<1>6. CASE SeedWritten(c)
  <2>1. creds' \in [Peers \X Services -> Cred \cup {NoCred}]
    BY <1>6, SealedType, Constants DEF SeedWritten, TypeOK
  <2>2. calls' \in [Calls -> Call]
    BY <1>6, FinishType DEF SeedWritten
  <2> QED
    BY <1>6, <2>1, <2>2 DEF SeedWritten, TypeOK, BudgetInv, memVars, history
<1>7. CASE GateFull(c)
  <2>1. calls' \in [Calls -> Call]
    BY <1>7, FinishType DEF GateFull
  <2> QED
    BY <1>7, <2>1 DEF GateFull, TypeOK, BudgetInv, sqlVars, memVars, history
<1>8. CASE GateLimited(c) \/ GateDenied(c)
  <2>1. Charged(c) /\ now' = now /\ calls[c] \in Call
    BY <1>8 DEF GateLimited, GateDenied, TypeOK
  <2>2. bucket' \in [Peers -> Bucket] /\ spent' \in [Peers -> Nat] /\ BudgetInv'
    BY <2>1, BudgetStep, Prices DEF Charged, Call
  <2>3. calls' \in [Calls -> Call]
    BY <1>8, FinishType DEF GateLimited, GateDenied
  <2> QED
    BY <1>8, <2>2, <2>3 DEF GateLimited, GateDenied, TypeOK, Bucket, memVars
<1>9. CASE GateRefused(c) \/ GatePasses(c)
  <2>1. Charged(c) /\ GetKEK /\ now' = now /\ calls[c] \in Call
    BY <1>9 DEF GateRefused, GatePasses, TypeOK
  <2>2. bucket' \in [Peers -> Bucket] /\ spent' \in [Peers -> Nat] /\ BudgetInv'
    BY <2>1, BudgetStep, Prices DEF Charged, Call
  <2>3. /\ pin' \in [spec : Specs \cup {Absent}, scoped : {"0", "1", Absent}]
        /\ slot' \in {"none", "pending", "ready", "rejected"}
    BY <2>1, GetKEKType
  <2>4. calls' \in [Calls -> Call] /\ inflight' \in [Peers -> Int]
    <3>1. CASE GateRefused(c)
      BY <3>1, FinishType DEF GateRefused, TypeOK
    <3>2. CASE GatePasses(c)
      <4>1. RowFor(c) \in Cred \cup {NoCred}
        BY <2>1 DEF RowFor, TypeOK, Call
      <4>2. [calls[c] EXCEPT !.pc = "kek", !.cred = RowFor(c)] \in Call
        BY <2>1, <4>1 DEF Call
      <4> QED
        BY <3>2, <2>1, <4>2 DEF GatePasses, TypeOK, Call
    <3> QED
      BY <1>9, <3>1, <3>2
  <2> QED
    BY <1>9, <2>2, <2>3, <2>4 DEF GateRefused, GatePasses, TypeOK, Bucket
<1>10. CASE Decrypt(c) \/ FetchEnds(c)
  <2>1. PICK pc \in Pc : Finish(c, pc)
    BY <1>10 DEF Decrypt, FetchEnds, Leave
  <2>2. calls' \in [Calls -> Call] /\ calls[c] \in Call
    BY <2>1, FinishType DEF TypeOK
  <2>3. inflight' \in [Peers -> Int]
    BY <1>10, <2>2 DEF Decrypt, FetchEnds, Leave, TypeOK, Call
  <2> QED
    BY <1>10, <2>2, <2>3 DEF Decrypt, FetchEnds, TypeOK, BudgetInv, sqlVars, history
<1> QED
  BY <1>1, <1>2, <1>3, <1>4, <1>5, <1>6, <1>7, <1>8, <1>9, <1>10 DEF CallStep

\* Every step keeps the types and the budget.
LEMMA StepType == TypeOK /\ BudgetInv /\ [Next]_vars => TypeOK' /\ BudgetInv'
<1> SUFFICES ASSUME TypeOK, BudgetInv, [Next]_vars PROVE TypeOK' /\ BudgetInv'
  OBVIOUS
<1>1. ASSUME NEW c \in Calls, CallStep(c) PROVE TypeOK' /\ BudgetInv'
  BY <1>1, CallType
<1>2. CASE KekResolves
  BY <1>2, Constants DEF KekResolves, TypeOK, BudgetInv, sqlVars
<1>3. CASE KekRejects
  <2>1. ASSUME NEW c \in Calls
        PROVE  /\ calls[c] \in Call /\ [calls[c] EXCEPT !.pc = "gate"] \in Call
               /\ [calls[c] EXCEPT !.pc = "noKek"] \in Call
    <3>1. calls[c] \in Call
      BY DEF TypeOK
    <3> QED
      BY <3>1 DEF Call
  <2>2. calls' = [c \in Calls |->
                    IF calls[c].pc \notin AwaitsKek THEN calls[c]
                    ELSE [calls[c] EXCEPT !.pc = IF @ = "seed" THEN "gate" ELSE "noKek"]]
    BY <1>3 DEF KekRejects
  <2>3. calls' \in [Calls -> Call]
    BY <2>1, <2>2
  <2>4. inflight' \in [Peers -> Int]
    <3>1. ASSUME NEW p \in Peers
          PROVE  Cardinality({c \in Calls : calls[c].pc = "kek" /\ calls[c].peer = p}) \in Nat
      <4>1. IsFiniteSet({c \in Calls : calls[c].pc = "kek" /\ calls[c].peer = p})
        BY Constants, FS_Subset
      <4> QED
        BY <4>1, FS_CardinalityType
    <3> QED
      BY <1>3, <3>1 DEF KekRejects, TypeOK
  <2> QED
    BY <1>3, <2>3, <2>4 DEF KekRejects, TypeOK, BudgetInv, sqlVars, history
<1>4. CASE Evict
  BY <1>4, InstanceType DEF Evict, TypeOK, BudgetInv, sqlVars, history
<1>5. CASE Tick
  BY <1>5 DEF Tick, TypeOK, BudgetInv, sqlVars, memVars, history
<1>6. ASSUME NEW d \in Deployments, Redeploy(d) PROVE TypeOK' /\ BudgetInv'
  BY <1>6, InstanceType DEF Redeploy, TypeOK, BudgetInv, sqlVars, history
<1>7. ASSUME NEW d \in Deployments, Rotate(d) PROVE TypeOK' /\ BudgetInv'
  BY <1>7, InstanceType DEF Rotate, TypeOK, BudgetInv, history
<1>8. CASE UNCHANGED vars
  BY <1>8 DEF vars, TypeOK, BudgetInv, sqlVars, memVars, history
<1> QED
  BY <1>1, <1>2, <1>3, <1>4, <1>5, <1>6, <1>7, <1>8 DEF Next

(***************************************************************************)
(* The state of the vault is always well typed, whatever calls, evictions  *)
(* and deployments it sees.                                                *)
(***************************************************************************)
THEOREM VaultTypes == Spec => []TypeOK
<1>1. TypeOK /\ BudgetInv /\ [Next]_vars => (TypeOK /\ BudgetInv)'
  BY StepType
<1> QED
  BY <1>1, InitType, PTL DEF Spec

(***************************************************************************)
(* What a peer is charged is covered by one full bucket and the time since *)
(* the beginning, over rejected calls, evictions and redeployments.        *)
(***************************************************************************)
THEOREM VaultBudgetBound == Spec => []BudgetBound
<1>1. TypeOK /\ BudgetInv => BudgetBound
  <2> SUFFICES ASSUME TypeOK, BudgetInv, NEW p \in Peers
               PROVE  spent[p] <= Capacity + Refill * now
    BY DEF BudgetBound
  <2>1. /\ bucket[p].tokens \in Nat /\ bucket[p].last \in Nat /\ spent[p] \in Nat
        /\ now \in Nat /\ bucket[p].last <= now
        /\ bucket[p].tokens + spent[p] <= Capacity + Refill * bucket[p].last
    BY Constants DEF TypeOK, BudgetInv
  <2>2. /\ Refill * bucket[p].last <= Refill * now
        /\ Refill * bucket[p].last \in Nat /\ Refill * now \in Nat
    BY <2>1, Constants, Monotone, Distribute
  <2> QED
    BY <2>1, <2>2, Constants
<1>2. TypeOK /\ BudgetInv /\ [Next]_vars => (TypeOK /\ BudgetInv)'
  BY StepType
<1> QED
  BY <1>1, <1>2, InitType, PTL DEF Spec

-----------------------------------------------------------------------------
(***************************************************************************)
(* The KEK.  SealedUnderPin is not inductive alone: a call that waits will *)
(* write under the KEK of the derivation it waits for, and a proxy holds   *)
(* the row it read.  So whoever waits has a derivation, a derivation runs  *)
(* under the pin only, and the rows held by calls are sealed under it too. *)
(***************************************************************************)
HeldUnderPin ==
  \A c \in Calls : calls[c].pc = "kek" => calls[c].cred \in Cred /\ calls[c].cred.kek = pin

DerivedUnderPin == slot # "none" => pin = env.kek

NotRejected == slot # "rejected"

KekInv ==
  /\ NotRejected
  /\ WaitersHaveDerivation
  /\ DerivedUnderPin
  /\ SealedUnderPin
  /\ HeldUnderPin
  /\ AlwaysDecrypts

\* Where rows are, the pin is set.
LEMMA PinnedRows ==
  ASSUME TypeOK, SealedUnderPin, NEW k \in Peers \X Services, creds[k] # NoCred
  PROVE  pin.spec # Absent
<1>1. creds[k] \in Cred /\ creds[k].kek = pin
  BY DEF TypeOK, SealedUnderPin
<1>2. pin.spec \in Specs
  BY <1>1 DEF Cred, Kek
<1> QED
  BY <1>2, Constants

(***************************************************************************)
(* #getKEK: the pin is only written while no row exists and nothing is     *)
(* derived, and a derivation is started under the pin only.                *)
(***************************************************************************)
LEMMA GetKEKSafe ==
  ASSUME TypeOK, KekInv, GetKEK, env' = env
  PROVE  /\ DerivedUnderPin'
         /\ slot # "none" => slot' = slot /\ pin' = pin
         /\ KekGranted => slot' # "none"
         /\ slot' = slot \/ slot' = "pending"
         /\ \A k \in Peers \X Services : creds[k] # NoCred => pin' = pin
<1>1. env.kek \in Kek
  BY Constants DEF TypeOK
<1>2. CASE slot # "none"
  BY <1>2 DEF GetKEK, WritePin, KekInv, DerivedUnderPin
<1>3. CASE slot = "none" /\ pin.spec # Absent
  BY <1>3 DEF GetKEK, WritePin, KekGranted, PinAccepts, DerivedUnderPin
<1>4. CASE slot = "none" /\ pin.spec = Absent
  <2>1. \A k \in Peers \X Services : creds[k] = NoCred
    BY <1>4, PinnedRows DEF KekInv
  <2>2. KekGranted => pin' = env.kek
    BY <1>1, <1>4 DEF GetKEK, WritePin, KekGranted, PinAccepts, Kek
  <2>3. slot' = IF KekGranted THEN "pending" ELSE "none"
    BY <1>4 DEF GetKEK
  <2> QED
    BY <1>4, <2>1, <2>2, <2>3 DEF DerivedUnderPin
<1> QED
  BY <1>2, <1>3, <1>4

(***************************************************************************)
(* A step of call c that asks for the KEK, and waits only if granted it.   *)
(***************************************************************************)
LEMMA AskStep ==
  ASSUME TypeOK, KekInv, GetKEK, env' = env, creds' = creds, NEW c \in Calls, TypeOK',
         \A x \in Calls : x # c => calls'[x] = calls[x],
         calls'[c].pc \in AwaitsKek => KekGranted,
         calls'[c].pc = "kek" => calls'[c].cred = RowFor(c) /\ RowFor(c) # NoCred,
         calls'[c].pc # "undecryptable", calls[c] \in Call
  PROVE  KekInv'
<1>1. /\ DerivedUnderPin'
      /\ slot # "none" => slot' = slot /\ pin' = pin
      /\ KekGranted => slot' # "none"
      /\ slot' = slot \/ slot' = "pending"
      /\ \A k \in Peers \X Services : creds[k] # NoCred => pin' = pin
  BY GetKEKSafe
<1>2. WaitersHaveDerivation'
  <2> SUFFICES ASSUME NEW x \in Calls, calls'[x].pc \in AwaitsKek
               PROVE  slot' \in {"pending", "ready"}
    BY DEF WaitersHaveDerivation
  <2>1. CASE x = c
    <3>1. KekGranted /\ slot' # "none"
      BY <2>1, <1>1
    <3>2. CASE slot' = "pending"
      BY <3>2
    <3>3. CASE slot' = slot /\ slot # "pending"
      <4>1. slot # "none"
        BY <3>1, <3>3
      <4>2. slot # "rejected"
        BY DEF KekInv, NotRejected
      <4> QED
        BY <3>3, <4>1, <4>2 DEF TypeOK
    <3> QED
      BY <3>2, <3>3, <1>1
  <2>2. CASE x # c
    BY <2>2, <1>1 DEF KekInv, WaitersHaveDerivation
  <2> QED
    BY <2>1, <2>2
<1>3. SealedUnderPin'
  BY <1>1 DEF KekInv, SealedUnderPin
<1>4. HeldUnderPin'
  <2> SUFFICES ASSUME NEW x \in Calls, calls'[x].pc = "kek"
               PROVE  calls'[x].cred \in Cred /\ calls'[x].cred.kek = pin'
    BY DEF HeldUnderPin
  <2>1. CASE x = c
    <3>1. <<calls[c].peer, calls[c].service>> \in Peers \X Services
      BY DEF Call
    <3>2. RowFor(c) \in Cred /\ RowFor(c).kek = pin /\ pin' = pin
      BY <2>1, <3>1, <1>1 DEF RowFor, TypeOK, KekInv, SealedUnderPin
    <3> QED
      BY <2>1, <3>2
  <2>2. CASE x # c
    <3>1. calls[x].pc = "kek" /\ slot # "none"
      BY <2>2 DEF KekInv, WaitersHaveDerivation
    <3> QED
      BY <2>2, <3>1, <1>1 DEF KekInv, HeldUnderPin
  <2> QED
    BY <2>1, <2>2
<1>5. AlwaysDecrypts'
  BY DEF KekInv, AlwaysDecrypts
<1> QED
  BY <1>1, <1>2, <1>3, <1>4, <1>5 DEF KekInv, NotRejected

\* A step of call c that neither asks for the KEK nor waits for it afterwards,
\* and writes rows under the pin only.
LEMMA QuietStep ==
  ASSUME KekInv, env' = env, pin' = pin, slot' = slot, NEW c \in Calls,
         \A x \in Calls : x # c => calls'[x] = calls[x],
         calls'[c].pc \notin AwaitsKek, calls'[c].pc # "undecryptable",
         \A k \in Peers \X Services :
           creds'[k] # NoCred => creds'[k] = creds[k] \/ creds'[k].kek = pin
  PROVE  KekInv'
<1>1. WaitersHaveDerivation'
  BY DEF KekInv, WaitersHaveDerivation
<1>2. SealedUnderPin'
  BY DEF KekInv, SealedUnderPin
<1>3. HeldUnderPin'
  BY DEF KekInv, HeldUnderPin
<1>4. AlwaysDecrypts'
  BY DEF KekInv, AlwaysDecrypts
<1> QED
  BY <1>1, <1>2, <1>3, <1>4 DEF KekInv, NotRejected, DerivedUnderPin

\* A new instance waits for nothing.
LEMMA ResetStep ==
  ASSUME TypeOK, KekInv, NewInstance, SealedUnderPin'
  PROVE  KekInv'
<1>1. \A c \in Calls : calls'[c].pc = IF calls[c].pc \in Running THEN "lost" ELSE calls[c].pc
  <2> SUFFICES ASSUME NEW c \in Calls
               PROVE  calls'[c].pc = IF calls[c].pc \in Running THEN "lost" ELSE calls[c].pc
    OBVIOUS
  <2>1. calls[c] \in Call
    BY DEF TypeOK
  <2> QED
    BY <2>1 DEF NewInstance, Call
<1>2. slot' = "none"
  BY DEF NewInstance
<1> QED
  BY <1>1, <1>2 DEF KekInv, NotRejected, WaitersHaveDerivation, DerivedUnderPin, HeldUnderPin,
                    AlwaysDecrypts

\* What Begin and Finish do to the calls.
LEMMA BeginCalls ==
  ASSUME TypeOK, NEW c \in Calls, NEW pc, NEW p, NEW v, NEW subs, Begin(c, pc, p, v, subs)
  PROVE  /\ \A x \in Calls : x # c => calls'[x] = calls[x]
         /\ calls'[c].pc = pc
  BY DEF TypeOK, Begin

LEMMA FinishCalls ==
  ASSUME TypeOK, NEW c \in Calls, NEW pc, Finish(c, pc)
  PROVE  /\ \A x \in Calls : x # c => calls'[x] = calls[x]
         /\ calls'[c].pc = pc /\ calls'[c].peer = calls[c].peer /\ calls'[c].cred = calls[c].cred
  BY DEF TypeOK, Finish, Call

\* Every step of a call keeps the invariant of the KEK.
LEMMA CallKek ==
  ASSUME TypeOK, TypeOK', KekInv, NEW c \in Calls, CallStep(c)
  PROVE  KekInv'
<1>0. calls[c] \in Call
  BY DEF TypeOK
<1>1. ASSUME NEW p \in Peers, NEW v \in Services, NEW subs \in SUBSET Subs, NEW valid \in BOOLEAN,
             PutCredential(c, p, v, subs, valid)
      PROVE  KekInv'
  <2>1. CASE GetKEK /\ Begin(c, IF KekGranted THEN "put" ELSE "refused", p, v, subs)
    <3>1. /\ \A x \in Calls : x # c => calls'[x] = calls[x]
          /\ calls'[c].pc = IF KekGranted THEN "put" ELSE "refused"
      BY <2>1, BeginCalls
    <3> QED
      BY <1>0, <1>1, <2>1, <3>1, AskStep DEF PutCredential
  <2>2. CASE UNCHANGED <<pin, slot>> /\ \E pc \in {"limited", "invalid"} : Begin(c, pc, p, v, subs)
    <3>1. /\ \A x \in Calls : x # c => calls'[x] = calls[x]
          /\ calls'[c].pc \in {"limited", "invalid"}
      BY <2>2, BeginCalls
    <3> QED
      BY <1>1, <2>2, <3>1, QuietStep DEF PutCredential
  <2> QED
    BY <1>1, <2>1, <2>2 DEF PutCredential
<1>2. ASSUME NEW p \in Peers, NEW v \in Services, ReadCredentials(c, p, v) \/ DeleteCredential(c, p, v)
      PROVE  KekInv'
  <2>1. PICK pc \in {"ok", "limited"} : Begin(c, pc, p, v, {})
    BY <1>2 DEF ReadCredentials, DeleteCredential
  <2>2. /\ \A x \in Calls : x # c => calls'[x] = calls[x]
        /\ calls'[c].pc \in {"ok", "limited"}
    BY <2>1, BeginCalls
  <2>3. creds' = creds \/ creds' = [creds EXCEPT ![<<p, v>>] = NoCred]
    BY <1>2 DEF ReadCredentials, DeleteCredential
  <2>4. \A k \in Peers \X Services : creds'[k] # NoCred => creds'[k] = creds[k]
    BY <2>3 DEF TypeOK
  <2>5. UNCHANGED <<env, pin, slot>>
    BY <1>2 DEF ReadCredentials, DeleteCredential, memVars
  <2> QED
    BY <2>2, <2>4, <2>5, QuietStep
<1>3. ASSUME NEW p \in Peers, NEW v \in Services, NEW sub \in Subs, ProxyRequest(c, p, v, sub)
      PROVE  KekInv'
  <2>1. CASE ~seeded /\ env.dev /\ Affords(Seed.peer, CostWrite)
    <3>1. GetKEK /\ Begin(c, IF KekGranted THEN "seed" ELSE "gate", p, v, {sub})
      BY <1>3, <2>1 DEF ProxyRequest
    <3>2. /\ \A x \in Calls : x # c => calls'[x] = calls[x]
          /\ calls'[c].pc = IF KekGranted THEN "seed" ELSE "gate"
      BY <3>1, BeginCalls
    <3> QED
      BY <1>0, <1>3, <3>1, <3>2, AskStep DEF ProxyRequest
  <2>2. CASE ~(~seeded /\ env.dev /\ Affords(Seed.peer, CostWrite))
    <3>1. UNCHANGED <<pin, slot>> /\ Begin(c, "gate", p, v, {sub})
      BY <1>3, <2>2 DEF ProxyRequest
    <3>2. /\ \A x \in Calls : x # c => calls'[x] = calls[x]
          /\ calls'[c].pc = "gate"
      BY <3>1, BeginCalls
    <3> QED
      BY <1>3, <3>1, <3>2, QuietStep DEF ProxyRequest
  <2> QED
    BY <2>1, <2>2
<1>4. CASE WriteRow(c) \/ SeedWritten(c)
  <2>1. PICK pc \in {"ok", "gate"} : Finish(c, pc)
    BY <1>4 DEF WriteRow, SeedWritten
  <2>2. /\ \A x \in Calls : x # c => calls'[x] = calls[x]
        /\ calls'[c].pc \in {"ok", "gate"}
    BY <2>1, FinishCalls
  <2>3. pin = env.kek
    BY <1>4 DEF WriteRow, SeedWritten, KekInv, DerivedUnderPin
  <2>4. \A k \in Peers \X Services :
          creds'[k] # NoCred => creds'[k] = creds[k] \/ creds'[k].kek = pin
    <3>1. PICK key, a : creds' = [creds EXCEPT ![key] = [kek |-> env.kek, allowed |-> a]]
      BY <1>4 DEF WriteRow, SeedWritten
    <3>2. [kek |-> env.kek, allowed |-> a].kek = pin
      BY <2>3
    <3> QED
      BY <3>1, <3>2 DEF TypeOK
  <2> QED
    BY <1>4, <2>2, <2>4, QuietStep DEF WriteRow, SeedWritten, memVars
<1>5. CASE GateFull(c) \/ GateLimited(c) \/ GateDenied(c)
  <2>1. PICK pc \in {"limited", "denied"} : Finish(c, pc)
    BY <1>5 DEF GateFull, GateLimited, GateDenied
  <2>2. /\ \A x \in Calls : x # c => calls'[x] = calls[x]
        /\ calls'[c].pc \in {"limited", "denied"}
    BY <2>1, FinishCalls
  <2>3. UNCHANGED <<env, pin, creds, slot>>
    BY <1>5 DEF GateFull, GateLimited, GateDenied, sqlVars, memVars
  <2> QED
    BY <2>2, <2>3, QuietStep
<1>6. CASE GateRefused(c)
  <2>1. /\ \A x \in Calls : x # c => calls'[x] = calls[x]
        /\ calls'[c].pc = "refused"
    BY <1>6, FinishCalls DEF GateRefused
  <2> QED
    BY <1>0, <1>6, <2>1, AskStep DEF GateRefused
<1>7. CASE GatePasses(c)
  <2>1. /\ \A x \in Calls : x # c => calls'[x] = calls[x]
        /\ calls'[c].pc = "kek" /\ calls'[c].cred = RowFor(c)
    BY <1>7, <1>0 DEF GatePasses, TypeOK, Call
  <2>2. RowFor(c) # NoCred /\ KekGranted /\ GetKEK /\ env' = env /\ creds' = creds
    BY <1>7 DEF GatePasses, Permitted
  <2> QED
    BY <1>0, <2>1, <2>2, AskStep
<1>8. CASE Decrypt(c)
  <2>1. calls[c].cred.kek = env.kek
    BY <1>8 DEF Decrypt, KekInv, HeldUnderPin, DerivedUnderPin
  <2>2. Finish(c, "fetch") /\ UNCHANGED <<env, pin, creds, slot>>
    BY <1>8, <2>1 DEF Decrypt, sqlVars
  <2>3. /\ \A x \in Calls : x # c => calls'[x] = calls[x]
        /\ calls'[c].pc = "fetch"
    BY <2>2, FinishCalls
  <2> QED
    BY <2>2, <2>3, QuietStep
<1>9. CASE FetchEnds(c)
  <2>1. PICK pc \in {"ok", "upstreamFailed"} : Finish(c, pc)
    BY <1>9 DEF FetchEnds, Leave
  <2>2. /\ \A x \in Calls : x # c => calls'[x] = calls[x]
        /\ calls'[c].pc \in {"ok", "upstreamFailed"}
    BY <2>1, FinishCalls
  <2> QED
    BY <1>9, <2>2, QuietStep DEF FetchEnds, sqlVars
<1> QED
  BY <1>1, <1>2, <1>3, <1>4, <1>5, <1>6, <1>7, <1>8, <1>9 DEF CallStep

\* Every step keeps the invariant of the KEK.
LEMMA StepKek == TypeOK /\ TypeOK' /\ KekInv /\ [Next]_vars => KekInv'
<1> SUFFICES ASSUME TypeOK, TypeOK', KekInv, [Next]_vars PROVE KekInv'
  OBVIOUS
<1>1. ASSUME NEW c \in Calls, CallStep(c) PROVE KekInv'
  BY <1>1, CallKek
<1>2. CASE KekResolves
  BY <1>2 DEF KekResolves, KekInv, NotRejected, WaitersHaveDerivation, DerivedUnderPin,
              SealedUnderPin, HeldUnderPin, AlwaysDecrypts, sqlVars
<1>3. CASE KekRejects
  <2>1. ASSUME NEW c \in Calls
        PROVE  /\ calls'[c].pc \notin AwaitsKek
               /\ calls'[c].pc # "undecryptable"
    <3>1. calls'[c] = IF calls[c].pc \notin AwaitsKek THEN calls[c]
                      ELSE [calls[c] EXCEPT !.pc = IF @ = "seed" THEN "gate" ELSE "noKek"]
      BY <1>3 DEF KekRejects
    <3>2. calls[c] \in Call /\ calls[c].pc # "undecryptable"
      BY DEF TypeOK, KekInv, AlwaysDecrypts
    <3> QED
      BY <3>1, <3>2 DEF Call
  <2>2. slot' = "none" /\ UNCHANGED <<pin, creds>>
    BY <1>3 DEF KekRejects, sqlVars
  <2> QED
    BY <2>1, <2>2 DEF KekInv, NotRejected, WaitersHaveDerivation, DerivedUnderPin,
                      SealedUnderPin, HeldUnderPin, AlwaysDecrypts
<1>4. CASE Evict
  <2>1. NewInstance /\ SealedUnderPin'
    BY <1>4 DEF Evict, KekInv, SealedUnderPin, sqlVars
  <2> QED
    BY <2>1, ResetStep
<1>5. CASE Tick
  BY <1>5 DEF Tick, KekInv, NotRejected, WaitersHaveDerivation, DerivedUnderPin,
              SealedUnderPin, HeldUnderPin, AlwaysDecrypts, sqlVars, memVars
<1>6. ASSUME NEW d \in Deployments, Redeploy(d) PROVE KekInv'
  <2>1. NewInstance /\ SealedUnderPin'
    BY <1>6 DEF Redeploy, KekInv, SealedUnderPin, sqlVars
  <2> QED
    BY <2>1, ResetStep
<1>7. ASSUME NEW d \in Deployments, Rotate(d) PROVE KekInv'
  <2>1. NewInstance /\ SealedUnderPin'
    BY <1>7 DEF Rotate, SealedUnderPin
  <2> QED
    BY <2>1, ResetStep
<1>8. CASE UNCHANGED vars
  BY <1>8 DEF vars, KekInv, NotRejected, WaitersHaveDerivation, DerivedUnderPin,
              SealedUnderPin, HeldUnderPin, AlwaysDecrypts, sqlVars, memVars
<1> QED
  BY <1>1, <1>2, <1>3, <1>4, <1>5, <1>6, <1>7, <1>8 DEF Next

LEMMA InitKek == Init => KekInv
  BY DEF Init, KekInv, NotRejected, WaitersHaveDerivation, DerivedUnderPin,
         SealedUnderPin, HeldUnderPin, AlwaysDecrypts

\* The invariant of the KEK holds in every reachable state.
LEMMA KekInvariant == Spec => []KekInv
<1>1. TypeOK /\ BudgetInv /\ KekInv /\ [Next]_vars => (TypeOK /\ BudgetInv /\ KekInv)'
  BY StepType, StepKek
<1> QED
  BY <1>1, InitType, InitKek, PTL DEF Spec

(***************************************************************************)
(* The credentials in the vault are all sealed under the KEK that the pin  *)
(* names, whatever the operator deploys in between.                        *)
(***************************************************************************)
THEOREM VaultSealedUnderPin == Spec => []SealedUnderPin
<1>1. KekInv => SealedUnderPin
  BY DEF KekInv
<1> QED
  BY <1>1, KekInvariant, PTL

(***************************************************************************)
(* A proxy call that gets a KEK opens the row it read before it waited for *)
(* that KEK.                                                               *)
(***************************************************************************)
THEOREM VaultAlwaysDecrypts == Spec => []AlwaysDecrypts
<1>1. KekInv => AlwaysDecrypts
  BY DEF KekInv
<1> QED
  BY <1>1, KekInvariant, PTL

(***************************************************************************)
(* Nobody waits for a derivation that has failed.                          *)
(***************************************************************************)
THEOREM VaultWaitersHaveDerivation == Spec => []WaitersHaveDerivation
<1>1. KekInv => WaitersHaveDerivation
  BY DEF KekInv
<1> QED
  BY <1>1, KekInvariant, PTL

(***************************************************************************)
(* One KEK at a time, for whatever is stored, read or waited for (#getKEK  *)
(* and the pin).                                                           *)
(***************************************************************************)
THEOREM VaultKekHolds == Spec => []KekHolds
<1>1. KekInv => KekHolds
  BY DEF KekInv, KekHolds
<1> QED
  BY <1>1, KekInvariant, PTL

-----------------------------------------------------------------------------
(***************************************************************************)
(* The in-flight count                                                     *)
(***************************************************************************)

\* The calls that count against peer p.
ProxiesOf(p) == {c \in Calls : calls[c].pc \in Proxying /\ calls[c].peer = p}

LEMMA ProxiesFinite ==
  \A p : IsFiniteSet(ProxiesOf(p)) /\ Cardinality(ProxiesOf(p)) \in Nat
<1> SUFFICES ASSUME NEW p PROVE IsFiniteSet(ProxiesOf(p)) /\ Cardinality(ProxiesOf(p)) \in Nat
  OBVIOUS
<1>1. ProxiesOf(p) \in SUBSET Calls
  BY DEF ProxiesOf
<1>2. IsFiniteSet(ProxiesOf(p))
  BY <1>1, Constants, FS_Subset
<1> QED
  BY <1>2, FS_CardinalityType

\* InflightExact in terms of these sets.
LEMMA Exact ==
  InflightExact <=> \A p \in Peers : /\ inflight[p] = Cardinality(ProxiesOf(p))
                                    /\ inflight[p] <= MaxInflight
  BY DEF InflightExact, ProxiesOf

\* A step of call c that is proxying neither before nor after, or both.
LEMMA SameProxies ==
  ASSUME InflightExact, inflight' = inflight, NEW c \in Calls,
         \A x \in Calls : x # c => calls'[x] = calls[x],
         calls'[c].pc \in Proxying <=> calls[c].pc \in Proxying,
         calls[c].pc \in Proxying => calls'[c].peer = calls[c].peer
  PROVE  InflightExact'
<1>1. \A p \in Peers : ProxiesOf(p)' = ProxiesOf(p)
  BY DEF ProxiesOf
<1> QED
  BY <1>1 DEF InflightExact, ProxiesOf

\* Call c leaves the upstream or the KEK behind.
LEMMA LeaveStep ==
  ASSUME TypeOK, InflightExact, NEW c \in Calls, NEW pc, pc \notin Proxying,
         calls[c].pc \in Proxying, Leave(c, pc)
  PROVE  InflightExact'
<1>1. /\ \A x \in Calls : x # c => calls'[x] = calls[x]
      /\ calls'[c].pc = pc /\ calls[c].peer \in Peers
  BY FinishCalls DEF Leave, TypeOK, Call
<1> DEFINE p == calls[c].peer
<1>2. inflight' = [inflight EXCEPT ![p] = @ - 1] /\ inflight \in [Peers -> Int]
  BY DEF Leave, TypeOK
<1>3. ASSUME NEW q \in Peers
      PROVE  inflight'[q] = Cardinality(ProxiesOf(q)') /\ inflight'[q] <= MaxInflight
  <2>1. inflight[q] = Cardinality(ProxiesOf(q)) /\ inflight[q] <= MaxInflight
    BY Exact
  <2>2. CASE q = p
    <3>1. ProxiesOf(q)' = ProxiesOf(q) \ {c} /\ c \in ProxiesOf(q)
      BY <2>2, <1>1 DEF ProxiesOf
    <3>2. Cardinality(ProxiesOf(q) \ {c}) = Cardinality(ProxiesOf(q)) - 1
      BY <3>1, ProxiesFinite, FS_RemoveElement
    <3>3. inflight'[q] = inflight[q] - 1
      BY <2>2, <1>1, <1>2
    <3> QED
      BY <2>1, <3>1, <3>2, <3>3, ProxiesFinite, Constants
  <2>3. CASE q # p
    <3>1. ProxiesOf(q)' = ProxiesOf(q)
      BY <2>3, <1>1 DEF ProxiesOf
    <3>2. inflight'[q] = inflight[q]
      BY <2>3, <1>1, <1>2
    <3> QED
      BY <2>1, <3>1, <3>2
  <2> QED
    BY <2>2, <2>3
<1> QED
  BY <1>3 DEF InflightExact, ProxiesOf

\* Call c gets past the gates.
LEMMA EnterStep ==
  ASSUME TypeOK, InflightExact, NEW c \in Calls, GatePasses(c)
  PROVE  InflightExact'
<1>1. /\ \A x \in Calls : x # c => calls'[x] = calls[x]
      /\ calls'[c].pc = "kek" /\ calls'[c].peer = calls[c].peer
      /\ calls[c].pc = "gate" /\ calls[c].peer \in Peers
  BY DEF GatePasses, Charged, TypeOK, Call
<1>2. /\ inflight' = [inflight EXCEPT ![calls[c].peer] = @ + 1] /\ inflight \in [Peers -> Int]
      /\ inflight[calls[c].peer] < MaxInflight
  BY <1>1, Constants DEF GatePasses, Charged, Full, TypeOK
<1>3. ASSUME NEW q \in Peers
      PROVE  inflight'[q] = Cardinality(ProxiesOf(q)') /\ inflight'[q] <= MaxInflight
  <2>1. inflight[q] = Cardinality(ProxiesOf(q)) /\ inflight[q] <= MaxInflight
    BY Exact
  <2>2. CASE q = calls[c].peer
    <3>1. ProxiesOf(q)' = ProxiesOf(q) \cup {c} /\ c \notin ProxiesOf(q)
      BY <2>2, <1>1 DEF ProxiesOf
    <3>2. Cardinality(ProxiesOf(q) \cup {c}) = Cardinality(ProxiesOf(q)) + 1
      BY <3>1, ProxiesFinite, FS_AddElement
    <3>3. inflight'[q] = inflight[q] + 1 /\ inflight[q] < MaxInflight
      BY <2>2, <1>1, <1>2
    <3> QED
      BY <2>1, <3>1, <3>2, <3>3, ProxiesFinite, Constants
  <2>3. CASE q # calls[c].peer
    <3>1. ProxiesOf(q)' = ProxiesOf(q)
      BY <2>3, <1>1 DEF ProxiesOf
    <3>2. inflight'[q] = inflight[q]
      BY <2>3, <1>1, <1>2
    <3> QED
      BY <2>1, <3>1, <3>2
  <2> QED
    BY <2>2, <2>3
<1> QED
  BY <1>3 DEF InflightExact, ProxiesOf

\* A failed derivation lets all its waiting proxies go at once.
LEMMA RejectStep ==
  ASSUME TypeOK, InflightExact, KekRejects
  PROVE  InflightExact'
<1>1. ASSUME NEW c \in Calls
      PROVE  /\ calls'[c].peer = calls[c].peer
             /\ calls'[c].pc \in Proxying <=> calls[c].pc = "fetch"
  <2>1. calls'[c] = IF calls[c].pc \notin AwaitsKek THEN calls[c]
                    ELSE [calls[c] EXCEPT !.pc = IF @ = "seed" THEN "gate" ELSE "noKek"]
    BY DEF KekRejects
  <2>2. calls[c] \in Call
    BY DEF TypeOK
  <2> QED
    BY <2>1, <2>2 DEF Call
<1>2. ASSUME NEW q \in Peers
      PROVE  inflight'[q] = Cardinality(ProxiesOf(q)') /\ inflight'[q] <= MaxInflight
  <2> DEFINE W == {c \in Calls : calls[c].pc = "kek" /\ calls[c].peer = q}
  <2>1. inflight[q] = Cardinality(ProxiesOf(q)) /\ inflight[q] <= MaxInflight
    BY Exact
  <2>2. inflight'[q] = inflight[q] - Cardinality(W)
    BY DEF KekRejects
  <2>3. ProxiesOf(q)' = ProxiesOf(q) \ W /\ ProxiesOf(q) \cap W = W
    BY <1>1 DEF ProxiesOf
  <2>4. Cardinality(ProxiesOf(q) \ W) = Cardinality(ProxiesOf(q)) - Cardinality(ProxiesOf(q) \cap W)
    BY ProxiesFinite, FS_Difference
  <2>5. W \subseteq Calls
    OBVIOUS
  <2>6. Cardinality(W) \in Nat
    BY <2>5, Constants, FS_Subset, FS_CardinalityType
  <2>7. Cardinality(ProxiesOf(q)') = Cardinality(ProxiesOf(q)) - Cardinality(W)
    BY <2>3, <2>4
  <2>8. Cardinality(ProxiesOf(q)) \in Nat
    BY ProxiesFinite
  <2> HIDE DEF W
  <2> QED
    BY <2>1, <2>2, <2>6, <2>7, <2>8, Constants
<1> QED
  BY <1>2 DEF InflightExact, ProxiesOf

\* A new instance proxies for nobody.
LEMMA InstanceProxies ==
  ASSUME TypeOK, NewInstance
  PROVE  InflightExact'
<1>1. ASSUME NEW c \in Calls PROVE calls'[c].pc \notin Proxying
  <2>1. calls[c] \in Call
    BY DEF TypeOK
  <2> QED
    BY <2>1 DEF NewInstance, Call
<1>2. ASSUME NEW p \in Peers
      PROVE  inflight'[p] = Cardinality(ProxiesOf(p)') /\ inflight'[p] <= MaxInflight
  <2>1. ProxiesOf(p)' = {} /\ inflight'[p] = 0
    BY <1>1 DEF ProxiesOf, NewInstance
  <2>2. Cardinality(ProxiesOf(p)') = 0
    BY <2>1, FS_EmptySet
  <2> QED
    BY <2>1, <2>2, Constants
<1> QED
  BY <1>2 DEF InflightExact, ProxiesOf

\* Every step keeps the count exact.
LEMMA StepInflight == TypeOK /\ KekInv /\ InflightExact /\ [Next]_vars => InflightExact'
<1> SUFFICES ASSUME TypeOK, KekInv, InflightExact, [Next]_vars PROVE InflightExact'
  OBVIOUS
<1>1. ASSUME NEW c \in Calls, CallStep(c) PROVE InflightExact'
  <2>1. CASE calls[c].pc = "idle"
    <3>1. PICK pc \in Pc \ Proxying, p \in Peers, v \in Services, subs \in SUBSET Subs :
            Begin(c, pc, p, v, subs)
      <4>1. ASSUME NEW p \in Peers, NEW v \in Services, NEW subs \in SUBSET Subs,
                   NEW valid \in BOOLEAN, PutCredential(c, p, v, subs, valid)
            PROVE  \E pc \in Pc \ Proxying : Begin(c, pc, p, v, subs)
        BY <4>1 DEF PutCredential
      <4>2. ASSUME NEW p \in Peers, NEW v \in Services, ReadCredentials(c, p, v)
            PROVE  \E pc \in Pc \ Proxying : Begin(c, pc, p, v, {})
        BY <4>2 DEF ReadCredentials
      <4>3. ASSUME NEW p \in Peers, NEW v \in Services, DeleteCredential(c, p, v)
            PROVE  \E pc \in Pc \ Proxying : Begin(c, pc, p, v, {})
        BY <4>3 DEF DeleteCredential
      <4>4. ASSUME NEW p \in Peers, NEW v \in Services, NEW sub \in Subs, ProxyRequest(c, p, v, sub)
            PROVE  \E pc \in Pc \ Proxying : Begin(c, pc, p, v, {sub})
        BY <4>4 DEF ProxyRequest
      <4>5. \E p \in Peers, v \in Services :
              \/ \E subs \in SUBSET Subs, valid \in BOOLEAN : PutCredential(c, p, v, subs, valid)
              \/ ReadCredentials(c, p, v)
              \/ DeleteCredential(c, p, v)
              \/ \E sub \in Subs : ProxyRequest(c, p, v, sub)
        BY <1>1, <2>1 DEF CallStep, WriteRow, SeedWritten, GateFull, GateLimited, GateDenied,
                          GateRefused, GatePasses, Charged, Decrypt, FetchEnds
      <4>6. PICK p \in Peers, v \in Services :
              \/ \E subs \in SUBSET Subs, valid \in BOOLEAN : PutCredential(c, p, v, subs, valid)
              \/ ReadCredentials(c, p, v)
              \/ DeleteCredential(c, p, v)
              \/ \E sub \in Subs : ProxyRequest(c, p, v, sub)
        BY <4>5
      <4>7. \E pc \in Pc \ Proxying, subs \in SUBSET Subs : Begin(c, pc, p, v, subs)
        <5>1. {} \in SUBSET Subs /\ \A sub \in Subs : {sub} \in SUBSET Subs
          OBVIOUS
        <5> QED
          BY <4>1, <4>2, <4>3, <4>4, <4>6, <5>1
      <4> QED
        BY <4>7
    <3>2. /\ \A x \in Calls : x # c => calls'[x] = calls[x]
          /\ calls'[c].pc = pc
      BY <3>1, BeginCalls
    <3>3. inflight' = inflight
      BY <1>1, <2>1 DEF CallStep, PutCredential, ReadCredentials, DeleteCredential, ProxyRequest,
                        WriteRow, SeedWritten, GateFull, GateLimited, GateDenied,
                        GateRefused, GatePasses, Charged, Decrypt, FetchEnds, memVars
    <3> QED
      BY <2>1, <3>2, <3>3, SameProxies
  <2>2. CASE WriteRow(c) \/ SeedWritten(c) \/ GateFull(c) \/ GateLimited(c) \/ GateDenied(c) \/ GateRefused(c)
    <3>1. PICK pc \in Pc \ Proxying : Finish(c, pc)
      BY <2>2 DEF WriteRow, SeedWritten, GateFull, GateLimited, GateDenied, GateRefused
    <3>2. calls[c].pc \notin Proxying /\ inflight' = inflight
      BY <2>2 DEF WriteRow, SeedWritten, GateFull, GateLimited, GateDenied, GateRefused, Charged, memVars
    <3> QED
      BY <3>1, <3>2, FinishCalls, SameProxies
  <2>3. CASE GatePasses(c)
    BY <2>3, EnterStep
  <2>4. CASE Decrypt(c)
    <3>1. CASE calls[c].cred.kek = env.kek
      <4>1. Finish(c, "fetch") /\ inflight' = inflight /\ calls[c].pc = "kek"
        BY <2>4, <3>1 DEF Decrypt
      <4> QED
        BY <4>1, FinishCalls, SameProxies
    <3>2. CASE calls[c].cred.kek # env.kek
      BY <2>4, <3>2, LeaveStep DEF Decrypt
    <3> QED
      BY <3>1, <3>2
  <2>5. CASE FetchEnds(c)
    BY <2>5, LeaveStep DEF FetchEnds
  <2> QED
    BY <1>1, <2>1, <2>2, <2>3, <2>4, <2>5 DEF CallStep, PutCredential, ReadCredentials,
       DeleteCredential, ProxyRequest
<1>2. CASE KekRejects
  BY <1>2, RejectStep
<1>3. CASE Evict \/ \E d \in Deployments : Redeploy(d) \/ Rotate(d)
  BY <1>3, InstanceProxies DEF Evict, Redeploy, Rotate
<1>4. CASE KekResolves \/ Tick \/ UNCHANGED vars
  <2>1. calls' = calls /\ inflight' = inflight
    BY <1>4 DEF KekResolves, Tick, vars, memVars
  <2> QED
    BY <2>1 DEF InflightExact
<1> QED
  BY <1>1, <1>2, <1>3, <1>4 DEF Next

(***************************************************************************)
(* inflightBySubject counts exactly the running proxy calls of each peer,  *)
(* and the burst cap holds, over failures of the KEK, of the upstream and  *)
(* of the instance.                                                        *)
(***************************************************************************)
THEOREM VaultInflightExact == Spec => []InflightExact
<1>1. Init => InflightExact
  <2> SUFFICES ASSUME Init PROVE InflightExact
    OBVIOUS
  <2>1. \A p \in Peers : ProxiesOf(p) = {} /\ inflight[p] = 0
    BY DEF Init, ProxiesOf
  <2> QED
    BY <2>1, Exact, FS_EmptySet, Constants
<1>2. /\ TypeOK /\ BudgetInv /\ KekInv /\ InflightExact /\ [Next]_vars
      => (TypeOK /\ BudgetInv /\ KekInv /\ InflightExact)'
  BY StepType, StepKek, StepInflight
<1> QED
  BY <1>1, <1>2, InitType, InitKek, PTL DEF Spec
=============================================================================
