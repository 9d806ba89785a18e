------------------------------- MODULE Vault -------------------------------
(***************************************************************************)
(* The CredentialVault Durable Object: credentials sealed under a key-     *)
(* encryption key (KEK) and used on behalf of a peer by proxyRequest.      *)
(*                                                                         *)
(* The object runs its calls concurrently: a call gives up the object      *)
(* whenever it awaits the KEK, the cipher or the upstream, and the object  *)
(* is evicted at any time, which ends its calls and forgets what is not in *)
(* SQL.  The KEK comes from an outside source named by the deployment; the *)
(* derivation under way is shared by all calls that need it, and the name  *)
(* of the source is pinned in SQL when it is first asked for.              *)
(*                                                                         *)
(* Abstractions.  A KEK is the configuration it is derived from: a source  *)
(* answers with the same secret each time, and the HKDF of a tenant-scoped *)
(* KEK has no collisions.  A sealed credential is the KEK it was sealed    *)
(* under; an allowedSubs list is the set of subjects its globs match.      *)
(* Tokens are counted in whole units, Refill of them per tick.             *)
(***************************************************************************)
EXTENDS Integers, FiniteSets

CONSTANTS
    Peers,        \* subject fingerprints
    Services,
    Subs,         \* callerSub values
    Calls,        \* RPCs, each made once
    Sources,      \* URL specs for VAULT_KEK_SOURCE that can be resolved
    BadSources,   \* specs that buildKekSource throws on
    Unset,        \* the empty spec
    Deployments,  \* configurations the operator deploys
    Seed,         \* DEV_VAULT_SEED
    Absent,       \* a row that vault_state does not have
    NoCred,       \* no row of credentials
    Capacity,     \* RATE_LIMITS.CAPACITY
    Refill,       \* RATE_LIMITS.REFILL_PER_SEC
    MaxInflight   \* RATE_LIMITS.MAX_INFLIGHT

\* RATE_LIMITS.COST
CostRead == 1
CostWrite == 3
CostProxy == 5

Specs == Sources \cup BadSources \cup {Unset}

\* A KEK, named by the configuration it is derived from.
Kek == [spec : Specs, scoped : {"0", "1"}]

Cred == [kek : Kek, allowed : SUBSET Subs]

ASSUME VaultAssumption ==
    /\ Deployments \subseteq [kek : Kek, dev : BOOLEAN]
    /\ Seed \in [peer : Peers, service : Services, allowed : SUBSET Subs]
    /\ Absent \notin Specs \cup {"0", "1"}
    /\ Unset \notin Sources \cup BadSources
    /\ Sources \cap BadSources = {}
    /\ NoCred \notin Cred
    /\ {Capacity, Refill, MaxInflight} \subseteq Nat
    /\ IsFiniteSet(Calls)

VARIABLES
    env,       \* the deployment the object runs under
    pin,       \* SQL vault_state: the rows kek_source and kek_tenant_scoped
    creds,     \* SQL credentials
    bucket,    \* SQL rate_buckets; a peer never seen has a full bucket
    slot,      \* kekPromise
    inflight,  \* inflightBySubject
    seeded,    \* #devSeeded
    calls,     \* the local state of each RPC
    now,       \* Date.now
    spent,     \* history: tokens charged to each peer
    derived    \* history: the KEKs that were ever derived

sqlVars == <<pin, creds, bucket>>
memVars == <<slot, inflight, seeded>>
history == <<spent, derived>>
vars == <<env, sqlVars, memVars, calls, now, history>>

\* Where a call waits: for the seed's KEK, for the gates (proxyRequest after
\* its seed), for the KEK of a put or of a proxy, for the upstream.
Running == {"seed", "gate", "put", "kek", "fetch"}

AwaitsKek == {"seed", "put", "kek"}

\* The calls that are between #incInflight and #decInflight.
Proxying == {"kek", "fetch"}

Pc == Running \cup {"idle", "ok", "limited", "invalid", "denied", "refused", "noKek",
                    "undecryptable", "upstreamFailed", "lost"}

Call == [pc : Pc, peer : Peers, service : Services, subs : SUBSET Subs,
         cred : Cred \cup {NoCred}]

TypeOK ==
    /\ env \in Deployments
    /\ pin \in [spec : Specs \cup {Absent}, scoped : {"0", "1", Absent}]
    /\ creds \in [Peers \X Services -> Cred \cup {NoCred}]
    /\ bucket \in [Peers -> [tokens : 0..Capacity, last : Nat]]
    /\ slot \in {"none", "pending", "ready", "rejected"}
    /\ inflight \in [Peers -> Int]
    /\ seeded \in BOOLEAN
    /\ calls \in [Calls -> Call]
    /\ now \in Nat
    /\ spent \in [Peers -> Nat]
    /\ derived \subseteq Kek

Init ==
    /\ env \in Deployments
    /\ pin = [spec |-> Absent, scoped |-> Absent]
    /\ creds = [k \in Peers \X Services |-> NoCred]
    /\ bucket = [p \in Peers |-> [tokens |-> Capacity, last |-> 0]]
    /\ slot = "none"
    /\ inflight = [p \in Peers |-> 0]
    /\ seeded = FALSE
    /\ \E p \in Peers, v \in Services :
         calls = [c \in Calls |-> [pc |-> "idle", peer |-> p, service |-> v,
                                   subs |-> {}, cred |-> NoCred]]
    /\ now = 0
    /\ spent = [p \in Peers |-> 0]
    /\ derived = {}

------------------------------------------------------------------------------
(* The budget of a peer. *)

\* As if a refill were not clamped to the capacity.
UnclampedRefill(b, t) ==
    [tokens |-> b.tokens + Refill * (IF t > b.last THEN t - b.last ELSE 0), last |-> t]

\* As if the time of a refill were not written back.
UnstampedRefill(b, t) ==
    LET full == b.tokens + Refill * (IF t > b.last THEN t - b.last ELSE 0)
    IN  [tokens |-> IF full > Capacity THEN Capacity ELSE full, last |-> b.last]

RefillBucket(b, t) ==
    LET full == b.tokens + Refill * (IF t > b.last THEN t - b.last ELSE 0)
    IN  [tokens |-> IF full > Capacity THEN Capacity ELSE full, last |-> t]

Affords(p, cost) == RefillBucket(bucket[p], now).tokens >= cost

\* The refilled bucket is written back even when the call is turned away.
ConsumeBudget(p, cost) ==
    LET b == RefillBucket(bucket[p], now)
        charge == IF Affords(p, cost) THEN cost ELSE 0
    IN  /\ bucket' = [bucket EXCEPT ![p] = [b EXCEPT !.tokens = @ - charge]]
        /\ spent' = [spent EXCEPT ![p] = @ + charge]

------------------------------------------------------------------------------
(* The part of #getKEK that runs in the caller's turn. *)

\* As if the tenant flag were not compared.
SpecOnlyPin ==
    IF pin.spec = Absent THEN pin.scoped = Absent ELSE pin.spec = env.kek.spec

\* As if there were no pin.
NoPin == TRUE

\* #assertKekSourceSpecPinned returns rather than throws.  With kek_source
\* gone and kek_tenant_scoped still there its second INSERT throws.
PinAccepts ==
    IF pin.spec = Absent THEN pin.scoped = Absent
                         ELSE pin = env.kek

\* #resolveKekSource returns a source.  A tenant-scoped source is built
\* inside resolve(), so a bad spec shows there.
Buildable == env.kek.spec # Unset /\ (env.kek.scoped = "1" \/ env.kek.spec \notin BadSources)

KekGranted == slot # "none" \/ (PinAccepts /\ Buildable)

WritePin ==
    pin' = IF slot = "none" /\ pin.spec = Absent
           THEN [spec |-> env.kek.spec,
                 scoped |-> IF pin.scoped = Absent THEN env.kek.scoped ELSE pin.scoped]
           ELSE pin

GetKEK ==
    /\ WritePin
    /\ slot' = IF slot = "none" /\ KekGranted THEN "pending" ELSE slot

\* The shared derivation succeeds; its waiters go on one by one.
KekResolves ==
    /\ slot = "pending"
    /\ env.kek.spec \in Sources
    /\ slot' = "ready"
    /\ derived' = derived \cup {env.kek}
    /\ UNCHANGED <<env, sqlVars, inflight, seeded, calls, now, spent>>

\* As if the slot kept the rejected promise.
StickyKekRejects ==
    LET leaving(p) == {c \in Calls : calls[c].pc = "kek" /\ calls[c].peer = p}
    IN  /\ slot = "pending"
        /\ slot' = "rejected"
        /\ calls' = [c \in Calls |->
              IF calls[c].pc \notin AwaitsKek THEN calls[c]
              ELSE [calls[c] EXCEPT !.pc = IF @ = "seed" THEN "gate" ELSE "noKek"]]
        /\ inflight' = [p \in Peers |-> inflight[p] - Cardinality(leaving(p))]
        /\ UNCHANGED <<env, sqlVars, seeded, now, history>>

\* It fails: the catch handler empties the slot before any waiter runs.  A
\* proxy leaves through its finally, a seed's failure is logged and dropped.
KekRejects ==
    LET failed == [c \in Calls |->
            IF calls[c].pc \notin AwaitsKek THEN calls[c]
            ELSE [calls[c] EXCEPT !.pc = IF @ = "seed" THEN "gate" ELSE "noKek"]]
        leaving(p) == {c \in Calls : calls[c].pc = "kek" /\ calls[c].peer = p}
    IN  /\ slot = "pending"
        /\ slot' = "none"
        /\ calls' = failed
        /\ inflight' = [p \in Peers |-> inflight[p] - Cardinality(leaving(p))]
        /\ UNCHANGED <<env, sqlVars, seeded, now, history>>

------------------------------------------------------------------------------
(* The RPCs that store, show and delete credentials. *)

Begin(c, pc, p, v, subs) ==
    calls' = [calls EXCEPT ![c] = [pc |-> pc, peer |-> p, service |-> v,
                                   subs |-> subs, cred |-> NoCred]]

Finish(c, pc) == calls' = [calls EXCEPT ![c].pc = pc]

\* putCredential up to its first await.
PutCredential(c, p, v, subs, valid) ==
    /\ calls[c].pc = "idle"
    /\ ConsumeBudget(p, CostWrite)
    /\ \/ /\ ~Affords(p, CostWrite)
          /\ Begin(c, "limited", p, v, subs)
          /\ UNCHANGED <<pin, slot>>
       \/ /\ Affords(p, CostWrite) /\ ~valid
          /\ Begin(c, "invalid", p, v, subs)
          /\ UNCHANGED <<pin, slot>>
       \/ /\ Affords(p, CostWrite) /\ valid
          /\ GetKEK
          /\ Begin(c, IF KekGranted THEN "put" ELSE "refused", p, v, subs)
    /\ UNCHANGED <<env, creds, inflight, seeded, now, derived>>

\* The rest of #writeRow, once the KEK is there.
WriteRow(c) ==
    /\ calls[c].pc = "put" /\ slot = "ready"
    /\ creds' = [creds EXCEPT ![<<calls[c].peer, calls[c].service>>] =
                    [kek |-> env.kek, allowed |-> calls[c].subs]]
    /\ Finish(c, "ok")
    /\ UNCHANGED <<env, pin, bucket, memVars, now, history>>

\* getCredentialMetadata and listServices.
ReadCredentials(c, p, v) ==
    /\ calls[c].pc = "idle"
    /\ ConsumeBudget(p, CostRead)
    /\ Begin(c, IF Affords(p, CostRead) THEN "ok" ELSE "limited", p, v, {})
    /\ UNCHANGED <<env, pin, creds, memVars, now, derived>>

DeleteCredential(c, p, v) ==
    /\ calls[c].pc = "idle"
    /\ ConsumeBudget(p, CostRead)
    /\ \/ /\ ~Affords(p, CostRead)
          /\ Begin(c, "limited", p, v, {})
          /\ UNCHANGED creds
       \/ /\ Affords(p, CostRead)
          /\ Begin(c, "ok", p, v, {})
          /\ creds' = [creds EXCEPT ![<<p, v>>] = NoCred]
    /\ UNCHANGED <<env, pin, memVars, now, derived>>

------------------------------------------------------------------------------
(* proxyRequest. *)

\* #maybeDevSeed up to its first await: the flag is set first, and only in
\* dev mode a put follows, whose failure is swallowed.
ProxyRequest(c, p, v, sub) ==
    LET seeding == ~seeded /\ env.dev
        paid == Affords(Seed.peer, CostWrite)
    IN  /\ calls[c].pc = "idle"
        /\ seeded' = TRUE
        /\ IF seeding THEN ConsumeBudget(Seed.peer, CostWrite) ELSE UNCHANGED <<bucket, spent>>
        /\ IF seeding /\ paid THEN GetKEK ELSE UNCHANGED <<pin, slot>>
        /\ Begin(c, IF seeding /\ paid /\ KekGranted THEN "seed" ELSE "gate", p, v, {sub})
        /\ UNCHANGED <<env, creds, inflight, now, derived>>

SeedWritten(c) ==
    /\ calls[c].pc = "seed" /\ slot = "ready"
    /\ creds' = [creds EXCEPT ![<<Seed.peer, Seed.service>>] =
                    [kek |-> env.kek, allowed |-> Seed.allowed]]
    /\ Finish(c, "gate")
    /\ UNCHANGED <<env, pin, bucket, memVars, now, history>>

Full(p) == inflight[p] >= MaxInflight

\* #checkInflight turns the call away before it is charged.
GateFull(c) ==
    /\ calls[c].pc = "gate" /\ Full(calls[c].peer)
    /\ Finish(c, "limited")
    /\ UNCHANGED <<env, sqlVars, memVars, now, history>>

\* Past the burst gate: the call is charged.
Charged(c) ==
    /\ calls[c].pc = "gate" /\ ~Full(calls[c].peer)
    /\ ConsumeBudget(calls[c].peer, CostProxy)

GateLimited(c) ==
    /\ Charged(c) /\ ~Affords(calls[c].peer, CostProxy)
    /\ Finish(c, "limited")
    /\ UNCHANGED <<env, pin, creds, memVars, now, derived>>

\* The row #proxyRequestInner reads for the call, and checkAccess on it.
RowFor(c) == creds[<<calls[c].peer, calls[c].service>>]

Permitted(c) == RowFor(c) # NoCred /\ calls[c].subs \cap RowFor(c).allowed # {}

\* No row and a row that does not permit the caller get the same 404.
GateDenied(c) ==
    /\ Charged(c) /\ Affords(calls[c].peer, CostProxy) /\ ~Permitted(c)
    /\ Finish(c, "denied")
    /\ UNCHANGED <<env, pin, creds, memVars, now, derived>>

\* #getKEK throws in the same turn; the finally has undone the increment.
GateRefused(c) ==
    /\ Charged(c) /\ Affords(calls[c].peer, CostProxy) /\ Permitted(c) /\ ~KekGranted
    /\ GetKEK
    /\ Finish(c, "refused")
    /\ UNCHANGED <<env, creds, inflight, seeded, now, derived>>

GatePasses(c) ==
    /\ Charged(c) /\ Affords(calls[c].peer, CostProxy) /\ Permitted(c) /\ KekGranted
    /\ GetKEK
    /\ inflight' = [inflight EXCEPT ![calls[c].peer] = @ + 1]
    /\ calls' = [calls EXCEPT ![c].pc = "kek", ![c].cred = RowFor(c)]
    /\ UNCHANGED <<env, creds, seeded, now, derived>>

Leave(c, pc) ==
    /\ Finish(c, pc)
    /\ inflight' = [inflight EXCEPT ![calls[c].peer] = @ - 1]

\* AES-GCM opens what it sealed under the same key, and nothing else.
Decrypt(c) ==
    /\ calls[c].pc = "kek" /\ slot = "ready"
    /\ IF calls[c].cred.kek = env.kek THEN Finish(c, "fetch") /\ UNCHANGED inflight
                                      ELSE Leave(c, "undecryptable")
    /\ UNCHANGED <<env, sqlVars, slot, seeded, now, history>>

\* As if the decrement were not in a finally.
LeakyFetchEnds(c) ==
    /\ calls[c].pc = "fetch"
    /\ \/ Leave(c, "ok")
       \/ Finish(c, "upstreamFailed") /\ UNCHANGED inflight
    /\ UNCHANGED <<env, sqlVars, slot, seeded, now, history>>

\* The upstream answers, or the fetch throws.
FetchEnds(c) ==
    /\ calls[c].pc = "fetch"
    /\ \E pc \in {"ok", "upstreamFailed"} : Leave(c, pc)
    /\ UNCHANGED <<env, sqlVars, slot, seeded, now, history>>

------------------------------------------------------------------------------
(* What the platform and the operator do. *)

\* A new instance of the object: SQL is kept, memory and running calls are not.
NewInstance ==
    /\ slot' = "none"
    /\ inflight' = [p \in Peers |-> 0]
    /\ seeded' = FALSE
    /\ calls' = [c \in Calls |-> IF calls[c].pc \in Running
                                 THEN [calls[c] EXCEPT !.pc = "lost"] ELSE calls[c]]

Evict ==
    /\ NewInstance
    /\ UNCHANGED <<env, sqlVars, now, history>>

Redeploy(d) ==
    /\ env' = d
    /\ NewInstance
    /\ UNCHANGED <<sqlVars, now, history>>

\* The rotation playbook, carried out while nothing runs: delete the pin
\* kek_source and the credentials, deploy the new configuration.
Rotate(d) ==
    /\ env' = d
    /\ NewInstance
    /\ pin' = [pin EXCEPT !.spec = Absent]
    /\ creds' = [k \in Peers \X Services |-> NoCred]
    /\ UNCHANGED <<bucket, now, history>>

Tick ==
    /\ now' = now + 1
    /\ UNCHANGED <<env, sqlVars, memVars, calls, history>>

CallStep(c) ==
    \/ \E p \in Peers, v \in Services :
         \/ \E subs \in SUBSET Subs, valid \in BOOLEAN : PutCredential(c, p, v, subs, valid)
         \/ ReadCredentials(c, p, v)
         \/ DeleteCredential(c, p, v)
         \/ \E sub \in Subs : ProxyRequest(c, p, v, sub)
    \/ WriteRow(c) \/ SeedWritten(c)
    \/ GateFull(c) \/ GateLimited(c) \/ GateDenied(c) \/ GateRefused(c) \/ GatePasses(c)
    \/ Decrypt(c) \/ FetchEnds(c)

Next ==
    \/ \E c \in Calls : CallStep(c)
    \/ KekResolves \/ KekRejects
    \/ Evict \/ Tick
    \/ \E d \in Deployments : Redeploy(d) \/ Rotate(d)

Spec == Init /\ [][Next]_vars

\* A derivation ends: the helper is asked three times at most, and a fetch
\* the platform gives up on throws.  The work that is left to a call once the
\* KEK is there is the cipher and SQL.
Fairness ==
    /\ WF_vars(KekResolves \/ KekRejects)
    /\ \A c \in Calls : WF_vars(WriteRow(c) \/ SeedWritten(c) \/ Decrypt(c))

FairSpec == Spec /\ Fairness

------------------------------------------------------------------------------
(***************************************************************************)
(* Every stored credential is sealed under the KEK that the pin names, so  *)
(* that the vault never holds rows of two KEKs (#assertKekSourceSpecPinned *)
(* against the deployments an operator goes through, half-failed pin       *)
(* writes included).                                                       *)
(***************************************************************************)
SealedUnderPin == \A k \in Peers \X Services : creds[k] # NoCred => creds[k].kek = pin

(***************************************************************************)
(* No proxy call gets as far as a KEK that does not open the row it read:  *)
(* #proxyRequestInner reads the row before it awaits the KEK.              *)
(***************************************************************************)
AlwaysDecrypts == \A c \in Calls : calls[c].pc # "undecryptable"

(***************************************************************************)
(* Whoever awaits the KEK awaits a derivation that is under way or done,   *)
(* never one that already failed: #getKEK clears kekPromise on rejection   *)
(* so that one failed lookup is not the answer to every later call.        *)
(***************************************************************************)
WaitersHaveDerivation ==
    \A c \in Calls : calls[c].pc \in AwaitsKek => slot \in {"pending", "ready"}

(***************************************************************************)
(* inflightBySubject counts each peer's running proxy calls, whichever way *)
(* they left, and never more than MAX_INFLIGHT: neither a leak that locks  *)
(* a peer out nor a gap in the burst cap (#checkInflight, #incInflight,    *)
(* #decInflight over the awaits between them).                             *)
(***************************************************************************)
InflightExact ==
    \A p \in Peers :
        /\ inflight[p] = Cardinality({c \in Calls : calls[c].pc \in Proxying /\ calls[c].peer = p})
        /\ inflight[p] <= MaxInflight

(***************************************************************************)
(* What a peer is charged stays within one full bucket and what the clock  *)
(* refilled, over rejected calls, evictions and redeployments              *)
(* (#consumeBudget, refillBucket, tryConsume).                             *)
(***************************************************************************)
BudgetBound == \A p \in Peers : spent[p] <= Capacity + Refill * now

(***************************************************************************)
(* A call that awaits the KEK gets on: it proceeds, fails with the         *)
(* derivation it waited for, or is lost with its instance (#getKEK).       *)
(***************************************************************************)
WaitersWake ==
    \A c \in Calls : calls[c].pc \in AwaitsKek ~> calls[c].pc \notin AwaitsKek

\* One KEK at a time: what is stored is sealed under the pinned one, what is
\* read is opened by it, and whoever waits for it waits for a derivation.
KekHolds == SealedUnderPin /\ AlwaysDecrypts /\ WaitersHaveDerivation
=============================================================================
