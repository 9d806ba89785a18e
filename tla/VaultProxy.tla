----------------------------- MODULE VaultProxy -----------------------------
(***************************************************************************)
(* The route /vault/proxy: a budget per client address before anything is  *)
(* verified, the lease, the manifest's gates, and one of three ways to the *)
(* upstream: the caller's own credential is passed through, the request is *)
(* handed to the vault object, or a credential is looked up and injected.  *)
(* Each call that leaves the route is put on record when it comes back.    *)
(*                                                                         *)
(* A call gives up the isolate where it awaits its lease, the store and    *)
(* the upstream.  The lease is a verdict (module Lease), the vault object  *)
(* a status (module Vault); a body is the one of the shapes it has.        *)
(* Tokens are counted in whole units, Refill of them per second.           *)
(***************************************************************************)
EXTENDS Integers, Sequences, SequencesExt, FiniteSets

CONSTANTS
    Calls, Ips, Peers,
    Names,             \* service names in a path
    Malformed,         \* a path that parseVaultProxyPath refuses
    Manifest,          \* the declared services
    Deployments,       \* CLOISTER_MODE and the credential store
    DevAllowedSubs, DevPassthroughServices,
    Statuses,          \* what an upstream or the vault object answers
    Capacity, Refill, Cost, MaxKeys,  \* PRE_AUTH_LIMITS
    EvictFraction,     \* the part of the keys that is dropped at the cap
    RateWindow,        \* RATE_WINDOW_MS
    MaxNow             \* bound

ASSUME VaultProxyAssumption ==
    /\ Malformed \in Names /\ DOMAIN Manifest \subseteq Names \ {Malformed}
    /\ {Capacity, Refill, Cost, MaxKeys, EvictFraction, RateWindow, MaxNow} \subseteq Nat \ {0}
    /\ MaxKeys >= EvictFraction /\ Cost <= Capacity
    /\ \A d \in Deployments : d.dev \in BOOLEAN /\ d.store \in {"none", "vault", "explicit"}
    /\ \A n \in DOMAIN Manifest : Manifest[n].limit \in Int
    /\ Statuses \subseteq Nat

VARIABLES
    env,       \* the deployment
    now,       \* Date.now() in seconds
    buckets,   \* PRE_AUTH_BUCKETS in the order of insertion
    windows,   \* RATE_BUCKETS
    calls,
    receipts,  \* what receipts.emit was given, by call
    spent,     \* history: units taken from an address's bucket since it was made
    born,      \* history: when it was made
    hint,      \* history: when an address that was refused may come again
    charged    \* history: when consumeRateBudget let a call of a key pass

vars == <<env, now, buckets, windows, calls, receipts, spent, born, hint, charged>>
budgetVars == <<buckets, spent, born, hint>>
windowVars == <<windows, charged>>

Keys == Peers \X Names
None == [count |-> 0, start |-> -1]
NoAnswer == [status |-> 0, body |-> "none", server |-> "none"]
NoCall == [pc |-> "new", name |-> Malformed, peer |-> "none", answer |-> NoAnswer]

Init ==
    /\ env \in Deployments
    /\ now = 0
    /\ buckets = <<>> /\ windows = [k \in Keys |-> None]
    /\ calls = [c \in Calls |-> NoCall]
    /\ receipts = [c \in Calls |-> <<>>]
    /\ spent = [i \in Ips |-> 0] /\ born = [i \in Ips |-> 0] /\ hint = [i \in Ips |-> -1]
    /\ charged = [k \in Keys |-> <<>>]

Tick ==
    /\ now < MaxNow
    /\ now' = now + 1
    /\ UNCHANGED <<env, budgetVars, windowVars, calls, receipts>>

------------------------------------------------------------------------------
(* preAuthBurstLimit. *)

Least(a, b) == IF a < b THEN a ELSE b

\* At the cap the keys inserted first are dropped, whosever they are.
Evicted ==
    IF Len(buckets) >= MaxKeys
    THEN SubSeq(buckets, (MaxKeys \div EvictFraction) + 1, Len(buckets)) ELSE buckets

\* Map.get: the bucket of an address, or nothing.
BucketsOf(kept, ip) == {b \in ToSet(kept) : b.ip = ip}

\* What a bucket holds once it has earned up to t.
Earned(b, t) == Least(Capacity, b.tokens + (t - b.last) * Refill)

\* As if a bucket earned without being stamped.
UnstampedRefill(found, t) ==
    IF found = {} THEN [tokens |-> Capacity, last |-> t]
    ELSE LET b == CHOOSE x \in found : TRUE IN [tokens |-> Earned(b, t), last |-> b.last]

RefillBucketWithLimits(found, t) ==
    IF found = {} THEN [tokens |-> Capacity, last |-> t]
    ELSE LET b == CHOOSE x \in found : TRUE IN [tokens |-> Earned(b, t), last |-> t]

Ceil(a, b) == (a + b - 1) \div b

\* As if every refusal said to come back in a second.
ConstantHint(tokens) == 1

RetryAfterSec(tokens) == IF Ceil(Cost - tokens, Refill) < 1 THEN 1 ELSE Ceil(Cost - tokens, Refill)

\* As if nothing were dropped at the cap.
NoEviction(ip) ==
    LET found == BucketsOf(buckets, ip)
        full == RefillBucketWithLimits(found, now)
    IN  [found |-> found, refilled |-> full, ok |-> full.tokens >= Cost, kept |-> buckets]

\* As if an empty bucket were drawn from.
Overdraft(ip) ==
    LET found == BucketsOf(Evicted, ip)
    IN  [found |-> found, refilled |-> RefillBucketWithLimits(found, now), ok |-> TRUE, kept |-> Evicted]

\* The verdict for an address, and the map it leaves.
PreAuthBurstLimit(ip) ==
    LET found == BucketsOf(Evicted, ip)
        full == RefillBucketWithLimits(found, now)
    IN  [found |-> found, refilled |-> full, ok |-> full.tokens >= Cost, kept |-> Evicted]

\* Map.set keeps the place of a key that is there.
SetBucket(kept, b) ==
    IF \E x \in ToSet(kept) : x.ip = b.ip
    THEN [i \in DOMAIN kept |-> IF kept[i].ip = b.ip THEN b ELSE kept[i]]
    ELSE Append(kept, b)

\* errorResponse.
Refusal(status, body) == [status |-> status, body |-> body, server |-> "none"]

Arrive(c, ip, name) ==
    LET v == PreAuthBurstLimit(ip)
        taken == IF v.ok THEN Cost ELSE 0
    IN  /\ calls[c].pc = "new"
        /\ buckets' = SetBucket(v.kept, [ip |-> ip, tokens |-> v.refilled.tokens - taken,
                                         last |-> v.refilled.last])
        /\ spent' = [spent EXCEPT ![ip] = (IF v.found = {} THEN 0 ELSE @) + taken]
        /\ born' = [born EXCEPT ![ip] = IF v.found = {} THEN now ELSE @]
        /\ hint' = [hint EXCEPT ![ip] = IF v.ok THEN -1 ELSE now + RetryAfterSec(v.refilled.tokens)]
        /\ calls' = [calls EXCEPT ![c] =
             [pc |-> IF v.ok THEN "lease" ELSE "answered", name |-> name, peer |-> "none",
              answer |-> IF v.ok THEN NoAnswer ELSE Refusal(429, "constant")]]
        /\ UNCHANGED <<env, now, windowVars, receipts>>

------------------------------------------------------------------------------
(* VaultProxyRoute.handle after the budget. *)

Answered(c, answer) == calls' = [calls EXCEPT ![c].pc = "answered", ![c].answer = answer]

LeaseRefused(c, status) ==
    /\ calls[c].pc = "lease"
    /\ Answered(c, Refusal(status, "constant"))
    /\ UNCHANGED <<env, now, budgetVars, windowVars, receipts>>

\* applyDevAllowedSubs.
AllowedSubs(name) == Manifest[name].allowed \cup (IF env.dev THEN DevAllowedSubs ELSE {})

\* applyDevPassthrough.
InjectionKind(name) ==
    IF env.dev /\ name \in DevPassthroughServices THEN "passthrough" ELSE Manifest[name].injection

Declared(name) == name \in DOMAIN Manifest

\* As if the manifest's list were left to the lookup and its handler.
HandGateLater(name, peer) ==
    IF name # Malformed /\ ~Declared(name) THEN "undeclared"
    ELSE IF Declared(name) /\ InjectionKind(name) = "passthrough" THEN "passthrough"
    ELSE IF env.store = "none" THEN "noStore"
    ELSE IF env.store = "vault" /\ name # Malformed THEN "vault"
    ELSE "resolve"

\* Where a verified caller's request goes.
Handle(name, peer) ==
    IF name # Malformed /\ ~Declared(name) THEN "undeclared"
    ELSE IF name # Malformed /\ peer \notin AllowedSubs(name) THEN "denied"
    ELSE IF Declared(name) /\ InjectionKind(name) = "passthrough" THEN "passthrough"
    ELSE IF env.store = "none" THEN "noStore"    \* selectCredentialStore
    ELSE IF env.store = "vault" /\ name # Malformed THEN "vault"
    ELSE "resolve"

LeaseVerified(c, peer) ==
    LET way == Handle(calls[c].name, peer)
    IN  /\ calls[c].pc = "lease"
        /\ calls' = [calls EXCEPT ![c].peer = peer,
             ![c].pc = IF way \in {"undeclared", "denied", "noStore"} THEN "answered" ELSE way,
             ![c].answer = CASE way \in {"undeclared", "denied"} -> Refusal(404, "constant")
                             [] way = "noStore" -> Refusal(503, "shapeU")
                             [] OTHER -> NoAnswer]
        /\ UNCHANGED <<env, now, budgetVars, windowVars, receipts>>

------------------------------------------------------------------------------
(* vaultProxyHandler, for a store that gives a credential away. *)

\* The verdict for a peer and a service, and the window before it is charged.
ConsumeRateBudget(key, limit) ==
    LET w == IF windows[key] = None \/ now - windows[key].start >= RateWindow
             THEN [count |-> 0, start |-> now] ELSE windows[key]
    IN  [ok |-> limit <= 0 \/ w.count < limit, window |-> w]

\* No credential is kept for the caller, or the path has no service.
LookupFails(c) ==
    /\ calls[c].pc = "resolve"
    /\ Answered(c, Refusal(404, "constant"))
    /\ UNCHANGED <<env, now, budgetVars, windowVars, receipts>>

VaultProxyHandler(c) ==
    LET key == <<calls[c].peer, calls[c].name>>
        limit == Manifest[calls[c].name].limit
        v == ConsumeRateBudget(key, limit)
    IN  /\ calls[c].pc = "resolve" /\ Declared(calls[c].name)
        /\ windows' = [windows EXCEPT ![key] = IF limit <= 0 THEN @
                         ELSE IF v.ok THEN [v.window EXCEPT !.count = @ + 1] ELSE v.window]
        /\ charged' = [charged EXCEPT ![key] = IF v.ok THEN Append(@, now) ELSE @]
        /\ IF v.ok THEN calls' = [calls EXCEPT ![c].pc = "upstream"]
           ELSE Answered(c, Refusal(429, "limited"))
        /\ UNCHANGED <<env, now, budgetVars, receipts>>

------------------------------------------------------------------------------
(* proxyWithReceipt and forwardWithReceipt. *)

Outside == {"passthrough", "vault", "upstream"}

\* As if the record were kept only of a call that came back.
EmitUnlessThrown(c, status) ==
    receipts' = [receipts EXCEPT ![c] = IF status = 0 THEN @
                   ELSE Append(@, [peer |-> calls[c].peer, service |-> calls[c].name, status |-> status])]

EmitProxyCallTelemetry(c, status) ==
    receipts' = [receipts EXCEPT ![c] =
                   Append(@, [peer |-> calls[c].peer, service |-> calls[c].name, status |-> status])]

\* As if a missing credential kept the vault's own words.
KeepNotFound(status, server) ==
    IF status \in {401, 403, 429}
    THEN [status |-> status, body |-> "constant", server |-> "proxy"]
    ELSE [status |-> status, body |-> "own", server |-> IF status \in 200..399 THEN "proxy" ELSE server]

CollapseWireShape(status, server) ==
    CASE status \in 200..399 -> [status |-> status, body |-> "own", server |-> "proxy"]
      [] status \in {401, 403, 404, 429} ->
           [status |-> status, body |-> "constant", server |-> "proxy"]
      [] status \in {502, 503} -> [status |-> status, body |-> "shapeU", server |-> "proxy"]
      [] OTHER -> [status |-> status, body |-> "own", server |-> server]

\* The upstream answers; a call of the vault object that throws is a 502 too.
Answers(c, status) ==
    /\ calls[c].pc \in Outside
    /\ EmitProxyCallTelemetry(c, status)
    /\ Answered(c, CASE calls[c].pc = "passthrough" -> CollapseWireShape(status, "upstream")
                     [] calls[c].pc = "vault" -> CollapseWireShape(status, "none")
                     [] OTHER -> [status |-> status, body |-> "own", server |-> "upstream"])
    /\ UNCHANGED <<env, now, budgetVars, windowVars>>

\* The fetch fails, or the body cannot be edited: handle rejects.
Throws(c) ==
    /\ calls[c].pc \in Outside \ {"vault"}
    /\ EmitProxyCallTelemetry(c, 0)
    /\ calls' = [calls EXCEPT ![c].pc = "thrown"]
    /\ UNCHANGED <<env, now, budgetVars, windowVars>>

------------------------------------------------------------------------------
Next ==
    \/ Tick
    \/ \E c \in Calls :
         \/ \E ip \in Ips, name \in Names : Arrive(c, ip, name)
         \/ \E status \in {401, 503} : LeaseRefused(c, status)
         \/ \E peer \in Peers : LeaseVerified(c, peer)
         \/ LookupFails(c) \/ VaultProxyHandler(c)
         \/ \E status \in Statuses : Answers(c, status)
         \/ Throws(c)

Spec == Init /\ [][Next]_vars

------------------------------------------------------------------------------
Bodies == {"none", "constant", "limited", "shapeU", "own"}
Answer == [status : Nat, body : Bodies, server : {"none", "proxy", "upstream"}]

Call == [pc : {"new", "lease", "resolve", "answered", "thrown"} \cup Outside,
         name : Names, peer : Peers \cup {"none"}, answer : Answer]

TypeOK ==
    /\ env \in Deployments /\ now \in 0..MaxNow
    /\ buckets \in Seq([ip : Ips, tokens : 0..Capacity, last : 0..now])
    /\ windows \in [Keys -> [count : Nat, start : -1..now]]
    /\ calls \in [Calls -> Call]
    /\ receipts \in [Calls -> Seq([peer : Peers, service : Names, status : Nat])]
    /\ spent \in [Ips -> Nat] /\ born \in [Ips -> 0..now] /\ hint \in [Ips -> Int]
    /\ charged \in [Keys -> Seq(0..now)]

\* The map of budgets has one bucket per address and never more than its cap,
\* however addresses come and go.
BucketsBounded ==
    /\ Len(buckets) <= MaxKeys
    /\ \A i, j \in DOMAIN buckets : buckets[i].ip = buckets[j].ip => i = j

\* While its bucket lives, an address is served no more than the bucket's
\* capacity and what it earned since.
PreAuthBound == \A i \in Ips : spent[i] <= Capacity + Refill * (now - born[i])

\* An address that was refused and comes back when it was told to is served,
\* whether or not its bucket was dropped meanwhile.
HintHonoured ==
    \A i \in Ips : hint[i] # -1 /\ now >= hint[i] => PreAuthBurstLimit(i).ok

\* Within any span of a window's length a peer is let through to a service at
\* most twice its limit.
TwiceTheLimit ==
    \A k \in Keys : Declared(k[2]) /\ Manifest[k[2]].limit > 0 =>
        \A i \in DOMAIN charged[k] :
            Cardinality({j \in DOMAIN charged[k] :
                charged[k][j] - charged[k][i] \in 0..(RateWindow - 1)}) <= 2 * Manifest[k[2]].limit

\* A call leaves one record, with its peer and the status its caller was
\* answered, if it left the route, and none if it was refused there.
OneReceiptPerCall ==
    \A c \in Calls : LET q == calls[c] IN
        IF q.pc = "thrown" THEN receipts[c] = <<[peer |-> q.peer, service |-> q.name, status |-> 0]>>
        ELSE IF q.pc = "answered" /\ (q.answer.server # "none" \/ q.answer.body = "own")
        THEN receipts[c] = <<[peer |-> q.peer, service |-> q.name, status |-> q.answer.status]>>
        ELSE receipts[c] = <<>>

\* Outside dev mode, whoever is on record was listed for the service by the
\* manifest, whichever way the request took.
RecordedWasAllowed ==
    ~env.dev => \A c \in Calls : \A x \in ToSet(receipts[c]) :
        Declared(x.service) /\ x.peer \in Manifest[x.service].allowed

\* Where the vault or the caller holds the credential, every answer that denies
\* access has one body, whichever gate it was that denied it.
DenialsAlike ==
    \A c \in Calls : calls[c].answer.status \in {401, 403, 404, 429} /\ env.store # "explicit" =>
        calls[c].answer.body = "constant"

\* Both meters hold: buckets are bounded in number and in what they let through,
\* their hints are right, and a window's limit is exceeded by itself at most.
Metered == TypeOK /\ BucketsBounded /\ PreAuthBound /\ HintHonoured /\ TwiceTheLimit

\* Calls are accounted for: one record each, of somebody who was allowed, and
\* denials that do not tell which gate denied.
CallsRecorded == OneReceiptPerCall /\ RecordedWasAllowed /\ DenialsAlike
=============================================================================
