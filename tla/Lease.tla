------------------------------- MODULE Lease -------------------------------
(***************************************************************************)
(* The Interlace lease gate: what every lease-gated route does before it   *)
(* serves a request (gateAndVerify), the CA-bundle cache each isolate      *)
(* verifies against, and the two tables of the TrustStore Durable Object   *)
(* that an accepted request is written to: seen_nonces, the replay ledger, *)
(* and peer_lease_counters, one hash chain per peer.                       *)
(*                                                                         *)
(* Requests run concurrently in isolates that are evicted at any time, and *)
(* an envelope may be delivered any number of times.  A request uses the   *)
(* clock it read on arrival to the end, over all its awaits.               *)
(*                                                                         *)
(* Abstractions.  A signed envelope is a record whose fields say what the  *)
(* checks would find; the chain hash is the list of what was folded into   *)
(* it (no collisions); the CA's key for epoch n has id n.                  *)
(***************************************************************************)
EXTENDS Integers, Sequences

CONSTANTS
    Peers,
    Certs,          \* see LeaseAssumption for their fields
    Envelopes,      \* the requests clients have signed
    Execs,          \* invocations of gateAndVerify in flight
    Isolates,       \* Worker isolates, each with its own bundle cache
    Configs,        \* the deployments considered
    DenyWhenOff,    \* what the routes considered pass as denyWhenOff
    DevEpoch,       \* DEV_CA_EPOCH
    MaxSkew,        \* MAX_CLOCK_SKEW_MS
    Refresh,        \* BUNDLE_REFRESH_MS
    Retention,      \* SEEN_NONCES_RETENTION_MS
    AlarmInterval,  \* ALARM_INTERVAL_MS
    MaxFlight,      \* longest a request takes from reading the clock to its write
    TransportLag    \* oldest bundle the way to the CA may still hand over

Scope == [tool : STRING, repo : STRING]

(***************************************************************************)
(* Retention must cover the time in which two deliveries of one envelope   *)
(* can both be within the skew, and the time a request is under way.       *)
(* The constants of the code are 60 min, 1 min, and no bound at all.       *)
(***************************************************************************)
ASSUME LeaseAssumption ==
    /\ Certs \subseteq [fp : STRING, peer : Peers, kid : Nat, epoch : Nat,
                        claims : BOOLEAN, from : Nat, to : Nat, scope : Scope]
    /\ Envelopes \subseteq [cert : Certs, nonce : STRING, ts : Nat,
                            wellFormed : BOOLEAN, sigOk : BOOLEAN, wants : Scope]
    /\ Configs \subseteq [dev : BOOLEAN, devMaster : BOOLEAN, root : BOOLEAN]
    /\ DenyWhenOff \subseteq BOOLEAN
    /\ DevEpoch \in Nat
    /\ {MaxSkew, Refresh, Retention, AlarmInterval, MaxFlight, TransportLag} \subseteq Nat
    /\ Refresh > 0
    /\ Retention >= 2 * MaxSkew + MaxFlight

VARIABLES
    now,        \* the clock
    conf,       \* the deployment's variables, fixed when it is deployed
    ca,         \* notme: its epoch, and whether a rotation window is open
    issued,     \* bundles signed by notme that a fetch may still get
    revoked,    \* history: the epochs notme no longer honours, and since when
    cache,      \* each isolate's _cache: empty, or one entry
    ex,         \* the local state of each request
    seen,       \* rows of seen_nonces
    counter,    \* rows of peer_lease_counters
    alarm       \* the TrustStore's alarm: empty, or one time

caVars == <<ca, issued, revoked>>
doVars == <<seen, counter, alarm>>
vars == <<now, conf, caVars, cache, ex, doVars>>

Bundle == [epoch : Nat, prev : BOOLEAN, issuedAt : Nat]

NoBundle == [epoch |-> 0, prev |-> FALSE, issuedAt |-> 0]

NoEnvelope == <<>>

\* The points at which a request waits, and the three ways it ends.
Pc == {"idle", "arrived", "fetching", "fetched", "verify", "rpc",
       "passed", "off", "rejected"}

Waiting == {"arrived", "fetching", "fetched", "verify", "rpc"}

Exec == [pc : Pc, iso : Isolates, env : Envelopes \cup {NoEnvelope}, at : Nat,
         bundle : Bundle, denyWhenOff : BOOLEAN]

Entry == [env : Envelopes, at : Nat]

TypeOK ==
    /\ now \in Nat
    /\ conf \in Configs
    /\ ca \in [epoch : Nat, prev : BOOLEAN]
    /\ issued \subseteq Bundle
    /\ revoked \subseteq [epoch : Int, at : Nat]
    /\ cache \in [Isolates -> SUBSET [bundle : Bundle, fetchedAt : Nat]]
    /\ ex \in [Execs -> Exec]
    /\ \A x \in Execs : ex[x].pc # "idle" => ex[x].env \in Envelopes
    /\ seen \subseteq [cert : Certs, nonce : STRING, ts : Nat]
    /\ counter \in [Peers -> [seq : Nat, hash : Seq(Entry)]]
    /\ alarm \subseteq Nat

Signed(c, t) == [epoch |-> c.epoch, prev |-> c.prev, issuedAt |-> t]

\* notme signs a bundle for its new state or the new time t; older ones
\* get through while the transport may lag that far.
Issue(c, t) == issued' = {b \in issued : b.issuedAt + TransportLag >= t} \cup {Signed(c, t)}

\* A new deployment: nothing cached, no row written, and the TrustStore's
\* constructor has scheduled its alarm.
Init ==
    /\ now = 0
    /\ conf \in Configs
    /\ ca = [epoch |-> 1, prev |-> FALSE]
    /\ issued = {Signed(ca, 0)}
    /\ revoked = {}
    /\ cache = [i \in Isolates |-> {}]
    /\ \E i \in Isolates :
         ex = [x \in Execs |-> [pc |-> "idle", iso |-> i, env |-> NoEnvelope, at |-> 0,
                                bundle |-> NoBundle, denyWhenOff |-> FALSE]]
    /\ seen = {}
    /\ counter = [p \in Peers |-> [seq |-> 0, hash |-> <<>>]]
    /\ alarm = {AlarmInterval}

-----------------------------------------------------------------------------
(***************************************************************************)
(* The clock, and notme (external), which rotates its key and epoch.       *)
(***************************************************************************)

\* Time passes while no request has been under way for MaxFlight.
Tick ==
    /\ \A x \in Execs : ex[x].pc \in Waiting => now < ex[x].at + MaxFlight
    /\ now' = now + 1
    /\ Issue(ca, now + 1)
    /\ UNCHANGED <<conf, ca, revoked, cache, ex, doVars>>

\* A new epoch, under which certificates of the one before stay good until
\* the window closes.
Rotate ==
    /\ ca' = [epoch |-> ca.epoch + 1, prev |-> TRUE]
    /\ Issue(ca', now)
    /\ revoked' = revoked \cup
           {[epoch |-> e, at |-> now] : e \in IF ca.prev THEN {ca.epoch - 1} ELSE {}}
    /\ UNCHANGED <<now, conf, cache, ex, doVars>>

EndRotation ==
    /\ ca.prev
    /\ ca' = [ca EXCEPT !.prev = FALSE]
    /\ Issue(ca', now)
    /\ revoked' = revoked \cup {[epoch |-> ca.epoch - 1, at |-> now]}
    /\ UNCHANGED <<now, conf, cache, ex, doVars>>

-----------------------------------------------------------------------------
(***************************************************************************)
(* The gate and the bundle.                                                *)
(***************************************************************************)

\* As if an empty trust anchor meant "do not enforce".
AnchorlessIsOff == conf.root \/ (conf.dev /\ conf.devMaster)

LeaseEnforced == ~(conf.dev /\ ~conf.devMaster /\ ~conf.root)

DevStatic == conf.dev /\ conf.devMaster

DevBundle == [epoch |-> DevEpoch, prev |-> FALSE, issuedAt |-> now]

Goto(x, pc) == ex' = [ex EXCEPT ![x].pc = pc]

VerifyWith(x, b) == ex' = [ex EXCEPT ![x].pc = "verify", ![x].bundle = b]

Arrive(x, i, e, deny) ==
    /\ ex[x].pc = "idle"
    /\ ex' = [ex EXCEPT ![x] = [pc |-> "arrived", iso |-> i, env |-> e, at |-> now,
                                bundle |-> NoBundle, denyWhenOff |-> deny]]
    /\ UNCHANGED <<now, conf, caVars, cache, doVars>>

GateOff(x) ==
    /\ ex[x].pc = "arrived"
    /\ ~LeaseEnforced
    /\ Goto(x, IF ex[x].denyWhenOff THEN "rejected" ELSE "off")
    /\ UNCHANGED <<now, conf, caVars, cache, doVars>>

UseDevBundle(x) ==
    /\ ex[x].pc = "arrived"
    /\ LeaseEnforced /\ DevStatic
    /\ VerifyWith(x, DevBundle)
    /\ UNCHANGED <<now, conf, caVars, cache, doVars>>

NoAnchor(x) ==
    /\ ex[x].pc = "arrived"
    /\ LeaseEnforced /\ ~DevStatic /\ ~conf.root
    /\ Goto(x, "rejected")
    /\ UNCHANGED <<now, conf, caVars, cache, doVars>>

Fresh(c, at) == at - c.fetchedAt < Refresh

CacheHit(x) ==
    /\ ex[x].pc = "arrived"
    /\ LeaseEnforced /\ ~DevStatic /\ conf.root
    /\ \E c \in cache[ex[x].iso] : Fresh(c, ex[x].at) /\ VerifyWith(x, c.bundle)
    /\ UNCHANGED <<now, conf, caVars, cache, doVars>>

StartFetch(x) ==
    /\ ex[x].pc = "arrived"
    /\ LeaseEnforced /\ ~DevStatic /\ conf.root
    /\ ~ \E c \in cache[ex[x].iso] : Fresh(c, ex[x].at)
    /\ Goto(x, "fetching")
    /\ UNCHANGED <<now, conf, caVars, cache, doVars>>

\* notme answers; the answer is on its way back while others run.
Served(x) ==
    /\ ex[x].pc = "fetching"
    /\ \E b \in issued : ex' = [ex EXCEPT ![x].pc = "fetched", ![x].bundle = b]
    /\ UNCHANGED <<now, conf, caVars, cache, doVars>>

\* As if the entry were stamped when the answer came, not with the clock
\* the request read before it asked.
StampedOnReturn(x) ==
    /\ ex[x].pc = "fetched"
    /\ cache' = [cache EXCEPT ![ex[x].iso] = {[bundle |-> ex[x].bundle, fetchedAt |-> now]}]
    /\ Goto(x, "verify")
    /\ UNCHANGED <<now, conf, caVars, doVars>>

\* The answer replaces the entry, also one that a later fetch has put there.
CacheBundle(x) ==
    /\ ex[x].pc = "fetched"
    /\ cache' = [cache EXCEPT ![ex[x].iso] = {[bundle |-> ex[x].bundle, fetchedAt |-> ex[x].at]}]
    /\ Goto(x, "verify")
    /\ UNCHANGED <<now, conf, caVars, doVars>>

\* notme is down, answers badly, or the bundle's signature does not verify.
FetchFails(x) ==
    /\ ex[x].pc \in {"fetching", "fetched"}
    /\ Goto(x, "rejected")
    /\ UNCHANGED <<now, conf, caVars, cache, doVars>>

-----------------------------------------------------------------------------
(***************************************************************************)
(* verifyAndUpsertLease, up to its call of the TrustStore: the checks read *)
(* only what the request holds.                                            *)
(***************************************************************************)

WithinSkew(at, ts) == at - ts <= MaxSkew /\ ts - at <= MaxSkew

\* verifyCertChain against the active master key, then the previous one.
ChainVerifies(cert, b) == cert.kid = b.epoch \/ (b.prev /\ cert.kid = b.epoch - 1)

IsCertEpochCurrent(epoch, b) == epoch = b.epoch \/ (b.prev /\ epoch = b.epoch - 1)

InValidity(cert, at) == cert.from <= at /\ at <= cert.to

ScopeAllows(granted, wanted) ==
    \/ granted.tool = "*"
    \/ granted = wanted
    \/ granted.repo = "*" /\ granted.tool = wanted.tool

Accepts(e, at, b) ==
    /\ e.wellFormed
    /\ WithinSkew(at, e.ts)
    /\ ChainVerifies(e.cert, b)
    /\ e.cert.claims
    /\ IsCertEpochCurrent(e.cert.epoch, b)
    /\ InValidity(e.cert, at)
    /\ e.sigOk
    /\ ScopeAllows(e.cert.scope, e.wants)

Verify(x) ==
    /\ ex[x].pc = "verify"
    /\ Goto(x, IF Accepts(ex[x].env, ex[x].at, ex[x].bundle) THEN "rpc" ELSE "rejected")
    /\ UNCHANGED <<now, conf, caVars, cache, doVars>>

-----------------------------------------------------------------------------
(***************************************************************************)
(* verifyLeaseAndAdvanceChain, in the TrustStore: one transaction.         *)
(***************************************************************************)

IsSeen(e) == \E r \in seen : r.cert = e.cert /\ r.nonce = e.nonce

\* As if the row held the time at which it may go, and that were computed
\* with the wrong sign.
CutoffRecorded(e, at) ==
    seen' = seen \cup {[cert |-> e.cert, nonce |-> e.nonce, ts |-> at - Retention]}

RecordSeenNonce(e, at) == seen' = seen \cup {[cert |-> e.cert, nonce |-> e.nonce, ts |-> at]}

AdvanceCounter(e, at) ==
    counter' = [counter EXCEPT
        ![e.cert.peer] = [seq |-> @.seq + 1, hash |-> Append(@.hash, [env |-> e, at |-> at])]]

\* As if the ledger and the counter were written by two calls, the second
\* of which may never come.
TwoCallAdvance(x) ==
    /\ ex[x].pc = "rpc"
    /\ ~IsSeen(ex[x].env)
    /\ RecordSeenNonce(ex[x].env, ex[x].at)
    /\ AdvanceCounter(ex[x].env, ex[x].at) \/ UNCHANGED counter
    /\ Goto(x, "passed")
    /\ UNCHANGED <<now, conf, caVars, cache, alarm>>

Advance(x) ==
    /\ ex[x].pc = "rpc"
    /\ ~IsSeen(ex[x].env)
    /\ RecordSeenNonce(ex[x].env, ex[x].at)
    /\ AdvanceCounter(ex[x].env, ex[x].at)
    /\ Goto(x, "passed")
    /\ UNCHANGED <<now, conf, caVars, cache, alarm>>

Replayed(x) ==
    /\ ex[x].pc = "rpc"
    /\ IsSeen(ex[x].env)
    /\ Goto(x, "rejected")
    /\ UNCHANGED <<now, conf, caVars, cache, doVars>>

\* The request is over: the verdict went back, or the caller gave up, the
\* Worker died or a call failed, with or without its effect.
Ends(x) ==
    /\ ex[x].pc # "idle"
    /\ ex' = [ex EXCEPT ![x] = [pc |-> "idle", iso |-> @.iso, env |-> NoEnvelope, at |-> 0,
                                bundle |-> NoBundle, denyWhenOff |-> FALSE]]
    /\ UNCHANGED <<now, conf, caVars, cache, doVars>>

\* An isolate goes, and with it its cache, once the requests it ran ended.
Evict(i) ==
    /\ \A x \in Execs : ex[x].iso = i => ex[x].pc = "idle"
    /\ cache' = [cache EXCEPT ![i] = {}]
    /\ UNCHANGED <<now, conf, caVars, ex, doVars>>

-----------------------------------------------------------------------------
(***************************************************************************)
(* The TrustStore's hourly alarm.                                          *)
(***************************************************************************)

\* As if a row were dropped as soon as its envelope is out of the skew.
SkewPrune(t) == seen' = {r \in seen : r.ts + MaxSkew >= t}

PruneSeenNonces(t) == seen' = {r \in seen : r.ts + Retention >= t}

\* The alarm fires when it is due or later; a failed sweep is caught, and
\* the next alarm is set unless setting it fails.
Alarm ==
    /\ \E t \in alarm : t <= now
    /\ PruneSeenNonces(now) \/ UNCHANGED seen
    /\ alarm' \in {{}, {now + AlarmInterval}}
    /\ UNCHANGED <<now, conf, caVars, cache, ex, counter>>

\* The constructor schedules the alarm if none is scheduled.
Restart ==
    /\ alarm = {}
    /\ alarm' = {now + AlarmInterval}
    /\ UNCHANGED <<now, conf, caVars, cache, ex, seen, counter>>

-----------------------------------------------------------------------------
Gate(x) ==
    \/ \E i \in Isolates, e \in Envelopes, deny \in DenyWhenOff : Arrive(x, i, e, deny)
    \/ GateOff(x) \/ UseDevBundle(x) \/ NoAnchor(x)
    \/ CacheHit(x) \/ StartFetch(x) \/ Served(x) \/ CacheBundle(x) \/ FetchFails(x)
    \/ Verify(x) \/ Advance(x) \/ Replayed(x) \/ Ends(x)

Next ==
    \/ Tick \/ Rotate \/ EndRotation
    \/ \E x \in Execs : Gate(x)
    \/ \E i \in Isolates : Evict(i)
    \/ Alarm \/ Restart

Spec == Init /\ [][Next]_vars

-----------------------------------------------------------------------------
(***************************************************************************)
(* Properties                                                              *)
(***************************************************************************)

Entries(p) == {counter[p].hash[n] : n \in DOMAIN counter[p].hash}

\* No envelope is accepted twice, however often it is delivered, to however
\* many isolates, and whenever the sweep forgets the nonce it carried: the
\* row outlives every delivery that the skew check would still let through.
NoReplay ==
    \A p \in Peers : \A m, n \in DOMAIN counter[p].hash :
        counter[p].hash[m].env = counter[p].hash[n].env => m = n

\* The ledger and the counters tell one story: a nonce is consumed exactly
\* when the chain of its peer moved, the chain counts its own links, and
\* only the sweep of old rows makes the two differ.
LedgerMatchesChain ==
    /\ \A r \in seen : \E h \in Entries(r.cert.peer) :
         h.env.cert = r.cert /\ h.env.nonce = r.nonce /\ h.at = r.ts
    /\ \A p \in Peers : \A h \in Entries(p) :
         h.at + Retention >= now =>
             [cert |-> h.env.cert, nonce |-> h.env.nonce, ts |-> h.at] \in seen
    /\ \A p \in Peers : counter[p].seq = Len(counter[p].hash)

\* Revocation takes effect within a bounded time: a request accepted on the
\* word of notme arrived less than one refresh interval (and the lag of the
\* transport) after notme stopped honouring its certificate's epoch, even
\* where a slow fetch has put an older bundle back into the cache.
RevocationTakesEffect ==
    ~DevStatic =>
        \A p \in Peers : \A h \in Entries(p) : \A r \in revoked :
            r.epoch = h.env.cert.epoch => h.at < r.at + Refresh + TransportLag

\* Without a trust anchor nobody gets in: a request passes unverified only
\* under CLOISTER_MODE=dev with no authority configured, and never on a
\* route that denies when the gate is off.
NoAnchorNoEntry ==
    /\ \A x \in Execs : ex[x].pc = "off" =>
         conf = [dev |-> TRUE, devMaster |-> FALSE, root |-> FALSE] /\ ~ex[x].denyWhenOff
    /\ (~conf.root /\ ~DevStatic) => \A p \in Peers : counter[p].seq = 0

\* The gate lets in on an authority only: none without an anchor, and none for
\* longer than a refresh after the authority took its word back.
AuthorityHolds == NoAnchorNoEntry /\ RevocationTakesEffect
=============================================================================
