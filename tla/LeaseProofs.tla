---------------------------- MODULE LeaseProofs ----------------------------
(***************************************************************************)
(* No envelope is accepted twice, the replay ledger agrees with the        *)
(* counters, nobody gets in without a trust anchor and revocation takes    *)
(* effect in bounded time, for any number of requests, isolates,           *)
(* certificates and envelopes, and any constants that satisfy              *)
(* LeaseAssumption.                                                        *)
(***************************************************************************)
EXTENDS Lease, TLAPS

USE DEF Waiting, Pc

-----------------------------------------------------------------------------
(***************************************************************************)
(* Types                                                                   *)
(***************************************************************************)

\* The facts about the constants, one by one.
LEMMA Constants ==
  /\ MaxSkew \in Nat /\ Refresh \in Nat /\ Retention \in Nat /\ AlarmInterval \in Nat
  /\ MaxFlight \in Nat /\ TransportLag \in Nat /\ DevEpoch \in Nat /\ Refresh > 0
  /\ Retention >= 2 * MaxSkew + MaxFlight
<1> DEFINE Times == {MaxSkew, Refresh, Retention, AlarmInterval, MaxFlight, TransportLag}
<1>1. Times \subseteq Nat /\ DevEpoch \in Nat /\ Refresh > 0
      /\ Retention >= 2 * MaxSkew + MaxFlight
  BY LeaseAssumption
<1> QED
  BY <1>1

\* What an envelope is made of.
LEMMA EnvelopeParts ==
  \A e \in Envelopes : /\ e.cert \in Certs /\ e.nonce \in STRING /\ e.ts \in Nat
                       /\ e.cert.peer \in Peers /\ e.cert.epoch \in Nat
  BY LeaseAssumption

\* A bundle that notme signs at t is a bundle.
LEMMA SignedType == \A c \in [epoch : Nat, prev : BOOLEAN], t \in Nat : Signed(c, t) \in Bundle
  BY DEF Signed, Bundle

\* Every initial state is well typed.
LEMMA InitType == Init => TypeOK
<1> SUFFICES ASSUME Init PROVE TypeOK
  OBVIOUS
<1>1. NoBundle \in Bundle
  BY DEF NoBundle, Bundle
<1>2. ex \in [Execs -> Exec] /\ \A x \in Execs : ex[x].pc = "idle"
  BY <1>1 DEF Init, Exec
<1>3. counter \in [Peers -> [seq : Nat, hash : Seq(Entry)]]
  BY DEF Init
<1>4. ca \in [epoch : Nat, prev : BOOLEAN] /\ issued \subseteq Bundle
  BY SignedType DEF Init
<1> QED
  BY <1>2, <1>3, <1>4, Constants DEF Init, TypeOK

\* A step of a request that only moves it to another point keeps its type.
LEMMA GotoType ==
  ASSUME TypeOK, NEW x \in Execs, ex[x].pc # "idle", NEW pc \in Pc, Goto(x, pc)
  PROVE  ex' \in [Execs -> Exec] /\ \A y \in Execs : ex'[y].pc # "idle" => ex'[y].env \in Envelopes
<1>1. ex[x] \in Exec /\ ex[x].env \in Envelopes
  BY DEF TypeOK
<1>2. [ex[x] EXCEPT !.pc = pc] \in Exec
  BY <1>1 DEF Exec
<1> QED
  BY <1>1, <1>2 DEF TypeOK, Goto, Exec

\* So does a step that gives it a bundle.
LEMMA BundleType ==
  ASSUME TypeOK, NEW x \in Execs, ex[x].pc # "idle", NEW pc \in Pc, NEW b \in Bundle,
         ex' = [ex EXCEPT ![x].pc = pc, ![x].bundle = b]
  PROVE  ex' \in [Execs -> Exec] /\ \A y \in Execs : ex'[y].pc # "idle" => ex'[y].env \in Envelopes
<1>1. ex[x] \in Exec /\ ex[x].env \in Envelopes
  BY DEF TypeOK
<1>2. [ex[x] EXCEPT !.pc = pc, !.bundle = b] \in Exec
  BY <1>1 DEF Exec
<1> QED
  BY <1>1, <1>2 DEF TypeOK, Exec

\* Every step keeps the types.
LEMMA TypeStep == TypeOK /\ [Next]_vars => TypeOK'
<1> SUFFICES ASSUME TypeOK, [Next]_vars PROVE TypeOK'
  OBVIOUS
<1>1. CASE Tick
  <2>1. issued' \subseteq Bundle
    BY <1>1, SignedType DEF Tick, TypeOK, Issue
  <2> QED BY <1>1, <2>1 DEF Tick, TypeOK, doVars
<1>2. CASE Rotate
  <2>1. ca' \in [epoch : Nat, prev : BOOLEAN]
    BY <1>2 DEF Rotate, TypeOK
  <2>2. issued' \subseteq Bundle
    BY <1>2, <2>1, SignedType DEF Rotate, TypeOK, Issue
  <2>3. revoked' \subseteq [epoch : Int, at : Nat]
    BY <1>2 DEF Rotate, TypeOK
  <2> QED BY <1>2, <2>1, <2>2, <2>3 DEF Rotate, TypeOK, doVars
<1>3. CASE EndRotation
  <2>1. ca' \in [epoch : Nat, prev : BOOLEAN]
    BY <1>3 DEF EndRotation, TypeOK
  <2>2. issued' \subseteq Bundle
    BY <1>3, <2>1, SignedType DEF EndRotation, TypeOK, Issue
  <2>3. revoked' \subseteq [epoch : Int, at : Nat]
    BY <1>3 DEF EndRotation, TypeOK
  <2> QED BY <1>3, <2>1, <2>2, <2>3 DEF EndRotation, TypeOK, doVars
<1>4. ASSUME NEW x \in Execs, Gate(x) PROVE TypeOK'
  <2>1. ASSUME NEW i \in Isolates, NEW e \in Envelopes, NEW deny \in DenyWhenOff,
               Arrive(x, i, e, deny)
        PROVE  TypeOK'
    <3>1. deny \in BOOLEAN
      BY LeaseAssumption
    <3>2. [pc |-> "arrived", iso |-> i, env |-> e, at |-> now,
           bundle |-> NoBundle, denyWhenOff |-> deny] \in Exec
      BY <3>1 DEF Exec, TypeOK, NoBundle, Bundle
    <3> QED BY <2>1, <3>2 DEF Arrive, TypeOK, caVars, doVars
  <2>2. CASE GateOff(x) \/ NoAnchor(x) \/ StartFetch(x) \/ FetchFails(x) \/ Verify(x) \/ Replayed(x)
    <3>1. ex[x].pc # "idle" /\ \E pc \in Pc : Goto(x, pc)
      BY <2>2 DEF GateOff, NoAnchor, StartFetch, FetchFails, Verify, Replayed
    <3>2. UNCHANGED <<now, conf, ca, issued, revoked, cache, seen, counter, alarm>>
      BY <2>2 DEF GateOff, NoAnchor, StartFetch, FetchFails, Verify, Replayed, caVars, doVars
    <3>3. ex' \in [Execs -> Exec] /\ \A y \in Execs : ex'[y].pc # "idle" => ex'[y].env \in Envelopes
      BY <3>1, GotoType
    <3> QED BY <3>2, <3>3 DEF TypeOK
  <2>3. CASE UseDevBundle(x) \/ CacheHit(x) \/ Served(x)
    <3>1. ex[x].pc # "idle" /\ \E pc \in Pc, b \in Bundle :
             ex' = [ex EXCEPT ![x].pc = pc, ![x].bundle = b]
      <4>1. CASE UseDevBundle(x)
        <5>1. DevBundle \in Bundle
          BY Constants DEF DevBundle, Bundle, TypeOK
        <5> QED BY <4>1, <5>1 DEF UseDevBundle, VerifyWith
      <4>2. CASE CacheHit(x)
        <5>1. PICK c \in cache[ex[x].iso] : VerifyWith(x, c.bundle)
          BY <4>2 DEF CacheHit
        <5>2. ex[x].iso \in Isolates
          BY DEF TypeOK, Exec
        <5>3. c.bundle \in Bundle
          BY <5>1, <5>2 DEF TypeOK
        <5> QED BY <4>2, <5>1, <5>3 DEF CacheHit, VerifyWith
      <4>3. CASE Served(x)
        BY <4>3 DEF Served, TypeOK
      <4> QED BY <2>3, <4>1, <4>2, <4>3
    <3>2. UNCHANGED <<now, conf, ca, issued, revoked, cache, seen, counter, alarm>>
      BY <2>3 DEF UseDevBundle, CacheHit, Served, caVars, doVars
    <3>3. ex' \in [Execs -> Exec] /\ \A y \in Execs : ex'[y].pc # "idle" => ex'[y].env \in Envelopes
      BY <3>1, BundleType
    <3> QED BY <3>2, <3>3 DEF TypeOK
  <2>4. CASE CacheBundle(x)
    <3>1. ex' \in [Execs -> Exec] /\ \A y \in Execs : ex'[y].pc # "idle" => ex'[y].env \in Envelopes
      BY <2>4, GotoType DEF CacheBundle
    <3>2. cache' \in [Isolates -> SUBSET [bundle : Bundle, fetchedAt : Nat]]
      BY <2>4 DEF CacheBundle, TypeOK, Exec
    <3> QED BY <2>4, <3>1, <3>2 DEF CacheBundle, TypeOK, caVars, doVars
  <2>5. CASE Advance(x)
    <3>1. ex' \in [Execs -> Exec] /\ \A y \in Execs : ex'[y].pc # "idle" => ex'[y].env \in Envelopes
      BY <2>5, GotoType DEF Advance
    <3>2. ex[x].env \in Envelopes /\ ex[x].at \in Nat
      BY <2>5 DEF Advance, TypeOK, Exec
    <3>3. ex[x].env.cert \in Certs /\ ex[x].env.nonce \in STRING /\ ex[x].env.cert.peer \in Peers
      BY <3>2, EnvelopeParts
    <3>4. seen' \subseteq [cert : Certs, nonce : STRING, ts : Nat]
      BY <2>5, <3>2, <3>3 DEF Advance, RecordSeenNonce, TypeOK
    <3>5. [env |-> ex[x].env, at |-> ex[x].at] \in Entry
      BY <3>2 DEF Entry
    <3>6. counter' \in [Peers -> [seq : Nat, hash : Seq(Entry)]]
      BY <2>5, <3>3, <3>5 DEF Advance, AdvanceCounter, TypeOK
    <3> QED BY <2>5, <3>1, <3>4, <3>6 DEF Advance, TypeOK, caVars
  <2>6. CASE Ends(x)
    <3>1. ex[x] \in Exec
      BY DEF TypeOK
    <3>2. [pc |-> "idle", iso |-> ex[x].iso, env |-> NoEnvelope, at |-> 0,
           bundle |-> NoBundle, denyWhenOff |-> FALSE] \in Exec
      BY <3>1 DEF Exec, NoBundle, Bundle
    <3> QED BY <2>6, <3>2 DEF Ends, TypeOK, caVars, doVars
  <2> QED BY <1>4, <2>1, <2>2, <2>3, <2>4, <2>5, <2>6 DEF Gate
<1>5. ASSUME NEW i \in Isolates, Evict(i) PROVE TypeOK'
  BY <1>5 DEF Evict, TypeOK, caVars, doVars
<1>6. CASE Alarm
  BY <1>6, Constants DEF Alarm, PruneSeenNonces, TypeOK, caVars
<1>7. CASE Restart
  BY <1>7, Constants DEF Restart, TypeOK, caVars
<1>8. CASE UNCHANGED vars
  BY <1>8 DEF vars, caVars, doVars, TypeOK
<1> QED BY <1>1, <1>2, <1>3, <1>4, <1>5, <1>6, <1>7, <1>8 DEF Next

\* The lease gate's state always has its type.
THEOREM LeaseTypes == Spec => []TypeOK
  BY InitType, TypeStep, PTL DEF Spec

-----------------------------------------------------------------------------
(***************************************************************************)
(* Replay                                                                  *)
(***************************************************************************)

\* A request under way arrived at most MaxFlight ago.
InFlight == \A x \in Execs : ex[x].pc \in Waiting => ex[x].at <= now /\ now <= ex[x].at + MaxFlight

\* A request that calls the TrustStore is within the skew, and its
\* certificate is of an epoch its bundle honours.
RpcIsVerified == \A x \in Execs : ex[x].pc = "rpc" =>
    /\ WithinSkew(ex[x].at, ex[x].env.ts)
    /\ IsCertEpochCurrent(ex[x].env.cert.epoch, ex[x].bundle)

\* What the chain records is in the past, on its peer's chain and was
\* within the skew.
EntriesInTime == \A p \in Peers : \A h \in Entries(p) :
    h.env.cert.peer = p /\ h.at <= now /\ WithinSkew(h.at, h.env.ts)

ExecInv == InFlight /\ RpcIsVerified

LedgerInv == EntriesInTime /\ NoReplay /\ LedgerMatchesChain

\* A request under way keeps its clock, and reaches the TrustStore only
\* through the checks.
LEMMA ExecStep == TypeOK /\ ExecInv /\ [Next]_vars => ExecInv'
<1> SUFFICES ASSUME TypeOK, ExecInv, [Next]_vars PROVE ExecInv'
  OBVIOUS
<1> USE DEF ExecInv
<1>1. CASE Tick
  BY <1>1, Constants DEF Tick, InFlight, RpcIsVerified, TypeOK, Exec
<1>2. CASE Rotate \/ EndRotation \/ Alarm \/ Restart \/ (\E i \in Isolates : Evict(i)) \/ UNCHANGED vars
  <2>1. UNCHANGED <<now, ex>>
    BY <1>2 DEF Rotate, EndRotation, Alarm, Restart, Evict, vars
  <2> QED BY <2>1 DEF InFlight, RpcIsVerified
<1>3. ASSUME NEW x \in Execs, Gate(x) PROVE ExecInv'
  <2>1. now' = now /\ now \in Nat /\ ex \in [Execs -> Exec]
    BY <1>3 DEF Gate, Arrive, GateOff, UseDevBundle, NoAnchor, CacheHit, StartFetch, Served,
                CacheBundle, FetchFails, Verify, Advance, Replayed, Ends, TypeOK
  <2>2. \A y \in Execs \ {x} : ex'[y] = ex[y]
    BY <1>3, <2>1 DEF Gate, Arrive, GateOff, UseDevBundle, NoAnchor, CacheHit, StartFetch, Served,
                CacheBundle, FetchFails, Verify, Advance, Replayed, Ends, Goto, VerifyWith
  <2>3. \/ ex'[x].pc \notin Waiting
        \/ ex'[x].at = now
        \/ ex[x].pc \in Waiting /\ ex'[x].at = ex[x].at
    BY <1>3, <2>1 DEF Gate, Arrive, GateOff, UseDevBundle, NoAnchor, CacheHit, StartFetch, Served,
                CacheBundle, FetchFails, Verify, Advance, Replayed, Ends, Goto, VerifyWith, Exec
  <2>4. ex'[x].pc = "rpc" =>
          /\ ex'[x].at = ex[x].at /\ ex'[x].env = ex[x].env /\ ex'[x].bundle = ex[x].bundle
          /\ Accepts(ex[x].env, ex[x].at, ex[x].bundle)
    BY <1>3, <2>1 DEF Gate, Arrive, GateOff, UseDevBundle, NoAnchor, CacheHit, StartFetch, Served,
                CacheBundle, FetchFails, Verify, Advance, Replayed, Ends, Goto, VerifyWith, Exec
  <2>5. InFlight'
    BY <2>1, <2>2, <2>3, Constants DEF InFlight
  <2>6. RpcIsVerified'
    BY <2>2, <2>4 DEF RpcIsVerified, Accepts
  <2> QED BY <2>5, <2>6
<1> QED BY <1>1, <1>2, <1>3 DEF Next

\* While the chains stay, the ledger only loses rows older than Retention,
\* and time does not run backwards, the three parts hold on.
LEMMA LedgerStays ==
  ASSUME TypeOK, TypeOK', LedgerInv, UNCHANGED counter, now' >= now, seen' \subseteq seen,
         \A r \in seen \ seen' : r.ts + Retention < now'
  PROVE  LedgerInv'
<1>1. \A p \in Peers : Entries(p)' = Entries(p) /\ Entries(p) \subseteq Entry
  BY DEF Entries, TypeOK
<1>2. EntriesInTime'
  BY <1>1 DEF LedgerInv, EntriesInTime, TypeOK, Entry
<1>3. NoReplay'
  BY DEF LedgerInv, NoReplay
<1>4. ASSUME NEW r \in seen' PROVE \E h \in Entries(r.cert.peer)' :
         h.env.cert = r.cert /\ h.env.nonce = r.nonce /\ h.at = r.ts
  <2>1. r.cert.peer \in Peers
    BY LeaseAssumption DEF TypeOK
  <2>2. Entries(r.cert.peer)' = Entries(r.cert.peer)
    BY <2>1, <1>1
  <2>3. r \in seen
    OBVIOUS
  <2> QED BY <2>2, <2>3 DEF LedgerInv, LedgerMatchesChain
<1>5. ASSUME NEW p \in Peers, NEW h \in Entries(p), h.at + Retention >= now'
      PROVE  [cert |-> h.env.cert, nonce |-> h.env.nonce, ts |-> h.at] \in seen'
  <2>1. h.at \in Nat
    BY <1>1 DEF Entry
  <2>2. h.at + Retention >= now
    BY <1>5, <2>1, Constants DEF TypeOK
  <2>3. [cert |-> h.env.cert, nonce |-> h.env.nonce, ts |-> h.at] \in seen
    BY <2>2 DEF LedgerInv, LedgerMatchesChain
  <2>4. ~(h.at + Retention < now')
    BY <1>5, <2>1, Constants DEF TypeOK
  <2> QED BY <2>3, <2>4
<1>6. LedgerMatchesChain'
  BY <1>1, <1>4, <1>5 DEF LedgerInv, LedgerMatchesChain
<1> QED BY <1>2, <1>3, <1>6 DEF LedgerInv

\* What Append does to the elements of a sequence.
LEMMA AppendFacts ==
  ASSUME NEW S, NEW s \in Seq(S), NEW e \in S
  PROVE  /\ Len(Append(s, e)) = Len(s) + 1
         /\ DOMAIN Append(s, e) = DOMAIN s \cup {Len(s) + 1}
         /\ \A n \in DOMAIN s : Append(s, e)[n] = s[n]
         /\ Append(s, e)[Len(s) + 1] = e
         /\ Len(s) + 1 \notin DOMAIN s
<1>1. Len(s) \in Nat /\ DOMAIN s = 1 .. Len(s)
  OBVIOUS
<1>2. Len(Append(s, e)) = Len(s) + 1 /\ DOMAIN Append(s, e) = 1 .. Len(s) + 1
  OBVIOUS
<1>3. 1 .. Len(s) + 1 = (1 .. Len(s)) \cup {Len(s) + 1}
  BY <1>1
<1>4. \A n \in 1 .. Len(s) : Append(s, e)[n] = s[n]
  OBVIOUS
<1>5. Append(s, e)[Len(s) + 1] = e
  OBVIOUS
<1> QED BY <1>1, <1>2, <1>3, <1>4, <1>5

\* An accepted request adds one entry to one chain and its row to the
\* ledger.  If an earlier entry were for the same envelope, its row would
\* have been swept more than Retention ago, while the two arrivals are at
\* most 2 * MaxSkew apart and this one at most MaxFlight old.
LEMMA AdvanceKeepsLedger ==
  ASSUME TypeOK, ExecInv, LedgerInv, NEW x \in Execs, Advance(x)
  PROVE  LedgerInv'
<1>1. PICK e \in Envelopes, t \in Nat : e = ex[x].env /\ t = ex[x].at
  BY DEF Advance, TypeOK, Exec
<1>2. PICK row \in [cert : Certs, nonce : STRING, ts : Nat] :
         row = [cert |-> e.cert, nonce |-> e.nonce, ts |-> t]
  BY EnvelopeParts
<1>3. PICK new \in Entry : new = [env |-> e, at |-> t]
  BY DEF Entry
<1>4. PICK q \in Peers : q = e.cert.peer
  BY EnvelopeParts
<1>a. PICK s \in Seq(Entry) : s = counter[q].hash
  BY <1>4 DEF TypeOK
<1>5. seen' = seen \cup {row} /\ now' = now
  BY <1>1, <1>2 DEF Advance, RecordSeenNonce
<1>6. counter[q].seq \in Nat /\ counter \in [Peers -> [seq : Nat, hash : Seq(Entry)]]
  BY <1>4 DEF TypeOK
<1>7. counter'[q].hash = Append(s, new) /\ counter'[q].seq = counter[q].seq + 1
  BY <1>1, <1>3, <1>4, <1>6, <1>a DEF Advance, AdvanceCounter
<1>8. \A p \in Peers \ {q} : counter'[p] = counter[p]
  BY <1>1, <1>4, <1>6 DEF Advance, AdvanceCounter
<1>9. /\ Len(Append(s, new)) = Len(s) + 1
      /\ DOMAIN Append(s, new) = DOMAIN s \cup {Len(s) + 1}
      /\ \A n \in DOMAIN s : Append(s, new)[n] = s[n]
      /\ Append(s, new)[Len(s) + 1] = new
      /\ Len(s) + 1 \notin DOMAIN s
  BY AppendFacts
<1>10. /\ \A p \in Peers \ {q} : Entries(p)' = Entries(p)
       /\ \A p \in Peers : Entries(p) \subseteq Entry
  BY <1>6, <1>8 DEF Entries
<1>11. Entries(q)' = Entries(q) \cup {new}
  <2>1. Entries(q)' = {Append(s, new)[n] : n \in DOMAIN Append(s, new)}
    BY <1>7, <1>4 DEF Entries
  <2>2. Entries(q) = {s[n] : n \in DOMAIN s}
    BY <1>a DEF Entries
  <2> QED BY <2>1, <2>2, <1>9
<1>12. t <= now /\ now <= t + MaxFlight /\ WithinSkew(t, e.ts)
  BY <1>1 DEF Advance, ExecInv, InFlight, RpcIsVerified
<1>13. EntriesInTime'
  <2>1. ASSUME NEW p \in Peers, NEW h \in Entries(p)'
        PROVE  h.env.cert.peer = p /\ h.at <= now' /\ WithinSkew(h.at, h.env.ts)
    <3>1. CASE h \in Entries(p)
      BY <3>1, <1>5 DEF LedgerInv, EntriesInTime
    <3>2. CASE p = q /\ h = new
      BY <3>2, <1>3, <1>4, <1>5, <1>12
    <3> QED BY <2>1, <3>1, <3>2, <1>10, <1>11
  <2> QED BY <2>1 DEF EntriesInTime
<1>14. \A h \in Entries(q) : h.env # e
  <2> SUFFICES ASSUME NEW h \in Entries(q), h.env = e PROVE FALSE
    OBVIOUS
  <2>1. h.at \in Nat /\ e.ts \in Nat /\ now \in Nat
    BY <1>10, <1>4, EnvelopeParts DEF Entry, TypeOK
  <2>2. [cert |-> h.env.cert, nonce |-> h.env.nonce, ts |-> h.at] \notin seen
    BY <1>1 DEF Advance, IsSeen
  <2>3. ~(h.at + Retention >= now)
    BY <2>2, <1>4 DEF LedgerInv, LedgerMatchesChain
  <2>4. WithinSkew(h.at, e.ts)
    BY <1>4 DEF LedgerInv, EntriesInTime
  <2>5. h.at - e.ts <= MaxSkew /\ e.ts - h.at <= MaxSkew /\ t - e.ts <= MaxSkew /\ e.ts - t <= MaxSkew
    BY <2>4, <1>12 DEF WithinSkew
  <2>6. \A a, u, n, S, R, F \in Nat :
           /\ R >= 2 * S + F /\ n <= t + F /\ u - a <= S /\ t - u <= S
           => a + R >= n
    OBVIOUS
  <2> QED BY <2>1, <2>3, <2>5, <2>6, <1>12, Constants
<1>15. NoReplay'
  <2>1. \A p \in Peers \ {q} : \A m, n \in DOMAIN counter'[p].hash :
           counter'[p].hash[m].env = counter'[p].hash[n].env => m = n
    BY <1>8 DEF LedgerInv, NoReplay
  <2>2. \A n \in DOMAIN s : s[n].env # e
    BY <1>14, <1>4, <1>a DEF Entries
  <2>3. \A m, n \in DOMAIN s : s[m].env = s[n].env => m = n
    BY <1>4, <1>a DEF LedgerInv, NoReplay
  <2>4. new.env = e
    BY <1>3
  <2>5. \A m, n \in DOMAIN Append(s, new) :
           Append(s, new)[m].env = Append(s, new)[n].env => m = n
    BY <2>2, <2>3, <2>4, <1>9
  <2> QED BY <2>1, <2>5, <1>7 DEF NoReplay
<1>16. LedgerMatchesChain'
  <2>1. ASSUME NEW r \in seen' PROVE \E h \in Entries(r.cert.peer)' :
           h.env.cert = r.cert /\ h.env.nonce = r.nonce /\ h.at = r.ts
    <3>1. CASE r = row
      <4>1. r.cert.peer = q
        BY <3>1, <1>2, <1>4
      <4>2. new \in Entries(r.cert.peer)'
        BY <4>1, <1>11
      <4> QED BY <3>1, <4>2, <1>2, <1>3
    <3>2. CASE r \in seen
      <4>1. r.cert.peer \in Peers
        BY <3>2, LeaseAssumption DEF TypeOK
      <4>2. PICK h \in Entries(r.cert.peer) :
               h.env.cert = r.cert /\ h.env.nonce = r.nonce /\ h.at = r.ts
        BY <3>2 DEF LedgerInv, LedgerMatchesChain
      <4>3. h \in Entries(r.cert.peer)'
        BY <4>1, <4>2, <1>10, <1>11
      <4> QED BY <4>2, <4>3
    <3> QED BY <3>1, <3>2, <1>5
  <2>2. ASSUME NEW p \in Peers, NEW h \in Entries(p)', h.at + Retention >= now'
        PROVE  [cert |-> h.env.cert, nonce |-> h.env.nonce, ts |-> h.at] \in seen'
    <3>1. CASE h \in Entries(p)
      BY <3>1, <2>2, <1>5 DEF LedgerInv, LedgerMatchesChain
    <3>2. CASE p = q /\ h = new
      BY <3>2, <1>2, <1>3, <1>5
    <3> QED BY <3>1, <3>2, <1>10, <1>11
  <2>3. \A p \in Peers : counter'[p].seq = Len(counter'[p].hash)
    BY <1>4, <1>6, <1>7, <1>8, <1>9, <1>a DEF LedgerInv, LedgerMatchesChain
  <2> QED BY <2>1, <2>2, <2>3 DEF LedgerMatchesChain
<1> QED BY <1>13, <1>15, <1>16 DEF LedgerInv

\* Every step keeps the ledger right.
LEMMA LedgerStep == TypeOK /\ TypeOK' /\ ExecInv /\ LedgerInv /\ [Next]_vars => LedgerInv'
<1> SUFFICES ASSUME TypeOK, TypeOK', ExecInv, LedgerInv, [Next]_vars PROVE LedgerInv'
  OBVIOUS
<1>1. CASE \E x \in Execs : Advance(x)
  BY <1>1, AdvanceKeepsLedger
<1>2. CASE Alarm
  <2>1. UNCHANGED <<now, counter>>
    BY <1>2 DEF Alarm
  <2>2. seen' \subseteq seen /\ \A r \in seen \ seen' : ~(r.ts + Retention >= now)
    BY <1>2 DEF Alarm, PruneSeenNonces
  <2>3. \A r \in seen : r.ts \in Nat
    BY DEF TypeOK
  <2>4. \A r \in seen \ seen' : r.ts + Retention < now'
    BY <2>1, <2>2, <2>3, Constants DEF TypeOK
  <2>5. now' >= now
    BY <2>1 DEF TypeOK
  <2> QED BY <2>1, <2>2, <2>4, <2>5, LedgerStays
<1>3. CASE ~Alarm /\ ~ \E x \in Execs : Advance(x)
  <2>1. UNCHANGED <<seen, counter>> /\ (now' = now \/ now' = now + 1)
    BY <1>3 DEF Next, Tick, Rotate, EndRotation, Evict, Restart, Gate, Arrive, GateOff, UseDevBundle,
                NoAnchor, CacheHit, StartFetch, Served, CacheBundle, FetchFails, Verify, Replayed,
                Ends, vars, doVars
  <2>2. now' >= now
    BY <2>1 DEF TypeOK
  <2> QED BY <2>1, <2>2, LedgerStays
<1> QED BY <1>1, <1>2, <1>3

\* At the start nothing is under way and nothing is written.
LEMMA InitLedger == Init => ExecInv /\ LedgerInv
<1> SUFFICES ASSUME Init PROVE ExecInv /\ LedgerInv
  OBVIOUS
<1>1. \A x \in Execs : ex[x].pc = "idle"
  BY DEF Init
<1>2. \A p \in Peers : counter[p].hash = <<>> /\ counter[p].seq = 0
  BY DEF Init
<1>3. \A p \in Peers : Entries(p) = {}
  <2>1. DOMAIN <<>> = {}
    OBVIOUS
  <2> QED BY <1>2, <2>1 DEF Entries
<1>4. ExecInv
  BY <1>1 DEF ExecInv, InFlight, RpcIsVerified
<1>5. EntriesInTime
  BY <1>3 DEF EntriesInTime
<1>6. NoReplay
  BY <1>2 DEF NoReplay
<1>7. LedgerMatchesChain
  BY <1>2, <1>3 DEF LedgerMatchesChain, Init
<1> QED BY <1>4, <1>5, <1>6, <1>7 DEF LedgerInv

\* The inductive invariant behind the two theorems.
LEMMA LeaseInvariant == Spec => [](TypeOK /\ ExecInv /\ LedgerInv)
<1>1. Init => TypeOK /\ ExecInv /\ LedgerInv
  BY InitType, InitLedger
<1>2. TypeOK /\ ExecInv /\ LedgerInv /\ [Next]_vars => (TypeOK /\ ExecInv /\ LedgerInv)'
  BY TypeStep, ExecStep, LedgerStep
<1> QED BY <1>1, <1>2, PTL DEF Spec

\* verifyLeaseAndAdvanceChain: no envelope is accepted twice.
THEOREM LeaseNoReplay == Spec => []NoReplay
<1>1. LedgerInv => NoReplay
  BY DEF LedgerInv
<1> QED BY LeaseInvariant, <1>1, PTL

\* seen_nonces and peer_lease_counters tell one story.
THEOREM LeaseLedgerMatchesChain == Spec => []LedgerMatchesChain
<1>1. LedgerInv => LedgerMatchesChain
  BY DEF LedgerInv
<1> QED BY LeaseInvariant, <1>1, PTL

-----------------------------------------------------------------------------
(***************************************************************************)
(* Revocation                                                              *)
(***************************************************************************)

\* notme honours none of the epochs it has revoked.
CaInv == \A r \in revoked :
    r.at <= now /\ r.epoch < ca.epoch /\ (ca.prev => r.epoch < ca.epoch - 1)

\* The epochs a bundle honours were good when it was signed.
Honest(b) ==
    /\ b.issuedAt <= now
    /\ \A r \in revoked : IsCertEpochCurrent(r.epoch, b) => b.issuedAt <= r.at

\* A bundle is honest wherever it is, and was signed at most TransportLag
\* before the clock reading it is filed under; a request verifies with one
\* that is less than Refresh older than that.
IssuedInv == \A b \in issued : Honest(b) /\ now <= b.issuedAt + TransportLag

CacheInv == \A i \in Isolates : \A c \in cache[i] :
    Honest(c.bundle) /\ c.fetchedAt <= c.bundle.issuedAt + TransportLag

HeldInv == \A x \in Execs :
    /\ ex[x].pc = "fetched" =>
         Honest(ex[x].bundle) /\ ex[x].at <= ex[x].bundle.issuedAt + TransportLag
    /\ ex[x].pc \in {"verify", "rpc"} /\ ~DevStatic =>
         Honest(ex[x].bundle) /\ ex[x].at < ex[x].bundle.issuedAt + TransportLag + Refresh

RevInv == CaInv /\ IssuedInv /\ CacheInv /\ HeldInv /\ RevocationTakesEffect

\* An honest bundle stays honest: time only grows, and what is revoked
\* from now on was good until now.
LEMMA HonestStays ==
  ASSUME TypeOK, now' \in Nat, now' >= now, \A r \in revoked' : r \in revoked \/ r.at = now,
         NEW b \in Bundle, Honest(b)
  PROVE  Honest(b)'
  BY DEF Honest, IsCertEpochCurrent, TypeOK, Bundle

\* A step of notme or of the clock.
LEMMA RevCaStep ==
  ASSUME TypeOK, TypeOK', ExecInv, LedgerInv, RevInv, Tick \/ Rotate \/ EndRotation
  PROVE  RevInv'
<1>1. /\ now' \in Nat /\ now' >= now /\ UNCHANGED <<conf, cache, ex, counter>>
      /\ \A r \in revoked' : r \in revoked \/ r.at = now
  BY DEF Tick, Rotate, EndRotation, TypeOK, doVars
<1>2. CaInv'
  BY DEF RevInv, CaInv, Tick, Rotate, EndRotation, TypeOK
<1>3. ASSUME NEW b \in Bundle, Honest(b) PROVE Honest(b)'
  BY <1>1, <1>3, HonestStays
<1>4. Honest(Signed(ca, now))'
  BY <1>2 DEF Honest, Signed, CaInv, IsCertEpochCurrent, TypeOK
<1>5. IssuedInv'
  <2>1. ASSUME NEW b \in issued' PROVE Honest(b)' /\ now' <= b.issuedAt + TransportLag
    <3>1. issued' = {c \in issued : c.issuedAt + TransportLag >= now'} \cup {Signed(ca', now')}
      BY DEF Tick, Rotate, EndRotation, Issue
    <3>2. CASE b = Signed(ca', now')
      BY <3>2, <1>1, <1>4, Constants DEF Signed
    <3>3. CASE b \in issued /\ b.issuedAt + TransportLag >= now'
      <4>1. b \in Bundle /\ Honest(b)
        BY <3>3 DEF TypeOK, RevInv, IssuedInv
      <4>2. now' <= b.issuedAt + TransportLag
        BY <3>3, <4>1, <1>1, Constants DEF Bundle
      <4> QED BY <4>1, <4>2, <1>3
    <3> QED BY <3>1, <3>2, <3>3
  <2> QED BY <2>1 DEF IssuedInv
<1>6. CacheInv'
  BY <1>1, <1>3 DEF RevInv, CacheInv, TypeOK
<1>7. HeldInv'
  BY <1>1, <1>3 DEF RevInv, HeldInv, TypeOK, Exec, DevStatic
<1>8. RevocationTakesEffect'
  <2>1. \A p \in Peers : Entries(p)' = Entries(p) /\ Entries(p) \subseteq Entry
    BY <1>1 DEF Entries, TypeOK
  <2>2. SUFFICES ASSUME ~DevStatic, NEW p \in Peers, NEW h \in Entries(p), NEW r \in revoked',
                        r.epoch = h.env.cert.epoch
                 PROVE  h.at < r.at + Refresh + TransportLag
    BY <1>1, <2>1 DEF RevocationTakesEffect, DevStatic
  <2>3. CASE r \in revoked
    BY <2>2, <2>3 DEF RevInv, RevocationTakesEffect
  <2>4. CASE r.at = now
    <3>1. h.at \in Nat /\ h.at <= now
      BY <2>1 DEF Entry, LedgerInv, EntriesInTime
    <3> QED BY <2>4, <3>1, Constants DEF TypeOK
  <2> QED BY <2>3, <2>4, <1>1
<1> QED BY <1>2, <1>5, <1>6, <1>7, <1>8 DEF RevInv

\* A step of a request other than its write.
LEMMA RevGateStep ==
  ASSUME TypeOK, TypeOK', ExecInv, RevInv, NEW x \in Execs, Gate(x), ~Advance(x)
  PROVE  RevInv'
<1>1. UNCHANGED <<now, conf, ca, issued, revoked, counter>>
  BY DEF Gate, Arrive, GateOff, UseDevBundle, NoAnchor, CacheHit, StartFetch, Served,
         CacheBundle, FetchFails, Verify, Replayed, Ends, caVars, doVars
<1>2. \A b : Honest(b)' = Honest(b)
  BY <1>1 DEF Honest
<1>3. CaInv' /\ IssuedInv' /\ RevocationTakesEffect'
  BY <1>1, <1>2 DEF RevInv, CaInv, IssuedInv, RevocationTakesEffect, Entries, DevStatic
<1>4. ex \in [Execs -> Exec] /\ ex[x].iso \in Isolates /\ ex[x].at \in Nat
  BY DEF TypeOK, Exec
<1>5. CacheInv'
  <2>1. CASE UNCHANGED cache
    BY <2>1, <1>2 DEF RevInv, CacheInv
  <2>2. CASE CacheBundle(x)
    BY <2>2, <1>2 DEF CacheBundle, RevInv, CacheInv, HeldInv, TypeOK
  <2> QED BY <2>1, <2>2 DEF Gate, Arrive, GateOff, UseDevBundle, NoAnchor, CacheHit, StartFetch,
         Served, FetchFails, Verify, Replayed, Ends
<1>6. HeldInv'
  <2>1. \A y \in Execs \ {x} : ex'[y] = ex[y]
    BY <1>4 DEF Gate, Arrive, GateOff, UseDevBundle, NoAnchor, CacheHit, StartFetch, Served,
         CacheBundle, FetchFails, Verify, Replayed, Ends, Goto, VerifyWith
  <2>2. ASSUME ex'[x].pc = "fetched"
        PROVE  Honest(ex'[x].bundle) /\ ex'[x].at <= ex'[x].bundle.issuedAt + TransportLag
    <3>1. Served(x)
      BY <2>2, <1>4 DEF Gate, Arrive, GateOff, UseDevBundle, NoAnchor, CacheHit, StartFetch,
         CacheBundle, FetchFails, Verify, Replayed, Ends, Goto, VerifyWith, Exec
    <3>2. PICK b \in issued : ex' = [ex EXCEPT ![x].pc = "fetched", ![x].bundle = b]
      BY <3>1 DEF Served
    <3>3. ex'[x].bundle = b /\ ex'[x].at = ex[x].at
      BY <3>2, <1>4 DEF Exec
    <3>4. ex[x].at <= now
      BY <3>1 DEF Served, ExecInv, InFlight
    <3>5. Honest(b) /\ now <= b.issuedAt + TransportLag
      BY DEF RevInv, IssuedInv
    <3>6. b.issuedAt \in Nat
      BY DEF TypeOK, Bundle
    <3> QED BY <3>3, <3>4, <3>5, <3>6, <1>4, Constants DEF TypeOK
  <2>3. ASSUME ex'[x].pc \in {"verify", "rpc"}, ~DevStatic
        PROVE  /\ Honest(ex'[x].bundle)
               /\ ex'[x].at < ex'[x].bundle.issuedAt + TransportLag + Refresh
    <3>1. Verify(x) \/ CacheHit(x) \/ CacheBundle(x)
      BY <2>3, <1>4 DEF Gate, Arrive, GateOff, UseDevBundle, NoAnchor, StartFetch, Served,
         FetchFails, Replayed, Ends, Goto, Exec
    <3>2. CASE Verify(x)
      <4>1. ex[x].pc = "verify" /\ ex'[x].bundle = ex[x].bundle /\ ex'[x].at = ex[x].at
        BY <3>2, <1>4 DEF Verify, Goto, Exec
      <4> QED BY <4>1, <2>3 DEF RevInv, HeldInv
    <3>3. CASE CacheHit(x)
      <4>1. PICK c \in cache[ex[x].iso] : Fresh(c, ex[x].at) /\ VerifyWith(x, c.bundle)
        BY <3>3 DEF CacheHit
      <4>2. ex'[x].bundle = c.bundle /\ ex'[x].at = ex[x].at
        BY <4>1, <1>4 DEF VerifyWith, Exec
      <4>3. Honest(c.bundle) /\ c.fetchedAt <= c.bundle.issuedAt + TransportLag
        BY <1>4, <4>1 DEF RevInv, CacheInv
      <4>4. c.fetchedAt \in Nat /\ c.bundle.issuedAt \in Nat
        BY <1>4, <4>1 DEF TypeOK, Bundle
      <4>5. ex[x].at - c.fetchedAt < Refresh
        BY <4>1 DEF Fresh
      <4> QED BY <4>2, <4>3, <4>4, <4>5, <1>4, Constants
    <3>4. CASE CacheBundle(x)
      <4>1. ex[x].pc = "fetched" /\ ex'[x].bundle = ex[x].bundle /\ ex'[x].at = ex[x].at
        BY <3>4, <1>4 DEF CacheBundle, Goto, Exec
      <4>2. Honest(ex[x].bundle) /\ ex[x].at <= ex[x].bundle.issuedAt + TransportLag
        BY <4>1 DEF RevInv, HeldInv
      <4>3. ex[x].bundle.issuedAt \in Nat
        BY <1>4 DEF Exec, Bundle
      <4> QED BY <4>1, <4>2, <4>3, <1>4, Constants
    <3> QED BY <3>1, <3>2, <3>3, <3>4
  <2>4. DevStatic' = DevStatic
    BY <1>1 DEF DevStatic
  <2> QED BY <2>1, <2>2, <2>3, <2>4, <1>2 DEF RevInv, HeldInv
<1> QED BY <1>3, <1>5, <1>6 DEF RevInv

\* The write: the bundle that honoured the request's epoch was signed less
\* than Refresh + TransportLag before it arrived.
LEMMA RevAdvance ==
  ASSUME TypeOK, TypeOK', ExecInv, RevInv, NEW x \in Execs, Advance(x)
  PROVE  RevInv'
<1>1. UNCHANGED <<now, conf, ca, issued, revoked, cache>>
  BY DEF Advance, caVars
<1>2. \A b : Honest(b)' = Honest(b)
  BY <1>1 DEF Honest
<1>3. CaInv' /\ IssuedInv' /\ CacheInv'
  BY <1>1, <1>2 DEF RevInv, CaInv, IssuedInv, CacheInv
<1>4. ex \in [Execs -> Exec]
  BY DEF TypeOK
<1>5. HeldInv'
  <2>1. ex'[x].pc = "passed" /\ \A y \in Execs \ {x} : ex'[y] = ex[y]
    BY <1>4 DEF Advance, Goto, Exec
  <2> QED BY <2>1, <1>1, <1>2 DEF RevInv, HeldInv, DevStatic
<1>6. RevocationTakesEffect'
  <2>1. PICK e \in Envelopes, t \in Nat, b \in Bundle :
           e = ex[x].env /\ t = ex[x].at /\ b = ex[x].bundle
    BY DEF Advance, TypeOK, Exec
  <2>2. PICK new \in Entry : new = [env |-> e, at |-> t]
    BY DEF Entry
  <2>3. PICK q \in Peers : q = e.cert.peer
    BY EnvelopeParts
  <2>4. PICK s \in Seq(Entry) : s = counter[q].hash
    BY DEF TypeOK
  <2>5. counter'[q].hash = Append(s, new) /\ \A p \in Peers \ {q} : counter'[p] = counter[p]
    BY <2>1, <2>2, <2>3, <2>4 DEF Advance, AdvanceCounter, TypeOK
  <2>6. \A p \in Peers : \A h \in Entries(p)' : h \in Entries(p) \/ h = new
    <3>1. \A p \in Peers \ {q} : Entries(p)' = Entries(p)
      BY <2>5 DEF Entries
    <3>2. Entries(q)' = {Append(s, new)[n] : n \in DOMAIN Append(s, new)}
      BY <2>5 DEF Entries
    <3>3. Entries(q) = {s[n] : n \in DOMAIN s}
      BY <2>4 DEF Entries
    <3>4. Entries(q)' \subseteq Entries(q) \cup {new}
      BY <3>2, <3>3, AppendFacts
    <3> QED BY <3>1, <3>4
  <2>7. ASSUME ~DevStatic, NEW r \in revoked, r.epoch = e.cert.epoch
        PROVE  t < r.at + Refresh + TransportLag
    <3>1. IsCertEpochCurrent(r.epoch, b)
      BY <2>1, <2>7 DEF Advance, ExecInv, RpcIsVerified
    <3>2. Honest(b) /\ t < b.issuedAt + TransportLag + Refresh
      BY <2>1, <2>7 DEF Advance, RevInv, HeldInv
    <3>3. b.issuedAt <= r.at
      BY <3>1, <3>2 DEF Honest
    <3>4. b.issuedAt \in Nat /\ r.at \in Nat
      BY DEF Bundle, TypeOK
    <3> QED BY <3>2, <3>3, <3>4, Constants
  <2>8. new.at = t /\ new.env = e
    BY <2>2
  <2> QED BY <2>6, <2>7, <2>8, <1>1 DEF RevInv, RevocationTakesEffect, DevStatic
<1> QED BY <1>3, <1>5, <1>6 DEF RevInv

\* Every step.
LEMMA RevStep ==
  TypeOK /\ TypeOK' /\ ExecInv /\ LedgerInv /\ RevInv /\ [Next]_vars => RevInv'
<1> SUFFICES ASSUME TypeOK, TypeOK', ExecInv, LedgerInv, RevInv, [Next]_vars PROVE RevInv'
  OBVIOUS
<1>1. CASE Tick \/ Rotate \/ EndRotation
  BY <1>1, RevCaStep
<1>2. ASSUME NEW x \in Execs, Gate(x) PROVE RevInv'
  BY <1>2, RevGateStep, RevAdvance
<1>3. CASE (\E i \in Isolates : Evict(i)) \/ Alarm \/ Restart \/ UNCHANGED vars
  <2>1. UNCHANGED <<now, conf, ca, issued, revoked, ex, counter>>
    BY <1>3 DEF Evict, Alarm, Restart, vars, caVars, doVars
  <2>2. \A i \in Isolates : cache'[i] \subseteq cache[i]
    BY <1>3 DEF Evict, Alarm, Restart, vars, TypeOK
  <2>3. \A b : Honest(b)' = Honest(b)
    BY <2>1 DEF Honest
  <2>4. CaInv' /\ IssuedInv' /\ HeldInv'
    BY <2>1, <2>3 DEF RevInv, CaInv, IssuedInv, HeldInv, DevStatic
  <2>5. CacheInv'
    BY <2>2, <2>3 DEF RevInv, CacheInv
  <2>6. RevocationTakesEffect'
    BY <2>1 DEF RevInv, RevocationTakesEffect, Entries, DevStatic
  <2> QED BY <2>4, <2>5, <2>6 DEF RevInv
<1> QED BY <1>1, <1>2, <1>3 DEF Next

\* At the start nothing is revoked, cached or held.
LEMMA InitRev == Init => RevInv
<1> SUFFICES ASSUME Init PROVE RevInv
  OBVIOUS
<1>1. revoked = {} /\ now = 0 /\ issued = {Signed(ca, 0)}
  BY DEF Init
<1>2. CaInv /\ RevocationTakesEffect
  BY <1>1 DEF CaInv, RevocationTakesEffect
<1>3. IssuedInv
  BY <1>1, Constants DEF IssuedInv, Honest, Signed
<1>4. CacheInv /\ HeldInv
  BY DEF Init, CacheInv, HeldInv
<1> QED BY <1>2, <1>3, <1>4 DEF RevInv

\* getCABundle and isCertEpochCurrent: revocation takes effect in bounded
\* time.
THEOREM LeaseRevocationTakesEffect == Spec => []RevocationTakesEffect
<1>1. TypeOK /\ TypeOK' /\ ExecInv /\ LedgerInv /\ RevInv /\ [Next]_vars => RevInv'
  BY RevStep
<1>2. Init => RevInv
  BY InitRev
<1>3. RevInv => RevocationTakesEffect
  BY DEF RevInv
<1> QED BY LeaseInvariant, <1>1, <1>2, <1>3, PTL DEF Spec

-----------------------------------------------------------------------------
(***************************************************************************)
(* The trust anchor                                                        *)
(***************************************************************************)

\* Past the anchor check there is an anchor.
Anchored == \A x \in Execs :
    ex[x].pc \in {"fetching", "fetched", "verify", "rpc", "passed"} => conf.root \/ DevStatic

AnchorInv == Anchored /\ NoAnchorNoEntry

\* A request gets past the check only with an anchor, gets off only where the
\* gate is off and the route does not mind, and moves a chain only past the
\* check.
LEMMA AnchorStep == TypeOK /\ AnchorInv /\ [Next]_vars => AnchorInv'
<1> SUFFICES ASSUME TypeOK, AnchorInv, [Next]_vars PROVE AnchorInv'
  OBVIOUS
<1>1. conf' = conf /\ (DevStatic' <=> DevStatic)
  BY DEF Next, Tick, Rotate, EndRotation, Evict, Alarm, Restart, Gate, Arrive, GateOff, UseDevBundle,
         NoAnchor, CacheHit, StartFetch, Served, CacheBundle, FetchFails, Verify, Advance, Replayed,
         Ends, vars, DevStatic
<1>2. CASE UNCHANGED <<ex, counter>>
  BY <1>1, <1>2 DEF AnchorInv, Anchored, NoAnchorNoEntry
<1>3. ASSUME NEW x \in Execs, Gate(x) PROVE AnchorInv'
  <2>1. ex \in [Execs -> Exec]
    BY DEF TypeOK
  <2>2. \A y \in Execs \ {x} : ex'[y] = ex[y]
    BY <1>3, <2>1 DEF Gate, Arrive, GateOff, UseDevBundle, NoAnchor, CacheHit, StartFetch, Served,
                CacheBundle, FetchFails, Verify, Advance, Replayed, Ends, Goto, VerifyWith
  <2>3. ex'[x].pc \in {"fetching", "fetched", "verify", "rpc", "passed"} => conf.root \/ DevStatic
    BY <1>3, <2>1 DEF Gate, Arrive, GateOff, UseDevBundle, NoAnchor, CacheHit, StartFetch, Served,
                CacheBundle, FetchFails, Verify, Advance, Replayed, Ends, Goto, VerifyWith, Exec,
                AnchorInv, Anchored
  <2>4. ex'[x].pc = "off" => ~LeaseEnforced /\ ~ex'[x].denyWhenOff
    BY <1>3, <2>1 DEF Gate, Arrive, GateOff, UseDevBundle, NoAnchor, CacheHit, StartFetch, Served,
                CacheBundle, FetchFails, Verify, Advance, Replayed, Ends, Goto, VerifyWith, Exec
  <2>5. ~LeaseEnforced => conf = [dev |-> TRUE, devMaster |-> FALSE, root |-> FALSE]
    BY LeaseAssumption DEF LeaseEnforced, TypeOK
  <2>6. counter' # counter => ex[x].pc = "rpc"
    BY <1>3 DEF Gate, Arrive, GateOff, UseDevBundle, NoAnchor, CacheHit, StartFetch, Served,
                CacheBundle, FetchFails, Verify, Advance, Replayed, Ends, doVars
  <2>7. (~conf.root /\ ~DevStatic) => counter' = counter
    BY <2>6 DEF AnchorInv, Anchored
  <2>8. Anchored'
    BY <1>1, <2>2, <2>3 DEF AnchorInv, Anchored
  <2>9. ASSUME NEW y \in Execs, ex'[y].pc = "off"
        PROVE  conf' = [dev |-> TRUE, devMaster |-> FALSE, root |-> FALSE] /\ ~ex'[y].denyWhenOff
    <3>1. CASE y = x
      BY <3>1, <2>9, <2>4, <2>5, <1>1
    <3>2. CASE y # x
      BY <3>2, <2>9, <2>2, <1>1 DEF AnchorInv, NoAnchorNoEntry
    <3> QED BY <3>1, <3>2
  <2>10. (~conf'.root /\ ~DevStatic') => \A p \in Peers : counter'[p].seq = 0
    BY <1>1, <2>7 DEF AnchorInv, NoAnchorNoEntry
  <2> QED BY <2>8, <2>9, <2>10 DEF AnchorInv, NoAnchorNoEntry
<1>4. CASE ~ \E x \in Execs : Gate(x)
  BY <1>2, <1>4 DEF Next, Tick, Rotate, EndRotation, Evict, Alarm, Restart, vars, doVars
<1> QED BY <1>3, <1>4

\* leaseEnforced and getCABundle: without a trust anchor nobody gets in.
THEOREM LeaseNoAnchorNoEntry == Spec => []NoAnchorNoEntry
<1>1. Init => AnchorInv
  <2> SUFFICES ASSUME Init PROVE AnchorInv
    OBVIOUS
  <2>1. \A x \in Execs : ex[x].pc = "idle"
    BY DEF Init
  <2>2. \A p \in Peers : counter[p].seq = 0
    BY DEF Init
  <2>3. Anchored
    BY <2>1 DEF Anchored
  <2>4. NoAnchorNoEntry
    BY <2>1, <2>2 DEF NoAnchorNoEntry
  <2> QED BY <2>3, <2>4 DEF AnchorInv
<1>2. AnchorInv => NoAnchorNoEntry
  BY DEF AnchorInv
<1> QED BY <1>1, <1>2, AnchorStep, LeaseTypes, PTL DEF Spec

\* gateAndVerify lets in on an authority that stands only.
THEOREM LeaseAuthorityHolds == Spec => []AuthorityHolds
<1>1. NoAnchorNoEntry /\ RevocationTakesEffect => AuthorityHolds
  BY DEF AuthorityHolds
<1> QED BY LeaseNoAnchorNoEntry, LeaseRevocationTakesEffect, <1>1, PTL
=============================================================================
