------------------------------ MODULE Receipts ------------------------------
(***************************************************************************)
(* Signed receipts of responses: the context built for an admitted         *)
(* request, signing with a local key or by the authority, whose key is     *)
(* rotated meanwhile, the commitments of an event stream, and what the     *)
(* peer and a later auditor make of them.                                  *)
(*                                                                         *)
(* Hashes are injective: a hash is the value it is taken of.  A signature  *)
(* is the pair of a key and what it signs.  The authority has one key per  *)
(* epoch; a local signing key is a copy of one of them.  A response        *)
(* reaches the peer as it was sent, or as an intermediary changed it.      *)
(***************************************************************************)
EXTENDS Integers, Sequences, SequencesExt, FiniteSets

CONSTANTS
    Reqs,        \* requests, each with a nonce of its own
    Configs,     \* what a deployment has: "notme" and "key"
    Contents,    \* what an upstream streams: sequences of "data" and "comment"
    MaxClock, MaxEpoch,  \* bounds
    LocalEpoch,  \* RECEIPT_EPOCH
    LeaseSkew,   \* how far a lease's clock may be off
    Skew         \* RECEIPT_CLOCK_SKEW_MS

ASSUME ReceiptsAssumption ==
    /\ {MaxClock, MaxEpoch, LeaseSkew, Skew, LocalEpoch} \subseteq Nat
    /\ LocalEpoch \in 1..MaxEpoch
    /\ Contents \subseteq Seq({"data", "comment"})

VARIABLES
    config,  \* the bindings of the deployment
    clock,   \* Date.now() of everybody
    epoch,   \* the authority's epoch
    req      \* the requests

vars == <<config, clock, epoch, req>>

Epochs == 1..MaxEpoch

\* The fingerprint of the key of an epoch.
ActorFp(e) == e

NoVerdict == [ok |-> FALSE, from |-> "none", body |-> "none", fp |-> 0]

NoReq == [pc |-> "new", ts |-> 0, now |-> 0, kind |-> "json", ctx |-> <<>>, receipt |-> <<>>,
          content |-> <<>>, read |-> 0, half |-> FALSE, chain |-> <<>>, got |-> <<>>,
          verdict |-> NoVerdict]

Init ==
    /\ config \in Configs
    /\ clock = 0 /\ epoch = 1
    /\ req = [r \in Reqs |-> NoReq]

Tick ==
    /\ clock < MaxClock
    /\ clock' = clock + 1
    /\ UNCHANGED <<config, epoch, req>>

\* The authority's alarm rotates its key.
Rotate ==
    /\ epoch < MaxEpoch
    /\ epoch' = epoch + 1
    /\ UNCHANGED <<config, clock, req>>

------------------------------------------------------------------------------
(* A request is admitted under a lease. *)

\* canonicalRequestBytes, of a request that r and its nonce stand for.
CanonicalRequestBytes(r, ts) == <<r, ts>>

Send(r, kind) ==
    /\ req[r].pc = "new"
    /\ req' = [req EXCEPT ![r].pc = "sent", ![r].ts = clock, ![r].kind = kind]
    /\ UNCHANGED <<config, clock, epoch>>

\* As if the time of admission were the end of the lease's tolerance.
AdmitAtDeadline(r) ==
    /\ req[r].pc = "sent"
    /\ req' = [req EXCEPT ![r].pc = "admitted", ![r].now = req[r].ts + LeaseSkew]
    /\ UNCHANGED <<config, clock, epoch>>

\* The lease is verified over the caller's time, and handlePost keeps its own.
Admit(r) ==
    /\ req[r].pc = "sent"
    /\ clock - req[r].ts <= LeaseSkew
    /\ req' = [req EXCEPT ![r].pc = "admitted", ![r].now = clock]
    /\ UNCHANGED <<config, clock, epoch>>

------------------------------------------------------------------------------
(* buildReceiptContext and buildEmissionContext. *)

\* The commitment to a response holds its body, that to a stream its id.
Commitment(r, kind, now, e) ==
    IF kind = "json"
    THEN [nonce |-> r, request |-> CanonicalRequestBytes(r, now), status |-> 200,
          actorFp |-> ActorFp(e), epoch |-> e, time |-> now, body |-> r]
    ELSE [nonce |-> r, request |-> CanonicalRequestBytes(r, now), status |-> 200,
          actorFp |-> ActorFp(e), epoch |-> e, time |-> now, stream |-> r]

Context(r, signer, e) ==
    [signer |-> signer, c |-> Commitment(r, req[r].kind, req[r].now, e)]

\* The answer goes out without a receipt.
UnsignedAnswer(r) == req' = [req EXCEPT ![r].pc = "answered"]

\* The facts of the authority, if it answers the probe.
ProbeAnswers(r) ==
    /\ req[r].pc = "admitted" /\ req[r].kind = "json" /\ "notme" \in config
    /\ req' = [req EXCEPT ![r].pc = "signing", ![r].ctx = Context(r, "delegated", epoch)]
    /\ UNCHANGED <<config, clock, epoch>>

\* No authority, or none that answers: the local key, or no receipt.  A stream
\* is only ever signed with the local key.
LoadReceiptSigner(r) ==
    /\ req[r].pc = "admitted"
    /\ IF "key" \in config
       THEN req' = [req EXCEPT ![r].pc = "signing", ![r].ctx = Context(r, "local", LocalEpoch)]
       ELSE UnsignedAnswer(r)
    /\ UNCHANGED <<config, clock, epoch>>

------------------------------------------------------------------------------
(* attachReceipt. *)

Sign(key, c) == [commitment |-> c, signature |-> [key |-> key, of |-> c]]

Attach(r, receipt) ==
    req' = [req EXCEPT ![r].pc = IF req[r].kind = "json" THEN "answered" ELSE "stream",
                       ![r].receipt = receipt]

SignCommitmentToHeader(r) ==
    /\ req[r].pc = "signing" /\ req[r].ctx.signer = "local" /\ req[r].kind = "json"
    /\ Attach(r, Sign(LocalEpoch, req[r].ctx.c))
    /\ UNCHANGED <<config, clock, epoch>>

\* The authority signs only facts that are its own of the moment.
SignReceipt(c) == c.epoch = epoch /\ c.actorFp = ActorFp(epoch)

SignCommitment(r) ==
    /\ req[r].pc = "signing" /\ req[r].ctx.signer = "delegated"
    /\ IF SignReceipt(req[r].ctx.c)
       THEN Attach(r, Sign(epoch, req[r].ctx.c))
       ELSE req' = [req EXCEPT ![r].pc = "facts"]    \* EPOCH_MISMATCH
    /\ UNCHANGED <<config, clock, epoch>>

\* As if the envelope were built of the commitment the caller passed in.
StaleEnvelope(r) ==
    /\ req[r].pc = "facts"
    /\ Attach(r, [Sign(epoch, Context(r, "delegated", epoch).c) EXCEPT !.commitment = req[r].ctx.c])
    /\ UNCHANGED <<config, clock, epoch>>

\* The facts are read again, and the commitment is the same but for them.
RefreshFacts(r) ==
    /\ req[r].pc = "facts"
    /\ req' = [req EXCEPT ![r].pc = "retry", ![r].ctx = Context(r, "delegated", epoch)]
    /\ UNCHANGED <<config, clock, epoch>>

\* One retry; the epoch may have moved again.
RetrySign(r) ==
    /\ req[r].pc = "retry"
    /\ IF SignReceipt(req[r].ctx.c) THEN Attach(r, Sign(epoch, req[r].ctx.c)) ELSE UnsignedAnswer(r)
    /\ UNCHANGED <<config, clock, epoch>>

\* Any other refusal, or no answer: handlePost swallows it.
SignFails(r) ==
    /\ req[r].pc \in {"signing", "facts", "retry"} /\ req[r].ctx.signer = "delegated"
    /\ UnsignedAnswer(r)
    /\ UNCHANGED <<config, clock, epoch>>

------------------------------------------------------------------------------
(* wrapSseWithReceiptStream. *)

\* The open commitment is in the header; the stream id is the request's own.
SignStreamOpenToHeader(r, content) ==
    /\ req[r].pc = "signing" /\ req[r].ctx.signer = "local" /\ req[r].kind = "sse"
    /\ req' = [req EXCEPT ![r].pc = "stream", ![r].receipt = Sign(LocalEpoch, req[r].ctx.c),
                          ![r].content = content]
    /\ UNCHANGED <<config, clock, epoch>>

EventChainStep(chain, block) == Append(chain, block)

\* What the peer reads: what was sent, or less, or something twice.
Receives(got, item) == {Append(got, item), got, got \o <<item, item>>}

Streaming(r) == req[r].pc = "stream" /\ req[r].kind = "sse"

\* A chunk ends within a block.
ReadHalf(r) ==
    /\ Streaming(r) /\ ~req[r].half /\ req[r].read < Len(req[r].content)
    /\ req' = [req EXCEPT ![r].half = TRUE]
    /\ UNCHANGED <<config, clock, epoch>>

\* A chunk completes a block: comments are passed on without being hashed.
FlushPendingEvents(r) ==
    LET q == req[r]
        block == [kind |-> q.content[q.read + 1], n |-> q.read + 1]
    IN  /\ Streaming(r) /\ q.read < Len(q.content)
        /\ \E got \in Receives(q.got, block) :
             req' = [req EXCEPT ![r].read = @ + 1, ![r].half = FALSE, ![r].got = got,
                                ![r].chain = IF block.kind = "comment" THEN @
                                             ELSE EventChainStep(@, block)]
        /\ UNCHANGED <<config, clock, epoch>>

CloseEvent(r, chain) ==
    [kind |-> "close", n |-> 0,
     close |-> Sign(LocalEpoch, [open |-> req[r].receipt.commitment, tip |-> chain,
                                count |-> Len(chain), status |-> "ok"])]

\* The upstream is done; what lacks its delimiter is passed on unhashed.
StreamDone(r) ==
    LET q == req[r]
        rest == IF q.half THEN <<[kind |-> "rest", n |-> q.read + 1]>> ELSE <<>>
    IN  /\ Streaming(r)
        /\ q.read + Len(rest) = Len(q.content)
        /\ req' = [req EXCEPT ![r].pc = "answered", ![r].got = (q.got \o rest) \o <<CloseEvent(r, q.chain)>>]
        /\ UNCHANGED <<config, clock, epoch>>

\* The upstream fails: there is a close event too, and it says "ok"; it gets
\* through if the client is reading just then.
StreamFails(r) ==
    /\ Streaming(r)
    /\ \E got \in {req[r].got, Append(req[r].got, CloseEvent(r, req[r].chain))} :
         req' = [req EXCEPT ![r].pc = "answered", ![r].got = got]
    /\ UNCHANGED <<config, clock, epoch>>

\* The client goes away: no close commitment.
CancelStream(r) ==
    /\ Streaming(r)
    /\ req' = [req EXCEPT ![r].pc = "answered"]
    /\ UNCHANGED <<config, clock, epoch>>

------------------------------------------------------------------------------
(* receipt-verify.ts. *)

VerifyEd25519(key, envelope) == envelope.signature = [key |-> key, of |-> envelope.commitment]

\* Decoding refuses a commitment with a key too many or too few.
CommonKeys == {"nonce", "request", "status", "actorFp", "epoch", "time"}
ParseCommitmentMap(c) == DOMAIN c = CommonKeys \cup {"body"}
ParseStreamOpenMap(c) == DOMAIN c = CommonKeys \cup {"stream"}

\* As if the body were taken for granted.
VerifyWithoutBody(r, canon, x, body, fp, view) ==
    LET c == x.commitment IN
    /\ c.nonce = r /\ c.request = canon
    /\ c.actorFp = fp /\ c.epoch \in {view, view - 1}
    /\ VerifyEd25519(c.epoch, x)

\* The peer's checks on a receipt x that came with a body, where it pins the
\* fingerprint fp and takes view for the current epoch.
VerifyReceiptPLive(r, canon, x, body, fp, view) ==
    LET c == x.commitment IN
    /\ ParseCommitmentMap(c)
    /\ c.nonce = r /\ c.request = canon
    /\ c.actorFp = fp /\ c.epoch \in {view, view - 1}
    /\ VerifyEd25519(c.epoch, x)
    /\ c.body = body
    /\ clock - c.time <= Skew
    /\ c.status \in 200..299

\* As if an auditor took the current key.
VerifyUnderCurrentKey(canon, x, body, fp) == x.commitment.body = body /\ VerifyEd25519(epoch, x)

\* An auditor has the archive's key for the epoch, and no clock.
VerifyReceiptVArchival(canon, x, body, fp) ==
    LET c == x.commitment IN
    /\ ParseCommitmentMap(c)
    /\ c.actorFp = fp /\ c.request = canon
    /\ VerifyEd25519(c.epoch, x)
    /\ c.body = body
    /\ c.status \in 200..299

VerifyStreamOpen(r, canon, x, fp, view) ==
    LET c == x.commitment IN
    /\ ParseStreamOpenMap(c)
    /\ c.nonce = r /\ c.request = canon
    /\ c.actorFp = fp /\ c.epoch \in {view, view - 1}
    /\ VerifyEd25519(c.epoch, x)
    /\ clock - c.time <= Skew
    /\ c.status = 200

\* As if any signed close would do.
VerifyAnyClose(r, close, rolled) == VerifyEd25519(LocalEpoch, close)

VerifyStreamClose(r, close, rolled) ==
    /\ close.commitment.open = req[r].receipt.commitment
    /\ close.commitment.tip = rolled
    /\ VerifyEd25519(LocalEpoch, close)

\* The chain the peer rolls over what it reads before a close event.
Rolled(got) == SelectSeq(got, LAMBDA b : b.kind = "data")

\* The peer accepts some receipt, of this response or of another, and some body
\* for its request, whose bytes carry its own time.
PeerVerifies(r) ==
    /\ req[r].pc = "answered" /\ req[r].kind = "json" /\ req[r].verdict = NoVerdict
    /\ \E o \in {q \in Reqs : req[q].receipt # <<>>}, body \in Reqs, view \in 1..epoch, fp \in Epochs :
         /\ VerifyReceiptPLive(r, CanonicalRequestBytes(r, req[r].ts), req[o].receipt, body, fp, view)
         /\ req' = [req EXCEPT ![r].verdict = [ok |-> TRUE, from |-> o, body |-> body, fp |-> fp]]
    /\ UNCHANGED <<config, clock, epoch>>

\* The peer accepts a close event, of this stream or, spliced in, of another.
PeerVerifiesClose(r) ==
    /\ req[r].pc = "answered" /\ req[r].kind = "sse" /\ req[r].verdict = NoVerdict
    /\ req[r].receipt # <<>>
    /\ VerifyStreamOpen(r, CanonicalRequestBytes(r, req[r].ts), req[r].receipt, LocalEpoch, LocalEpoch)
    /\ \E o \in Reqs : \E b \in Range(req[o].got) :
         /\ b.kind = "close" /\ VerifyStreamClose(r, b.close, Rolled(req[r].got))
         /\ req' = [req EXCEPT ![r].verdict = [ok |-> TRUE, from |-> o, body |-> r, fp |-> LocalEpoch]]
    /\ UNCHANGED <<config, clock, epoch>>

------------------------------------------------------------------------------
Next ==
    \/ Tick \/ Rotate
    \/ \E r \in Reqs :
         \/ \E kind \in {"json", "sse"} : Send(r, kind)
         \/ Admit(r) \/ ProbeAnswers(r) \/ LoadReceiptSigner(r)
         \/ SignCommitmentToHeader(r) \/ SignCommitment(r) \/ RefreshFacts(r) \/ RetrySign(r)
         \/ SignFails(r)
         \/ \E content \in Contents : SignStreamOpenToHeader(r, content)
         \/ ReadHalf(r) \/ FlushPendingEvents(r) \/ StreamDone(r) \/ StreamFails(r) \/ CancelStream(r)
         \/ PeerVerifies(r) \/ PeerVerifiesClose(r)

Spec == Init /\ [][Next]_vars

------------------------------------------------------------------------------
TypeOK ==
    /\ config \in Configs /\ clock \in 0..MaxClock /\ epoch \in Epochs
    /\ \A r \in Reqs :
         /\ req[r].pc \in {"new", "sent", "admitted", "signing", "facts", "retry", "stream", "answered"}
         /\ req[r].read \in 0..Len(req[r].content)
         /\ req[r].now \in 0..clock

\* Whatever rotates between reading the facts and signing, a receipt that goes
\* out is signed with the key of the epoch and the actor that it names.
EmittedVerifies ==
    \A r \in Reqs : req[r].receipt # <<>> =>
        LET x == req[r].receipt
        IN  VerifyEd25519(x.commitment.epoch, x) /\ x.commitment.actorFp = ActorFp(x.commitment.epoch)

\* A peer accepts only the receipt and the body of its own request.
AcceptedIsGenuine ==
    \A r \in Reqs : req[r].verdict.ok => req[r].verdict.from = r /\ req[r].verdict.body = r

\* What a peer once accepted, an auditor accepts after any rotation.
AcceptedStaysAuditable ==
    \A r \in Reqs : req[r].verdict.ok /\ req[r].kind = "json" =>
        LET v == req[r].verdict
        IN  VerifyReceiptVArchival(CanonicalRequestBytes(r, req[r].ts), req[v.from].receipt, v.body, v.fp)

\* A verified close means that the peer read the events of the upstream in
\* their order, each once and none left out, up to where the stream ended.
ClosedIsPrefix ==
    \A r \in Reqs : req[r].kind = "sse" /\ req[r].verdict.ok =>
        LET rolled == Rolled(req[r].got)
        IN  /\ \A i, j \in DOMAIN rolled : i < j => rolled[i].n < rolled[j].n
            /\ {rolled[i].n : i \in DOMAIN rolled} = {n \in 1..req[r].read : req[r].content[n] = "data"}

\* What a receipt says, it goes on saying: it is signed by the key it names, is
\* accepted for its own request and body only, stays auditable over rotations,
\* and closes a stream only over what was read of it.
ReceiptsHold ==
    EmittedVerifies /\ AcceptedIsGenuine /\ AcceptedStaysAuditable /\ ClosedIsPrefix

\* A receipt that reaches the peer as it was sent, in time and in its epoch,
\* is accepted.
HonestReceiptVerifies ==
    \A r \in Reqs : LET x == req[r].receipt IN
        req[r].pc = "answered" /\ req[r].kind = "json" /\ x # <<>> /\ clock - req[r].now <= Skew =>
          VerifyReceiptPLive(r, CanonicalRequestBytes(r, req[r].ts), x, r, x.commitment.actorFp,
                             x.commitment.epoch)
=============================================================================
