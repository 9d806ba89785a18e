------------------------------ MODULE Registry ------------------------------
(***************************************************************************)
(* The OCI registry routes: the push handlers (upload sessions, monolithic *)
(* uploads, manifests), the pull handlers, and the three stores they use:  *)
(* the isolate's own Map of upload sessions, BlobStore, and the TrustStore *)
(* tables registry_blob_membership and registry_tags.                      *)
(*                                                                         *)
(* A step is what a handler does between two awaits.  Any number of        *)
(* requests interleave, on any isolate; a call to a Durable Object may     *)
(* fail; an isolate may restart, which drops its sessions and the requests *)
(* it was serving.                                                         *)
(*                                                                         *)
(* The two hash functions are injective.  The lease gate is one            *)
(* nondeterministic verdict: module Lease models it.  Repository names and *)
(* tags are well-formed: the handlers refuse the others before they read   *)
(* or write anything.                                                      *)
(***************************************************************************)
EXTENDS Integers, Sequences, FiniteSets

CONSTANTS
    Reqs,           \* requests; each is sent at most once
    Isolates,       \* worker isolates, each with its own OciRegistryRoute
    Uuids,          \* upload ids, never given out twice
    Repos, Tags,
    Bytes,          \* the bytes a body is made of
    MaxBlobBytes,   \* maxBlobBytes
    Digests,
    Sha(_), Blake(_),   \* digestBytes and blake3HexBytes
    MenuOf,         \* what each request may ask
    None,           \* absent: no digest, tag, session, bytes or answer yet
    Malformed       \* a digest parameter that is not sha256:<64 hex digits>

\* Bodies as long as one more than the cap.
Bodies == UNION {[1..n -> Bytes] : n \in 0..(MaxBlobBytes + 1)}

\* Content that fits the cap.
Contents == UNION {[1..n -> Bytes] : n \in 0..MaxBlobBytes}

\* claim is the digest in the URL (?digest= or the reference of a manifest),
\* header the optional Docker-Content-Digest.
Request == [op     : {"begin", "monolithic", "patch", "finalize", "manifest",
                      "pullManifest", "pullBlob"},
            repo   : Repos,
            body   : Bodies,
            claim  : Digests \cup {None, Malformed},
            tag    : Tags \cup {None},
            header : Digests \cup {None}]

\* An UploadSession, its chunks joined.  from is history, not state of the
\* program: the repositories whose requests contributed to bytes.
Session == [name : Repos, bytes : Seq(Bytes), size : Nat, from : SUBSET Repos]

\* The answers; "refused" is every other answer 4xx, "failed" a 500 or none.
Status == {"200", "201", "202", "DIGEST_INVALID", "refused", "failed"}

ASSUME RegistryAssumption ==
    /\ MaxBlobBytes \in Nat
    /\ None \notin Digests \cup Tags \cup Uuids \cup Isolates
    /\ None \notin Request \cup Session \cup Seq(Bytes) \cup Status
    /\ Malformed \notin Digests \cup {None}
    /\ \A c \in Contents : Sha(c) \in Digests /\ Blake(c) \in Digests
    /\ \A c, d \in Contents :
           /\ Sha(c) = Sha(d) => c = d
           /\ Blake(c) = Blake(d) => c = d
           /\ Sha(c) # Blake(d)
    /\ MenuOf \in [Reqs -> SUBSET Request]
    /\ \A p \in Reqs : \A m \in MenuOf[p] :
           m.tag # None => m.op \in {"manifest", "pullManifest"} /\ m.claim = None

VARIABLES
    sessions,   \* UploadSession objects
    open,       \* the keys of each isolate's Map `uploads`
    blobs,      \* BlobStore: digest -> bytes
    members,    \* registry_blob_membership
    tags,       \* registry_tags
    req         \* the local state of each request's handler

vars == <<sessions, open, blobs, members, tags, req>>

Member == [repo : Repos, digest : Digests, kind : {"blob", "manifest"}]

\* sent is the request, at the isolate, u the session it names, bytes what the
\* handler is about to verify, store or serve, key the digest it goes by.
Handler == [pc     : {"idle", "gate", "body", "verify", "put", "member", "tag", "drop",
                      "resolve", "check", "get", "done"},
            sent   : Request \cup {None},
            at     : Isolates \cup {None},
            u      : Uuids \cup {None},
            bytes  : Seq(Bytes) \cup {None},
            from   : SUBSET Repos,
            key    : Digests \cup {None, Malformed},
            status : Status \cup {None}]

TypeOK ==
    /\ sessions \in [Uuids -> Session \cup {None}]
    /\ open \in [Isolates -> SUBSET Uuids]
    /\ blobs \in [Digests -> Seq(Bytes) \cup {None}]
    /\ members \subseteq Member
    /\ tags \in [Repos \X Tags -> Digests \cup {None}]
    /\ req \in [Reqs -> Handler]

Idle == [pc |-> "idle", sent |-> None, at |-> None, u |-> None, bytes |-> None,
         from |-> {}, key |-> None, status |-> None]

Init ==
    /\ sessions = [u \in Uuids |-> None]
    /\ open = [i \in Isolates |-> {}]
    /\ blobs = [d \in Digests |-> None]
    /\ members = {}
    /\ tags = [x \in Repos \X Tags |-> None]
    /\ req = [p \in Reqs |-> Idle]

Op(p)   == req[p].sent.op
Repo(p) == req[p].sent.repo
Body(p) == req[p].sent.body

Goto(p, pc) == req' = [req EXCEPT ![p].pc = pc]

Reply(p, status) == req' = [req EXCEPT ![p].pc = "done", ![p].status = status]

Issued == {u \in Uuids : sessions[u] # None}

-----------------------------------------------------------------------------
(***************************************************************************)
(* Requests arrive; pushes pass the gate.                                  *)
(***************************************************************************)

\* A push goes to the gate, a pull to the tag index or to the membership
\* index.  PATCH and PUT name a session some POST was given.
Send(p) ==
    /\ req[p].pc = "idle"
    /\ \E m \in MenuOf[p], i \in Isolates, u \in Issued \cup {None} :
           /\ (u # None) <=> (m.op \in {"patch", "finalize"})
           /\ req' = [req EXCEPT ![p] =
                  [pc |-> IF m.op = "pullManifest" /\ m.tag # None THEN "resolve"
                          ELSE IF m.op \in {"pullManifest", "pullBlob"} THEN "check"
                          ELSE "gate",
                   sent |-> m, at |-> i, u |-> u, bytes |-> None, from |-> {},
                   key |-> IF m.op \in {"pullManifest", "pullBlob"} THEN m.claim ELSE None,
                   status |-> None]]
    /\ UNCHANGED <<sessions, open, blobs, members, tags>>

\* gateWrite turns every failure of the lease check into 401.
Deny(p) ==
    /\ req[p].pc = "gate"
    /\ Reply(p, "refused")
    /\ UNCHANGED <<sessions, open, blobs, members, tags>>

\* As if a session were found by its id alone.
AnySession(p) == req[p].u \in open[req[p].at]

\* The session is one of this isolate, opened for the repository in the URL.
FindSession(p) ==
    /\ req[p].u \in open[req[p].at]
    /\ sessions[req[p].u].name = Repo(p)

\* What the handlers check between the gate and the body: the session, the
\* digest parameter, and Content-Length if the client sent one.
Admit(p) ==
    /\ req[p].pc = "gate"
    /\ \/ /\ Op(p) \in {"patch", "finalize"}
          /\ ~ FindSession(p)
          /\ Reply(p, "refused")
       \/ /\ Op(p) \in {"patch", "finalize"} => FindSession(p)
          /\ \/ /\ \/ Op(p) = "finalize" /\ req[p].sent.claim = None
                   \/ Op(p) \in {"finalize", "monolithic"} /\ req[p].sent.claim = Malformed
                /\ Reply(p, "refused")
             \/ /\ Op(p) = "finalize" => req[p].sent.claim # None
                /\ Op(p) \in {"finalize", "monolithic"} => req[p].sent.claim # Malformed
                /\ \/ Goto(p, "body")
                   \/ Len(Body(p)) > MaxBlobBytes /\ Reply(p, "refused")
    /\ UNCHANGED <<sessions, open, blobs, members, tags>>

-----------------------------------------------------------------------------
(***************************************************************************)
(* The body is read; what follows happens in the same turn.                *)
(***************************************************************************)

\* checkActualSize.
Oversize(n) == n > MaxBlobBytes

TooLarge(p, n) ==
    /\ Oversize(n)
    /\ Reply(p, "refused")
    /\ UNCHANGED <<sessions, open>>

\* handleUploadBegin: a session seeded with the body.
UploadBegin(p) ==
    /\ req[p].pc = "body" /\ Op(p) = "begin"
    /\ \/ TooLarge(p, Len(Body(p)))
       \/ /\ ~ Oversize(Len(Body(p)))
          /\ \E u \in Uuids \ Issued :
                 /\ sessions' = [sessions EXCEPT ![u] =
                        [name |-> Repo(p), bytes |-> Body(p), size |-> Len(Body(p)),
                         from |-> {Repo(p)}]]
                 /\ open' = [open EXCEPT ![req[p].at] = @ \cup {u}]
          /\ Reply(p, "202")
    /\ UNCHANGED <<blobs, members, tags>>

\* As if each body were measured on its own, not with what the session holds.
AppendAlone(p) ==
    LET s == sessions[req[p].u]
    IN  /\ ~ Oversize(Len(Body(p)))
        /\ sessions' = [sessions EXCEPT ![req[p].u] =
               [s EXCEPT !.bytes = @ \o Body(p), !.size = @ + Len(Body(p)),
                         !.from = @ \cup {Repo(p)}]]

\* The check on the accumulated size, and the push of the chunk.
AppendChunk(p) ==
    LET s == sessions[req[p].u]
    IN  /\ ~ Oversize(s.size + Len(Body(p)))
        /\ sessions' = [sessions EXCEPT ![req[p].u] =
               [s EXCEPT !.bytes = @ \o Body(p), !.size = @ + Len(Body(p)),
                         !.from = @ \cup {Repo(p)}]]

\* handleUploadPatch.  The handler holds the session object: it appends even
\* when the session was dropped while it waited for the body.
UploadPatch(p) ==
    /\ req[p].pc = "body" /\ Op(p) = "patch"
    /\ \/ TooLarge(p, sessions[req[p].u].size + Len(Body(p)))
       \/ AppendChunk(p) /\ Reply(p, "202") /\ UNCHANGED open
    /\ UNCHANGED <<blobs, members, tags>>

\* handleUploadFinalize, to the verification: the trailing body is appended
\* and the chunks are copied into one buffer.
UploadFinalize(p) ==
    /\ req[p].pc = "body" /\ Op(p) = "finalize"
    /\ \/ TooLarge(p, sessions[req[p].u].size + Len(Body(p)))
       \/ /\ AppendChunk(p)
          /\ req' = [req EXCEPT ![p].pc = "verify",
                                ![p].bytes = sessions'[req[p].u].bytes,
                                ![p].from = sessions'[req[p].u].from]
          /\ UNCHANGED open
    /\ UNCHANGED <<blobs, members, tags>>

\* The monolithic branch of handleUploadBegin, and handleManifestPut, to the
\* verification.
WholeBody(p) ==
    /\ req[p].pc = "body" /\ Op(p) \in {"monolithic", "manifest"}
    /\ \/ TooLarge(p, Len(Body(p)))
       \/ /\ Op(p) = "manifest" /\ Body(p) = <<>>
          /\ Reply(p, "refused")
       \/ /\ ~ Oversize(Len(Body(p)))
          /\ Op(p) = "manifest" => Body(p) # <<>>
          /\ req' = [req EXCEPT ![p].pc = "verify", ![p].bytes = Body(p),
                                ![p].from = {Repo(p)}]
    /\ UNCHANGED <<sessions, open, blobs, members, tags>>

-----------------------------------------------------------------------------
(***************************************************************************)
(* The content is verified, stored, recorded and tagged, in this order.    *)
(***************************************************************************)

\* verifyClaimedDigest: SHA-256 or, for build caches, BLAKE3.
Matches(bytes, digest) == digest = Sha(bytes) \/ digest = Blake(bytes)

\* A tag makes no claim: its manifest is stored under its SHA-256.
StorageKey(p) ==
    IF Op(p) = "manifest" /\ req[p].sent.tag # None THEN Sha(req[p].bytes)
                                                    ELSE req[p].sent.claim

\* A refused finalize keeps the session, the trailing body included.
Verify(p) ==
    LET valid == /\ Matches(req[p].bytes, StorageKey(p))
                 /\ Op(p) = "manifest" /\ req[p].sent.header # None =>
                        Matches(req[p].bytes, req[p].sent.header)
    IN  /\ req[p].pc = "verify"
        /\ \/ ~ valid /\ Reply(p, "DIGEST_INVALID")
           \/ valid /\ req' = [req EXCEPT ![p].pc = "put", ![p].key = StorageKey(p)]
        /\ UNCHANGED <<sessions, open, blobs, members, tags>>

\* As if the chunks were joined when they are stored, not when they are hashed.
PutLate(p) ==
    /\ req[p].pc = "put"
    /\ blobs' = [blobs EXCEPT ![req[p].key] =
                     IF @ # None THEN @
                     ELSE IF Op(p) = "finalize" THEN sessions[req[p].u].bytes
                     ELSE req[p].bytes]
    /\ Goto(p, "member")
    /\ UNCHANGED <<sessions, open, members, tags>>

\* BlobStore.put: verifies again, and ignores a digest it has.
PutBlob(p) ==
    /\ req[p].pc = "put"
    /\ Matches(req[p].bytes, req[p].key)
    /\ blobs' = [blobs EXCEPT ![req[p].key] = IF @ = None THEN req[p].bytes ELSE @]
    /\ Goto(p, "member")
    /\ UNCHANGED <<sessions, open, members, tags>>

Kind(p) == IF Op(p) \in {"manifest", "pullManifest"} THEN "manifest" ELSE "blob"

\* As if the row were keyed by the operation.
RecordOperation(p) ==
    /\ req[p].pc = "member"
    /\ members' = members \cup {[repo |-> Repo(p), digest |-> req[p].key, kind |-> Op(p)]}
    /\ \/ Op(p) = "finalize" /\ Goto(p, "drop")
       \/ Op(p) = "manifest" /\ req[p].sent.tag # None /\ Goto(p, "tag")
       \/ /\ Op(p) \in {"monolithic", "manifest"} /\ req[p].sent.tag = None
          /\ Reply(p, "201")
    /\ UNCHANGED <<sessions, open, blobs, tags>>

\* recordRegistryMembership, an UPSERT on (repo, digest, kind).
RecordMembership(p) ==
    /\ req[p].pc = "member"
    /\ members' = members \cup {[repo |-> Repo(p), digest |-> req[p].key, kind |-> Kind(p)]}
    /\ \/ Op(p) = "finalize" /\ Goto(p, "drop")
       \/ Op(p) = "manifest" /\ req[p].sent.tag # None /\ Goto(p, "tag")
       \/ /\ Op(p) \in {"monolithic", "manifest"} /\ req[p].sent.tag = None
          /\ Reply(p, "201")
    /\ UNCHANGED <<sessions, open, blobs, tags>>

\* As if the tag were written before the bytes are in BlobStore.
TagFirst(p) ==
    /\ req[p].pc \in {"put", "tag"} /\ Op(p) = "manifest" /\ req[p].sent.tag # None
    /\ tags' = [tags EXCEPT ![<<Repo(p), req[p].sent.tag>>] = req[p].key]
    /\ IF req[p].pc = "tag" THEN Reply(p, "201") ELSE UNCHANGED req
    /\ UNCHANGED <<sessions, open, blobs, members>>

\* upsertRegistryTag.
UpsertTag(p) ==
    /\ req[p].pc = "tag"
    /\ tags' = [tags EXCEPT ![<<Repo(p), req[p].sent.tag>>] = req[p].key]
    /\ Reply(p, "201")
    /\ UNCHANGED <<sessions, open, blobs, members>>

\* The finalized session leaves the Map.
DropSession(p) ==
    /\ req[p].pc = "drop"
    /\ open' = [open EXCEPT ![req[p].at] = @ \ {req[p].u}]
    /\ Reply(p, "201")
    /\ UNCHANGED <<sessions, blobs, members, tags>>

\* As if a failed call were no reason to fail the request.
SwallowFailure(p) ==
    /\ req[p].pc \in {"put", "member", "tag", "drop", "resolve", "check", "get"}
    /\ Reply(p, IF req[p].pc \in {"resolve", "check", "get"} THEN "failed" ELSE "201")
    /\ UNCHANGED <<sessions, open, blobs, members, tags>>

\* A call to BlobStore or TrustStore throws, or its reply is lost ("drop" is
\* after the call to TrustStore): the handler ends there.
CallFails(p) ==
    /\ req[p].pc \in {"put", "member", "tag", "drop", "resolve", "check", "get"}
    /\ Reply(p, "failed")
    /\ UNCHANGED <<sessions, open, blobs, members, tags>>

-----------------------------------------------------------------------------
(***************************************************************************)
(* Pulls                                                                   *)
(***************************************************************************)

\* getRegistryManifestDigestForTag.
ResolveTag(p) ==
    LET d == tags[<<Repo(p), req[p].sent.tag>>]
    IN  /\ req[p].pc = "resolve"
        /\ \/ d = None /\ Reply(p, "refused")
           \/ d # None /\ req' = [req EXCEPT ![p].pc = "check", ![p].key = d]
        /\ UNCHANGED <<sessions, open, blobs, members, tags>>

\* As if any repository's row opened the gate.
AnyMembership(p) ==
    \E m \in members : m.digest = req[p].key /\ m.kind = Kind(p)

\* hasRegistryMembership.
HasMembership(p) == [repo |-> Repo(p), digest |-> req[p].key, kind |-> Kind(p)] \in members

\* The pull gate: no row for this repository, no bytes.
CheckMembership(p) ==
    /\ req[p].pc = "check"
    /\ \/ HasMembership(p) /\ Goto(p, "get")
       \/ ~ HasMembership(p) /\ Reply(p, "refused")
    /\ UNCHANGED <<sessions, open, blobs, members, tags>>

\* BlobStore.get, or has for a HEAD request.
GetBlob(p) ==
    LET b == blobs[req[p].key]
    IN  /\ req[p].pc = "get"
        /\ req' = [req EXCEPT ![p].pc = "done", ![p].bytes = b,
                              ![p].status = IF b = None THEN "refused" ELSE "200"]
        /\ UNCHANGED <<sessions, open, blobs, members, tags>>

-----------------------------------------------------------------------------
\* The isolate restarts: its Map and the handlers it ran are gone.
Restart(i) ==
    /\ open[i] # {} \/ \E p \in Reqs : req[p].at = i /\ req[p].pc # "done"
    /\ open' = [open EXCEPT ![i] = {}]
    /\ req' = [p \in Reqs |-> IF req[p].at = i /\ req[p].pc # "done"
                              THEN [req[p] EXCEPT !.pc = "done", !.status = "failed"]
                              ELSE req[p]]
    /\ UNCHANGED <<sessions, blobs, members, tags>>

Handle(p) ==
    \/ Send(p) \/ Deny(p) \/ Admit(p)
    \/ UploadBegin(p) \/ UploadPatch(p) \/ UploadFinalize(p) \/ WholeBody(p)
    \/ Verify(p) \/ PutBlob(p) \/ RecordMembership(p) \/ UpsertTag(p) \/ DropSession(p)
    \/ CallFails(p)
    \/ ResolveTag(p) \/ CheckMembership(p) \/ GetBlob(p)

Next ==
    \/ \E p \in Reqs : Handle(p)
    \/ \E i \in Isolates : Restart(i)

Spec == Init /\ [][Next]_vars

-----------------------------------------------------------------------------
(***************************************************************************)
(* Properties                                                              *)
(***************************************************************************)

\* listRegistryTagsForRepo, the answer of /v2/<name>/tags/list.
ListTags(r) == {t \in Tags : tags[<<r, t>>] # None}

Stored(r, d, kind) ==
    /\ [repo |-> r, digest |-> d, kind |-> kind] \in members
    /\ blobs[d] # None

\* Every tag the registry lists can be pulled: its manifest is a member of
\* the repository and its bytes are in BlobStore, whatever push failed or
\* died between BlobStore.put, recordRegistryMembership and upsertRegistryTag.
TagsServe == \A r \in Repos : \A t \in ListTags(r) : Stored(r, tags[<<r, t>>], "manifest")

\* A client told 201 can rely on its push: bytes and membership are there,
\* and stay (handleUploadBegin, handleUploadFinalize, handleManifestPut).
CreatedIsStored ==
    \A p \in Reqs : req[p].status = "201" => Stored(Repo(p), req[p].key, Kind(p))

\* A pull that got past the tag index will pass the pull gate, and one that
\* passed the gate will find the bytes, though the tag may be moved and other
\* pushes may fail while it is under way.
PullNeverDangles ==
    \A p \in Reqs :
        /\ req[p].pc = "check" /\ Op(p) = "pullManifest" /\ req[p].sent.tag # None =>
               Stored(Repo(p), req[p].key, "manifest")
        /\ req[p].pc = "get" => Stored(Repo(p), req[p].key, Kind(p))

\* What a pull serves, this very repository was sent: some push that names
\* the repository delivered these bytes, and every chunk of them came in a
\* request for it, although BlobStore is shared and sessions are found by id.
ServedWasPushedHere ==
    \A p \in Reqs :
        req[p].status = "200" =>
            \E q \in Reqs :
                /\ req[q].key = req[p].key /\ req[q].bytes = req[p].bytes
                /\ Repo(q) = Repo(p) /\ req[q].from = {Repo(p)}

\* The byte count of a session is exact and within the cap, however many
\* PATCH and PUT requests append to it at once (checkActualSize comes after
\* the await of the body; concatChunks relies on the count).
SessionsBounded ==
    \A u \in Issued : sessions[u].size = Len(sessions[u].bytes) /\ sessions[u].size <= MaxBlobBytes

\* Every stored blob hashes to the digest it is stored under, so nothing that
\* is appended to a session after it was copied reaches BlobStore.
ContentAddressed == \A d \in Digests : blobs[d] # None => Matches(blobs[d], d)

\* What the session held when a finalize arrived.
Before(p) == SubSeq(req[p].bytes, 1, Len(req[p].bytes) - Len(Body(p)))

\* "Don't drop the session - let the client retry the finalize (it may have
\* sent the wrong digest claim against the right bytes, or vice versa)" (the
\* comment in handleUploadFinalize): a client that sent the wrong trailing
\* bytes and now sends the right ones, under the same digest, succeeds.
FinalizeCanBeRetried ==
    \A p, q \in Reqs :
        /\ req[p].status = "DIGEST_INVALID" /\ Op(p) = "finalize"
        /\ req[q].status = "DIGEST_INVALID" /\ Op(q) = "finalize"
        /\ req[p].u = req[q].u /\ Before(q) = req[p].bytes
        => ~ Matches(Before(p) \o Body(q), req[q].sent.claim)

\* What the index names is stored: for the tags it lists, for the pushes it has
\* acknowledged and for the pulls under way.
IndexServes == TagsServe /\ CreatedIsStored /\ PullNeverDangles
=============================================================================
