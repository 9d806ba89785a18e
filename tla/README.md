# A TLA+ verification of cloister

cloister is an edge router for agent tools. It runs on workerd: *isolates* run
the HTTP and MCP routes and keep nothing durable; *Durable Objects* (single
JavaScript threads with a SQLite database each) keep the state. Around the
router there is a command line that resolves the inputs of a cluster, checks
and composes its declarations, and launches confined harnesses. This directory
holds TLA+ modules of the parts in which that can go wrong, TLC configurations
for small instances of them, and TLAPS proofs for all instances.

Paths below are relative to the repository (`src/...` is its source directory).

## 1. Inventory

Three facts of the platform shape everything:

* code between two `await`s is one turn and nothing runs inside it, whereas any
  other request may run at an `await`. What was read before an `await` may be
  stale after it;
* a call to another object, and the isolate or object itself, may fail or go
  away at an `await`, with or without the effect of the call;
* a command is an operating-system process: it may be killed between any two of
  its writes, and other processes write the same files.

| component (source) | state | operations | what is hard | what makes it correct |
|---|---|---|---|---|
| Audit tables of TrustStore (`src/trust-store.ts`, `src/storage/peer-attestations.ts`, `pending-attestations.ts`) | per-peer chain of attestations; queue of those that did not land | `applyAttestation`, `enqueuePending...`, `drainPendingRetries` | the head is read before the gate in which it is compared; sweeps overlap, fail, die | one chain per peer; nothing removed; nothing leaves the queue unattested |
| `bead_create` orchestrator (`src/routes/bead-create-orchestrator.ts`) | none of its own: BlobStore, BeadStore or rsry, TrustStore | five calls in order, the last two tolerant of failure | two requests of one peer race for the head; a reply is lost; the worker dies | what the client saw succeed is attested or queued; nothing is attested that was not written |
| Disclosure route (`src/routes/disclosure.ts`, `src/storage/disclosure-cursor.ts`) | none; signed cursors | one page: gate, probe, two lists, next cursor | the chain grows and the queue moves between pages | following cursors gives the chain, each row once |
| Lease gate (`src/routes/lease-middleware.ts`, `lease-gate.ts`) | none; uses the CA bundle and two tables | one request: gate, bundle, checks, ledger | one clock reading for the whole request; deliveries of one envelope in several isolates | no replay; no entry without an anchor |
| CA-bundle cache (`src/storage/ca-bundle-cache.ts`, `ca-bundle-source.ts`, `notme-bundle-fetcher.ts`) | one entry per isolate | hit, fetch, replace | fetches overlap and a slow one overwrites a newer entry | revocation takes effect in bounded time |
| Lease tables of TrustStore (`seen_nonces`, `peer_lease_counters`) | nonces; one hash chain per peer | `verifyLeaseAndAdvanceChain`, hourly alarm | the sweep forgets nonces while slow requests are under way | ledger and chain tell one story |
| CredentialVault (`src/vault-store.ts`, `vault/src/`) | sealed rows, pin, rate buckets; in memory the KEK promise, in-flight counters, seed flag | put, read, delete, proxy; deployment, eviction, rotation playbook | one derivation shared by all callers, and failing; rows read before the KEK is awaited; redeployments in between | one KEK at a time; exact counters; no wait in vain |
| Vault proxy route and pre-auth budget (`src/routes/vault-proxy*.ts`, `pre-auth-budget.ts`) | per-isolate buckets per address and windows per peer and service | `handle`: gates, one of three ways to an upstream, one record | eviction at the cap; an upstream that throws; windows that roll over | bounded consumption; one record per call; denials alike |
| OCI registry (`src/routes/oci-registry.ts`, `src/storage/registry-tags.ts`, `registry-membership.ts`) | upload sessions in the isolate's memory; tag and membership tables | begin, PATCH, finalize, monolithic, manifest; two pulls | sessions are found before the body is awaited and used after; three stores written one after the other | the indexes never run ahead of the bytes; a repository serves only what it was sent |
| BlobStore, RefStore (`src/blob-store.ts`, `src/storage/workerd.ts`) | rows, rows of chunks, refs | put, get, has; cas, list | a long value is many statements, any of which may fail | an answered put reads back for good; a ref moves from the value seen |
| MCP edge (`src/routes/mcp.ts`, `roots-state.ts`, `src/manifest/backends/`, `src/manifest/runtime.ts`) | per backend one upstream session, protocol mode, cache of tools; roots per peer | dispatch, handshake, retry, downgrade, refresh, reverse calls | concurrent calls share the handshake and its loss; a cache changes between two look-ups | callers are kept apart; effects are explained; every request is answered |
| Receipts (`src/wire/receipts.ts`, `receipt-verify.ts`, `receipt-delegated-signer.ts`, `src/routes/receipt-*.ts`) | the authority's facts, hash chain over a stream | build, sign here or at the authority, wrap a stream, verify | the key rotates between two calls; a stream breaks | accepted receipts are genuine and stay auditable |
| Archive (`src/storage/peer-receipts.ts`, `actor-ca-bundle.ts`, `src/wire/compromise-notice.ts`) | receipts; one row per epoch; an alarm | upsert, attach a notice, prune | epochs retired and revived, notices for other epochs, alarms that fail | kept for the window; distrusted on the actor's word only |
| Declarations of a cluster (`cli/lib/cluster/toml-to-cluster.mjs`, `scripts/lint-bundle-isolation.mjs`, `cli/lib/cluster/emit-compose.mjs`, `src/routes/tenant-dispatch.ts`) | `cluster.toml`, `config.capnp`; what is deployed | compile, lint (Inv 1 to 13), emit, dispatch | four programs resolve tenants, tiers and sockets, each in its own way | what passes the lint keeps tenants apart when it runs |
| Capability matchmaker (`cli/lib/cluster/capability-matchmaker.mjs`) | stack of an iterative search | match, detect cycles | nodes pushed twice, parents overwritten | a cycle is reported exactly when there is one |
| Workspace (`cli/lib/cluster/resolve-inputs.mjs`, `generate.mjs`, `cli/commands/`, `scripts/build-manifest.mjs`) | `cluster.toml`, lockfile, generated files, image store | add, resolve, generate, build, pull, up, down | killed commands; tags that move; registries that answer anything | what runs is what was pinned; files agree; no tools lost |
| Confinement lattice (`cli/lib/harness/confinement-lattice.mjs`) | a document per enforcement point | meet, normalize, leq, ratchet | restrictions in any order, repeated | points converge on the intersection |
| Harness (`cli/lib/harness/launch.mjs`, `cli/commands/run.mjs`, `scripts/harness-dev.mjs`, `tools/harness-sandbox`) | files and ports of one checkout, child processes | plan, mint, start, confine, shut down | two launches, interrupts, children that exit unheard | confined as attested; own router; nothing left behind |
| notme (the CA), rsry, upstreams, registries, wrangler | outside the repository | | | external: modelled from how the code uses them |

The components that are left out, each with the reason, are in
`PROJECT.json` under `components`; the places where the code could go wrong
without a test noticing, under `hazards`.

How they interact: a route calls the lease gate, which reads the isolate's
bundle cache, fetches from notme when it must, and writes the lease tables of
TrustStore. Behind the gate, `/mcp` dispatches to a backend and attaches a
receipt; `bead_create` calls BlobStore, then BeadStore or rsry, then the audit
tables of TrustStore, which disclosure reads; the registry calls BlobStore,
then the membership and tag tables; the vault route calls CredentialVault,
which asks a KEK source and then an upstream. The workspace commands produce
the manifest the MCP edge boots from and the composition the tenants run in.

## 2. Modules

| module | models | variables ↔ code |
|---|---|---|
| `TrustStore` | the audit tables and the retry sweep | `attestations` = `peer_attestations`; `pending` = `pending_attestations`; `sweep` = the locals of each running `drainPendingRetries` |
| `BeadCreate` (extends `TrustStore`) | the orchestrator, composed with the tables | `blobs`, `beads` = rows of BlobStore and of BeadStore/rsry; `req` = the locals of each run |
| `Disclosure` (extends `TrustStore`) | pages of a chain that changes | `reader` = the locals of a request and what its client has collected |
| `Lease` | gate, bundle cache, lease tables, notme | `cache` = `_cache` of each isolate; `seen`, `counter`, `alarm` = TrustStore; `ex` = the locals of each `gateAndVerify`; `ca`, `issued` = notme; `revoked` is history |
| `Vault` | the CredentialVault object | `pin`, `creds`, `bucket` = SQL; `slot` = `kekPromise`; `inflight`, `seeded` = memory; `env` = the deployment; `spent`, `derived` are history |
| `VaultProxy` | the route before the vault, both meters | `buckets` = `PRE_AUTH_BUCKETS` in insertion order; `windows` = `RATE_BUCKETS`; `calls` = locals; `receipts` = what was emitted |
| `Registry` | registry routes, BlobStore as they use it, registry tables | `sessions`, `open` = the session objects and the keys of each isolate's Map; `blobs`, `members`, `tags` = the stores; `req` = the locals of each handler |
| `WorkerdStore`, `BlobPromise` | the blob and ref tables, statement by statement; what their callers may rely on | `rows`, `chunks`, `refs` = SQL; `put`, `writer` = locals |
| `Manifest` | validation of a manifest, names and claims of tools | operators only |
| `McpProxy` (extends `Manifest`), `McpRoute` (extends `McpProxy`) | the backends of an isolate with their upstreams; the `/mcp` route on top | `sid`, `handshake`, `down`, `derived`, `fresh` = fields of `McpProxyToolBackend`; `roots` = `roots-state.ts`; `job`, `req` = asynchronous functions under way; `minted`, `live` = the upstream |
| `Receipts` | signing and verifying of receipts and streams | `req` = the locals of a request, its response and its peer's verdict; `epoch` = the authority |
| `Archive` | receipts, epochs, alarm, auditor | `receipts`, `bundle` = SQL; `alarm`, `live` = the object; `lastUse`, `due`, `signed` are history |
| `Topology`, `Compose` (extends it) | declarations, their shapes and their checks; containers and dispatch | `cluster` = the files; `deployed` = what runs |
| `Lattice` | the matchmaker, a step of its stack, an edge or a step up a circle at a time | `links`, `stack`, `visit`, `parent`, `node`, `at`, `path` = its locals |
| `Resolve` (extends `Manifest`), `Workspace` (extends `Resolve`, `Compose`) | descriptors and what is made of them; the commands on a workspace | `toml`, `lock`, `files`, `built` = files; `store`, `running` = the container runtime; `jobs` = processes; `seen`, `halves` are history (what resolutions knew of images; who has generated since the generated files were last those of one generation) |
| `Confinement` | documents, meet and the points that apply it | `held` = the document of a point; `applied` is history |
| `Harness` | two or more launches in one checkout | `files`, `procs` = the operating system; `pc`, `plan`, `cert`, `due` = the launchers |
| `MC...` | instances for TLC | constants, bounds, symmetry |
| `...Proofs` | theorems about the module of that name; `RecordsProofs` about `Disclosure`, `Receipts`, `Archive` and `WorkerdStore`, `EgressProofs` about `VaultProxy`, `Harness` and `Confinement`, `ManifestProofs` about `McpProxy`, `McpRoute`, `Workspace` (with `Resolve` and `Manifest`), `Lattice` and `Compose` (with `Topology`) | inductive invariants, lemmas |

A step of a module is what the code does between two `await`s (between two
accesses to shared files, for a command); a call to another object is one step,
followed by a separate outcome "the reply was lost" where the code can tell the
difference. Every operator that models code keeps the name of the function as
far as TLA+ allows, and `PROJECT.json` (`map`) gives its lines. Definitions
introduced by "As if ..." or "Mutant:" stand for a plausible mistake in the
definition that follows them. They are not part of any specification;
`PROJECT.json` (`mutants`) says which property breaks under which.

What is data, and abstract: digests and hashes are injective functions, a
signature is the pair of its key and what it signs, a signed envelope is a
record of what the checks would find in it, a KEK is the configuration it is
derived from, a certificate's key is its epoch, paths, host names and tool
names are sequences of their parts. The wording of errors, headers and
generated files is left out; different refusals are one outcome where no
property tells them apart.

### Abstract specifications

* `TSSpec` of `TrustStore` lets any caller send any RPC with any claim about
  the head. The property `TSSpec` of `BeadCreate` says that every step of the
  pipeline is one of those, or leaves the audit tables alone; it is proved
  (`PipelineRefinesTrustStore`), so what is proved about `TSSpec` holds in the
  pipeline.
* `BlobPromise` says what BlobStore and RefStore promise: a digest is absent,
  torn or whole, an answered put leaves it whole for good, a ref moves only from
  the value its client has seen. `WorkerdStore` implements it under
  `Promise == INSTANCE BlobPromise WITH held <- ...` (property `PromiseKept`,
  model-checked and proved, `BlobPromiseKept`). `Registry` and `BeadCreate` use BlobStore as promised there.

## 3. Runs

All runs are with `tlc -config <cfg> <module>`. Deadlock is not checked in any
of them: the sets of requests, calls, commands and sweeps are finite and the
system rightly comes to rest when all have ended (or when the clock has reached
its bound). Where a run covers several parts that share no state, a variable
`part` of the MC module says which one a behaviour is about, and the others
stay as they are; the runs are checked with one instance and several questions
rather than the product of the parts.

| run | instance | shows |
|---|---|---|
| `bead_create_race` | 2 requests of 1 peer, both stores, 2 ids, 1 sweep | `AckedIsAccounted`, `EvidenceGrounded`, `BeadLinkIsRight`, and refinement of `TSSpec` |
| `lease` | 2 requests at a time and any number in a row, 1 isolate, skew 1, flight 1, retention 3; part *replay*: 2 envelopes that reuse one nonce, time to 5; part *rotation*: 5 deployments, 2 epochs, refresh 2 | `NoReplay`, `LedgerMatchesChain` against the alarm and slow requests; `AuthorityHolds` (`NoAnchorNoEntry`, `RevocationTakesEffect`) with overlapping fetches |
| `vault` | 3 calls of any kind, 1 peer, 4 deployments, in-flight cap 1, 1 tick, bucket of 8 | `KekHolds` (`SealedUnderPin`, `AlwaysDecrypts`, `WaitersHaveDerivation`), `InflightExact`, `BudgetBound`, `WaitersWake` |
| `registry` | 4 requests with a menu each, 2 isolates, 1 upload id, 2 repositories, 1 tag, cap of 2 bytes | `IndexServes` (`TagsServe`, `CreatedIsStored`, `PullNeverDangles`), `ServedWasPushedHere`, `SessionsBounded`, `ContentAddressed` |
| `records` | *pages*: 2 peers of which one has a queue, 2 contents, 2 sweeps, 2 rows, 1 reader, pages of 1 row; *receipts*: 2 requests, every deployment, 3 epochs; *archive* and *notices*: 1 receipt, 2 epochs, window 1, 3 days; *blobs*: values of 1, 2 and 3 chunks, 2 puts, 2 clients of 1 ref | `ChainLinked`, `TablesKept`, `PagesAreTheChain`; `ReceiptsHold`; `ArchiveHolds`; `AnsweredReadsBack`, `PromiseKept` |
| `mcp` | 2 requests of any kind, 2 peers, 3 manifests (a faulty upstream that downgrades, two groups of one upstream, an invalid one), 2 sessions, 1 restart | `CallsApart`, `EffectsExplained`, `ListedIsRoutable`, `Answered` |
| `vault_proxy` | 3 calls, 3 addresses of which the map holds 2, 2 peers, 4 deployments, 3 services, windows of 2 seconds | `Metered`, `CallsRecorded` |
| `cluster` | *declarations*: 2 documented clusters, all pairs of about 60 edits; *lattice*: all graphs of 4 inputs with up to 2 requirements each, and all offers of 2 inputs; *workspace*: one command at a time out of 3 budgets, 4 answers of a registry, 1 change from outside, a kill anywhere; *terminals*: two overlapping commands (two `add`, `add` with `resolve`, two `generate` with an `add` before or between), a kill anywhere | `DeclarationsHold`, `OrderHolds`, `PinsHold`, `GeneratedHold` |
| `harness` | *launches*: 2 launches with 3 and 4 requests; *documents*: 2 points, 5 documents | `LaunchesHold`, `SessionEnds`; `MeetHolds` |
| `bead_create_head_failure`, `registry_retry`, `receipt_time` | the smallest instance that shows it | violated: section 5 |

A property that is a conjunction of named parts says in its comment what the
parts have in common; each part is stated, with its own comment, beside it.

### Why the bounds are enough to be interesting

* `bead_create_race`: two requests read the same head; one must lose and be
  queued, and the sweep then races a third write. Both stores are in use, so
  an id chosen by rsry differs from the one chosen in step 0.
* `lease`: retention 3 is exactly `2 * MaxSkew + MaxFlight`; one less and
  `NoReplay` fails, so the bound in `LeaseAssumption` is tight. Time to 5 lets
  a delivery, the sweep of its nonce and the last admissible redelivery happen.
  In *rotation* there are two epochs and a window that closes, a cache entry
  that expires within the run, and a fetch slow enough to put back an older
  bundle; the ledger is not swept there (it has no part in what is asked).
  `denyWhenOff` is only varied where the gate is off, the only place it is read.
* `vault`: a bucket of 8 pays for a put (3) and a proxy (5), not for a third
  call; three calls are a writer, a waiter and one that comes after a failed
  derivation; the deployments are a developer's with its seed, one without a
  source, a tenant-scoped one and one whose source cannot be built.
* `registry`: a cap of 2 bytes makes one chunk fit, two fit exactly and three
  not; the menus let two repositories try to feed one session, two manifests
  fight for one tag, one content arrive under two digests, and a pull run
  beside each. Isolates are interchangeable (symmetry); requests are not, since
  each has its own menu.
* `records`: `FewRows` bounds the chains to two rows in all and gives a queue to
  one peer, so that there is a chain of two pages and another peer to show a
  cursor of; two sweeps with batches of one row claim the same row one after the
  other and together. `InOrder` makes a certain request the first to begin (they
  are alike). Two rotations let the key change before and after the one retry of
  the signer, and once more before the audit. Notices and receipts are looked at
  in separate behaviours (`OneNotice`, `NoNotice`): no step reads both. Values of
  one, two and three chunks are the one-row case, the exact case and the case
  with a short last chunk.
* `mcp`: two sessions and one restart are a session, its loss and its successor;
  two calls share a handshake, overtake `notifications/initialized`, and lose the
  session together.
* `vault_proxy`: three addresses over a map of two make every request of the
  third evict; a bucket of 2 at a cost of 2 is empty after one request; two ticks
  let a window roll over.
* `cluster`: pairs of edits are where a declaration that each program reads in
  its own way arises; four inputs are the least for a node that is pushed twice
  with different parents before it is taken off the stack. Two commands overlap
  where both may write a file the other has open, or files that belong together
  (*terminals*: two generations of different `cluster.toml`s leave a mixture, and
  one that runs alone mends it); the longer sequences of commands are used one at
  a time, see section 6.
* `harness`: two launches, one of them from the other door. `CompanionsStay`
  bounds companions, which nobody listens to, to go with their session only.

### Fairness

* `Vault` (`WaitersWake`): weak fairness of "the derivation under way settles"
  (the code tries three times at most and every attempt is a fetch the platform
  ends) and of the work left to a call once the KEK is there (decryption and SQL
  in the same object, no outside party). Nothing is assumed of clients,
  upstreams, the clock or the operator.
* `McpRoute` (`Answered`): weak fairness of "some fetch settles and the event loop
  runs what it resolves". Requests are finitely many and each has finitely many
  such steps, so fairness of the whole is enough. Nothing is assumed of callers,
  of the upstream's restarts or of the clock; a fetch that fails has settled.
* `Harness` (`SessionEnds`): weak fairness of `Shutdown` alone, which Node runs
  when the exit of a child has called it. Children may live for ever.

## 4. Proofs

`tlapm <module>` checks each module below to the last leaf. Theorems hold for
every value of the constants that satisfies the named assumption of the module.

| module | assumption | inductive invariant | theorems |
|---|---|---|---|
| `TrustStoreProofs` | `TrustStoreAssumption`: NULLs are not values, the bounds are positive | `TSTypeOK`, `SafeInv` = `ChainLinked`, `HeadExists`, `QueueHasKeyOnce`, `SweepIsRight` | `TSChainLinked`, `TSTablesKept` (from `TSAppendOnly`, `TSDroppedOnlyIfAttested`, `TSAttemptsNeverReset`) |
| `BeadCreateProofs` | and `BeadCreateAssumption`: an injective digest | `BaseInv`, `GroundInv` = `ReqGrounded`, `SweepGrounded`, `TablesGrounded` | `PipelineTypes`, `PipelineRefinesTrustStore`, `PipelineEvidenceGrounded`, `PipelineBeadLinkIsRight`, `PipelineAckedIsAccounted` |
| `LeaseProofs` | `LeaseAssumption`: `Retention >= 2 * MaxSkew + MaxFlight` | `ExecInv`, `LedgerInv`; `RevInv` = `CaInv`, `IssuedInv`, `CacheInv`, `HeldInv`; `AnchorInv` | `LeaseTypes`, `LeaseNoReplay`, `LeaseLedgerMatchesChain`, `LeaseAuthorityHolds` (from `LeaseRevocationTakesEffect`, `LeaseNoAnchorNoEntry`) |
| `VaultProofs` | `VaultAssumption`: finitely many calls, disjoint kinds of specs | `BudgetInv`; `KekInv` with `HeldUnderPin`, `DerivedUnderPin`, `NotRejected` | `VaultTypes`, `VaultKekHolds` (from `VaultSealedUnderPin`, `VaultAlwaysDecrypts`, `VaultWaitersHaveDerivation`), `VaultInflightExact`, `VaultBudgetBound` |
| `RegistryProofs` | `RegistryAssumption`: injective hashes with disjoint ranges | `BaseInv`, then `IndexInv`, then `OwnInv` | `RegistryTypes`, `RegistryIndexServes` (from `RegistryTagsServe`, `RegistryCreatedIsStored`, `RegistryPullNeverDangles`), `RegistrySessionsBounded`, `RegistryContentAddressed`, `RegistryServedWasPushedHere` |
| `RecordsProofs`, archive | `ArchiveAssumption`: `Null` is none of the values | `AInv` = `ATypeOK`, `RetiredAfterUse`, `DueInWindow`, `AuditWindow`, `NoticesGrounded` | `ArchiveIsReliable` |
| receipts | `ReceiptsAssumption`: clocks and epochs are naturals, a local key has an epoch | `RInv`: of every request its types, what it holds of the authority, what its stream has hashed, what its peer accepted | `ReceiptsAreGenuine` |
| disclosure | `TrustStoreAssumption`, `DisclosureAssumption`: pages have a row | `DInv` = `SafeInv` and, of every reader, that its rows are the chain from 1 to where its cursor goes on | `DisclosurePagesAreTheChain` |
| blobs and refs | `WorkerdAssumption`: chunks have a byte, values are finite sequences, "no digest" is none | `WInv` = `WTypes`, `ChunksFit`, an answered put is `Complete` | `BlobAnsweredReadsBack`, `BlobPromiseKept` |
| all four, as the run has them | all of these | `AInv`, `TSTypeOK`, `SafeInv`, `RInv` | `RecordsTypes` |
| `EgressProofs`, proxy | `VaultProxyAssumption`: a request costs no more than a bucket holds, the map holds at least what one eviction takes | `ProxyInv` = `RecordInv`, `BudgetInv`, `WindowInv` | `ProxyCallsRecorded`, `ProxyMetered` |
| harness | `HarnessAssumption`: no companion service is called `router`, `shim` or `confined` | `HInv` = `HTypes`, `FilesInv`, `ProcsInv`, `AloneInv` (`StartsAlone`, `RunsAlone`) | `LaunchesAreSound` |
| confinement | `ConfinementAssumption`: documents are as the schema has them, with one entry for a socket, and what is asked about tells their entries apart | `ConfInv`: what lies below a point's document is what lies below all it was told of, and the document is canonical | `ConfinementMeetHolds` |
| `ManifestProofs`, edge | `McpAssumption`: prefixes and catalogs are names, a request is not a refresh; for the last theorem also `AllReachable`, see below | `McpInv` = `BackInv` (`JobInv`, `UpInv`), `CallInv`; `ListedInv` | `McpCallsApart`, `McpEffectsExplained`, `McpListedIsRoutable` |
| workspace | `WorkspaceAssumption`: documents, bundles, shells, specs and answers are as their schemas have them | `WorkInv` = the types of the files, `LockOK`, `StoreOK`, `RunOK`, `CommandInv` of every command (`ResolveInv` with `Along` and `Probing`) | `WorkspacePinsHold` |
| generated files | `WorkspaceAssumption` | `GenInv` = `WriteInv`, `BuiltInv`, beside `WorkInv` | `WorkspaceGeneratedHold` |
| matchmaker | `LatticeAssumption`: inputs and requirements are lists, "no node" is none | `LatInv` = `LatTypes`, `OnStack`, `Descends`, `Covered`, `Parented`, `DoneOrdered`, and `ClimbInv`, `CycleInv` once a circle is met | `LatticeOrderHolds` |
| declarations | `ComposeAssumption`: what is declared, and what an edit puts there, has the shape the schemas ask for; the name of a tenant put into the path of a socket makes it another path, and different ones for different tenants | `DeployInv`: the files have that shape, what is deployed also was accepted, and its containers are the emitted ones | `ComposeDeclarationsHold` |

The arguments, in a sentence each:

* **Chain.** `ChainLinked` alone is not inductive: that the highest row is
  *some* row (`HeadExists`) is needed to know that the compared head is the row
  with the highest seq. The queue theorems need that a key occurs once
  (`QueueHasKeyOnce`) and that a sweep that believes it wrote is right
  (`SweepIsRight`): attestations never go away, so that stays true while the
  sweep waits.
* **Pipeline.** Each action of a request is an RPC of `TSSpec` or leaves the
  tables alone. `EvidenceGrounded` is strengthened to requests past the row
  write and to the keys a sweep holds, which it will write later; the row of a
  request past the write has the id and the digest the request will attest,
  which gives `BeadLinkIsRight`.
* **Replay.** A request under way holds a clock at most `MaxFlight` old
  (`InFlight`) and, once verified, an envelope within the skew of that clock
  (`RpcIsVerified`). Two acceptances of one envelope are then at most
  `2 * MaxSkew` apart by their clocks, and the row of the first is kept for
  `Retention` beyond its clock. The code keeps rows for 60 minutes and allows a
  skew of one minute, so the assumption amounts to: no request takes longer
  than 58 minutes from its arrival to its write.
* **Authority.** Every bundle was true when it was signed (`Honest`), and a
  cache entry is stamped with the clock of a request made *before* the fetch,
  so an entry that is put back late also expires early. `Refresh` plus the lag
  of the transport bounds the exposure. Without a root and without a dev master
  no request gets past the bundle (`AnchorInv`), so no counter moves.
* **KEK.** The pin outlives deployments, so "rows are under the pin" is
  inductive only together with: what a call holds is under the pin, and while a
  derivation is under way or done the pin is the deployed configuration.
* **Budget.** `BudgetInv` relates tokens, time of the last refill and what was
  spent; the bound follows by arithmetic.
* **Registry.** Bytes before row before tag: a handler past a store step has
  that store's record (`IndexInv`). For `ServedWasPushedHere`, sessions are fed
  by one repository (`Fed`), a stored blob is the content its digest names
  (`BlobsMatch`), and every membership row has the request that delivered it
  (`RowsDelivered`).
* **Archive.** A row says an epoch was retired no earlier than its last use
  (`RetiredAfterUse`), so what the prune takes for expired is out of the window
  of everything still due; a notice that verifies for its epoch is one the next
  key signed (`NoticesGrounded`), whoever attached it.
* **Receipts.** A request's facts name an epoch the authority has had, and a
  signature is kept only where key and epoch fit, in the first attempt and in
  the one retry. What the running hash of a stream covers is what was read of
  it; the close event is made from that, so whatever is spliced in or cut off
  afterwards no longer fits.
* **Pages.** A chain has no holes: its rows are numbered from 1 to their number
  (`ChainLinked` and the finiteness of the table give this by counting). So the
  page that begins at seq *n* begins with row *n*, rows that arrive later come
  after all that were read, and the cursor that names the last row plus one
  continues exactly there.
* **Blobs.** Whatever interleaves and fails, the chunk rows of a digest are its
  value's pieces from the first to some piece, since a put inserts them in order
  and an existing row is left as it is. That joining all pieces gives the value is
  an induction over data, which the library's theorems do not give here; it is
  proved by a least counterexample over the number of pieces joined. In the
  refinement a put that inserted its first piece and failed is the torn state, and
  a put that finishes is the step of the promise.
* **Meters.** For a bucket, what it has given plus what it has left is at most
  its capacity plus the refill since it was made (`BudgetInv`), which an eviction
  does not disturb, because bucket and account begin again together. A window
  counts what passed in it, and any span of its length meets two windows at most.
  That the hint is right needs that it rounds up.
* **Records of calls.** Between the gate and the record a call is in one of the
  stages that end with exactly one receipt, also when the upstream throws
  (`RecordInv`).
* **MCP.** A handshake is started in the same turn in which the first waiter
  appears, and whoever resets a session leaves the handshake of those who wait.
  The stage of a call (first attempt, after the downgrade, after the new session)
  bounds the executions before it. The route of a name does not depend on what a
  refresh caches where claims are reachable.
* **Workspace.** What resolutions knew of images (`seen`) never shrinks, so what a
  lockfile, a pull or the container runtime was pinned by stays known while tags
  move and files change. A resolution has rows for the inputs it has done and the
  others still to do (`Along`); where one has failed no lockfile is written, so a
  lockfile has a row for every input. Two `add` that have the lockfile open leave
  a mixture that counts as torn; a file that was replaced is no longer the one its
  writer has open. Rows of a torn file are some beginning of rows of one
  resolution, or of two, each pinned, and that is enough for what runs.
* **Generated files.** That the files agree is not inductive: while one generation
  writes they do not. Who generates alone (`halves = {p}`) has, of every file, either
  the file still to write or the file as it would write it (`Written`), because
  `generate` compares before it writes and no one else touches them; so they are
  of one `cluster.toml` when it ends. Where somebody else joins or a kill leaves
  them, `halves` stays until one has run alone. The build looks at *some*
  pair of backends with one prefix, boot at every pair: that the first two of
  them are looked at together is what makes the build the stricter. For the
  groups, the loop of the overlay is followed (a function from the rows done to
  what it has then, shown to exist and to be unique by a least exception): a row
  keeps its name only as the first to have it, so no two are given one name, and
  only a row of its name could replace it.
* **Matchmaker.** A place of the stack is *open* when its node is in progress and
  was put there last; a node may be there several times. Everything above an open
  place comes before its node in every order there could be (`Descends`), what its
  node needs is done or above it (`Covered`), and parents lead from one open place
  to the next below (`Parented`), although they are overwritten: so an edge to a
  node in progress refutes every order, and the climb from parent to parent meets
  it. What is done can be started in the order in which it was done
  (`DoneOrdered`), which is the other direction.
* **Declarations.** Nothing moves between the acceptance of a cluster and its
  start, so the invariant is simple; the work is in what acceptance means. In an
  accepted cluster every name of a bundle, a wire, a service and a tenant means one
  thing to all four programs (`NamesMean`, `RowsAre`, `ContainersAre`), and the
  parts of `DeclarationsHold` follow from that, each from the checks it rests on.
* **Launches.** Every process belongs to one launch and holds one port
  (`Apart`), every file names who wrote it. The confined process compares what it
  reads with the certificate's commitment, so foreign documents make it exit. That
  a session finds its *own* router is true only of launches that had the checkout
  to themselves: `StartsAlone` and `RunsAlone` carry this from the check of the
  ports to the end.
* **Confinement.** A document is described by all that lies *below* it: every
  grant, pattern, port, socket and source it covers. What contains one path is a
  chain (`CoversOrder`, `HostOrder`), so the meet is the intersection of what lies
  below (`MeetIs`); a finite set has greatest entries, so leaving out the subsumed
  ones loses nothing, and what is left is determined by what lies below
  (`Determined`). Order and repetition therefore do not matter, to the letter.
  That `leq` is the inclusion of what is *admitted* needs a file or host in each
  entry that lies in no other but those that cover it.

**`AllReachable`** is not a property of every manifest the router boots from:
`Validate` lets a backend claim names its own prefix hides, and such a name is
listed and cannot be called (section 5). It says that the backends of the
deployed manifests claim no such name (`ClaimsReachable`); TLC evaluates it for
those of the `mcp` run (`MCManifestsAssumption`).

**`NamesAreApart`** is the condition under which `GeneratedHold` says that no
group is lost: inputs have different names, and no group is called as another
one is when it is qualified by its input. The build does not check it (section 5,
*Workspace*): without it a later row is overlaid on an earlier one. TLC's
documents satisfy it while two inputs have a group of one name, the case for
which names are qualified at all.

**Only model-checked:** the liveness properties (`WaitersWake`, `Answered`,
`SessionEnds`), since fairness and ENABLED are beyond the prover, and what the
three violation runs say. Every invariant and every action property of the
passing runs is also proved.

## 5. What the code does otherwise than it says

Each of these has a run that TLC ends with a counterexample, and an entry with
lines and quotations in `PROJECT.json` (`findings`).

| run | what happens |
|---|---|
| `bead_create_head_failure` | `lastAttestationForPeer` is awaited outside the `try`: when it throws, the request fails with the row committed and nothing queued, although "a TrustStore failure does NOT throw" |
| `registry_retry` | a refused finalize leaves its trailing bytes in the session, so its correction is refused too |
| `receipt_time` | the receipt's `request_hash` is taken with the router's clock, the lease was signed and verified with the caller's: the caller refuses the honest receipt unless both are of one millisecond |

Seen while reading, without a run of its own:

* **Audit trail.** The sweep writes without asking `findAttestationByContent`,
  although `src/storage/peer-attestations.ts:326` says the pump does, so two
  overlapping sweeps or a lost reply attest a content twice. `created_at` of the
  row is the database's clock at the INSERT (`src/beads.ts:208`), the digest
  covers the clock of step 0 (`bead-create-orchestrator.ts:190`). An attestation
  that lands through the sweep has no `bead_id`; a `bead_create` that is retried
  after a lost reply writes a second row; nothing calls `drainPendingRetries`
  on a schedule.
* **Disclosure.** The chain and the queue are read in two calls: a row that a
  sweep moves in between is in both or in neither, and a peer with only that row
  is answered 404 although the comment says GAP means no rows in either table.
* **Lease.** The age of a CA bundle (`issuedAt`) is never compared with the
  clock, which is why `TransportLag` is a constant of `Lease`.
* **Vault.** The pin is written before the source is built
  (`src/vault-store.ts:651`): a first call without `VAULT_KEK_SOURCE` pins the
  empty spec, and the deployment that sets it is refused as "previously
  bootstrapped against a different spec" (`:734`). The playbook of `:751` deletes
  `kek_source` and leaves `kek_tenant_scoped`, on which the plain INSERT at `:722`
  fails. Of two proxies that find the vault unseeded only the first waits for the
  seed. A clock that moves backwards earns a bucket the difference twice
  (`vault/src/rate-bucket.ts:37`).
* **Vault proxy.** At its cap the pre-auth budget may drop the caller's own
  bucket (`pre-auth-budget.ts:96` against the comment at `:90`), in order of
  insertion, busy ones included. The "60s rolling" window is a fixed one, hence
  `TwiceTheLimit`. Refusals at the route, and statuses other than the listed
  ones, carry no stamped `Server` header. `proxyToUpstream` strips
  `x-interlace-*` only, the comment says all lease headers.
* **Registry.** `gateWrite` reads a clone of the body before the size is checked;
  a PATCH may be answered 202 after its session was dropped; sessions never
  expire.
* **MCP.** A restart of the upstream during the retry is visible to the caller
  (`mcp-proxy.ts:800` against `:797`); `_meta` is still sent on the retry after a
  downgrade; one 5xx downgrades `auto` for good; a call that fails after
  another's downgrade is not retried where sessions are off; `ttlMs` of
  `tools/list` ignores the age of the cache; `setRoots([])` replaces although
  `captureRoots` calls it a no-op; bare claims with a prefix and an empty
  `stripPrefix` advertise a name that cannot be routed, and `validate` does not
  refuse such a manifest (the shipped ones have none); `src/manifest/types.ts:380`
  says claimed names are advertised "verbatim (no handlesPrefix add)",
  `mcp-proxy.ts:323` adds the prefix; the default protocol of
  `runtime.ts` is described in two ways.
* **Receipts.** The close event of a broken stream says `ok`; a new `TextDecoder`
  per chunk loses a character that is split over two; `DelegatedReceiptSigner`
  is made per request, so its facts are not cached per isolate;
  `RECEIPT_EMIT_MAX_AGE_MS` is unused, and `wrapSseWithReceiptStream` has no
  route.
* **Archive.** `weakEtag` ignores notices; `upsertCaBundle` without a notice
  erases an attached one; `upsertReceipt` is called a no-op but renews
  `observed_at`; a failed `setAlarm` ends the prunes until the object is
  constructed again.
* **Declarations.** Inv 4 and 5 compare binding names with wires, not their
  targets; a worker of no bundle is only warned about; hypervisor bundles are
  promised a pass on Inv 2 they do not get; the second tenant form of
  `docs/reference/tenancy-model.md:96` cannot pass
  `lint-bundle-isolation.mjs:643` once inputs are declared; names joined with
  `-` can coincide; an image of blanks silences Inv 10 though the emitter trims
  it away; a shared binding on a `perTenant` bundle leads to a socket on which
  nobody listens.
* **Workspace.** The second image of an input is left without a digest
  (`resolve-inputs.mjs:272` against `:263`); `artifacts pull` passes over
  `ociBundles` and says the cluster can boot offline; removing the last input
  leaves the lockfile; the probe's "best-effort" is fail-closed; `add` drops
  fields of a spec and writes two files one after the other, in place; two commands
  at once can lose an added input or leave the rows of both in one file; a group
  named `<input>/<name>` can be clobbered; `udsForward` rows are refused by the
  build.
* **Harness.** Minting and `.dev.vars` come before `assertPortsFree`, which says
  "before anything binds or is minted" (`launch.mjs:1143`), so a refusal leaves
  both behind; `.harness-scratch` is one directory for all runs and is never
  removed; `cloister run` has no signal handler, though the comment at `:1236`
  counts on one; two launches share paths, so the shutdown of one removes the
  other's files; exits before the handlers are attached are not heard. With two
  entries for one socket path the meet is neither commutative nor idempotent.

## 6. Not modelled, and why

The full list is in `PROJECT.json`. In short: documents computed from
configuration, the router and the wire formats have no state and no
interleaving; generated code and schemas have no behaviour; bundle tokens are
checks over one token with a replay cache the caller would own; the remaining
commands, lints and emitters write text; host runtime and Go types are separate
programs. `BeadStore` is modelled as far as `bead_create` uses it; of the other
tool backends, which names they handle and that a call ends; of the manifest's
build, not the overlay of tool schemas. URL canonicalization of protocol 0.2.0 is
not wired in. Two workspace commands at once are in the run as far as both write
`cluster.toml`, the lockfile or the generated files; `PinsHold` and
`GeneratedHold` are proved for any number of terminals.

Assumed of the platform and not modelled: a Durable Object is one instance at
a time; SQLite statements and transactions are atomic; clocks of isolates and
objects agree and do not run backwards; `rename` replaces a file at once.

## 7. Plan

Done, in this order: audit tables, pipeline and refinement, lease gate, vault,
registry, with their proofs; MCP edge, receipts, disclosure, archive, blob tables
and their promise, vault proxy; declarations, matchmaker, workspace, confinement,
harness; proofs of the archive, receipts, disclosure, the blob tables and their
promise, vault proxy, harness, confinement, the MCP edge, the pins and the
generated files of a workspace, the matchmaker and the declarations. Left, most
important first:

1. **Composition** of `Registry` with `WorkerdStore` in place of the promise, and
   of `Receipts` with `Archive` (a receipt that is archived, pruned and audited).
2. **BeadStore**: the operations other than `create`.
3. **Names of groups**: what a check of `NamesAreApart` in the build would refuse.
