--------------------------- MODULE ManifestProofs ---------------------------
(***************************************************************************)
(* The two sides of the router's manifest.  The /mcp edge that serves it:  *)
(* calls are kept apart, their effects upstream are explained, and what is *)
(* listed can be called, for any number of requests, peers and backends,   *)
(* every valid manifest, any catalogs, and upstreams that fail and restart *)
(* as they like.  The workspace it is built in: a lockfile is whole and    *)
(* images run as pinned, for any number of terminals and any declarations. *)
(* The matchmaker of its inputs: it finds a circle of requirements iff     *)
(* there is one, for any inputs and whatever they provide and require. The *)
(* cluster's declarations: what is linted and deployed keeps tenants,      *)
(* trust and authority where they were declared, for any declarations. And *)
(* what is generated from a workspace: the files agree with one another,   *)
(* the router boots with the manifest, and every tool in it can be called. *)
(***************************************************************************)
EXTENDS McpRoute, Workspace, Lattice, SequenceTheorems, FiniteSetTheorems, WellFoundedInduction,
        TLAPS

-----------------------------------------------------------------------------
(***************************************************************************)
(* Constants                                                               *)
(***************************************************************************)

\* The facts about the constants, one by one.
LEMMA Constants ==
  /\ Anonymous \in Peers
  /\ MaxBackends \in Nat /\ MaxSessions \in Nat /\ MaxRestarts \in Nat
  /\ \A d \in Manifests : d \in Seq(ToSet(d)) /\ Len(d) \in Backends
  /\ \A d \in Manifests : \A b \in ToSet(d) : b.session \in BOOLEAN /\ b.dynamic \in BOOLEAN
  /\ \A d \in Manifests : \A b \in ToSet(d) :
       b.prefix \in Seq(STRING) /\ b.asserted \subseteq Seq(STRING)
  /\ \A c \in Catalogs : c \subseteq Seq(STRING)
<1>1. MaxBackends \in Nat /\ MaxSessions \in Nat /\ MaxRestarts \in Nat
  BY McpAssumption
<1>2. \A d \in Manifests : d \in Seq(ToSet(d)) /\ Len(d) \in Backends
  BY McpAssumption
<1>3. \A d \in Manifests : \A b \in ToSet(d) : b.session \in BOOLEAN /\ b.dynamic \in BOOLEAN
  BY McpAssumption
<1>4. \A d \in Manifests : \A b \in ToSet(d) :
        b.prefix \in Seq(STRING) /\ b.asserted \subseteq Seq(STRING)
  BY McpAssumption
<1>5. (\A c \in Catalogs : c \subseteq Seq(STRING)) /\ Anonymous \in Peers
  BY McpAssumption
<1> QED
  BY <1>1, <1>2, <1>3, <1>4, <1>5

\* A manifest's backends are among the backends.
LEMMA Entries ==
  ASSUME NEW d \in Manifests
  PROVE  /\ DOMAIN d \subseteq Backends /\ DOMAIN d \subseteq Nat \ {0}
         /\ \A i \in DOMAIN d : d[i] \in ToSet(d)
         /\ \A i \in DOMAIN d : d[i].session \in BOOLEAN /\ d[i].dynamic \in BOOLEAN
<1>1. DOMAIN d = 1..Len(d) /\ Len(d) \in 1..MaxBackends /\ MaxBackends \in Nat
  BY Constants DEF Backends
<1>2. \A i \in DOMAIN d : d[i] \in ToSet(d)
  BY DEF ToSet
<1> QED
  BY <1>1, <1>2, Constants DEF Backends

\* The jobs of requests, refreshes and notifications are apart.
LEMMA JobsApart ==
  /\ \A r \in Reqs, i \in Backends : r # Refresh(i) /\ r # Note(i)
  /\ \A i, k \in Backends : Refresh(i) # Note(k)
  /\ \A i, k \in Backends : Refresh(i) = Refresh(k) => i = k
  /\ \A i, k \in Backends : Note(i) = Note(k) => i = k
  /\ \A i \in Backends : Refresh(i) \in Jobs /\ Note(i) \in Jobs
  /\ \A i \in Backends : Refresh(i)[2] = i /\ Note(i)[2] = i
  /\ Reqs \subseteq Jobs
<1>1. \A r \in Reqs, i \in Backends : r # Refresh(i) /\ r # Note(i)
  BY McpAssumption
<1>2. /\ \A i, k \in Backends : Refresh(i) # Note(k)
      /\ \A i, k \in Backends : Refresh(i) = Refresh(k) => i = k
      /\ \A i, k \in Backends : Note(i) = Note(k) => i = k
      /\ \A i \in Backends : Refresh(i)[2] = i /\ Note(i)[2] = i
  BY DEF Refresh, Note
<1>3. Reqs \subseteq Jobs /\ \A i \in Backends : Refresh(i) \in Jobs /\ Note(i) \in Jobs
  BY DEF Jobs
<1> QED
  BY <1>1, <1>2, <1>3

\* A set of naturals that is not empty has a least element.
LEMMA LeastOf ==
  ASSUME NEW S, S \subseteq Nat, S # {}
  PROVE  \E a \in S : \A j \in S : a <= j
<1>1. \E a \in S : \A j \in S : ~(<<j, a>> \in OpToRel(<, Nat))
  BY NatLessThanWellFounded, WFMin
<1>2. PICK a \in S : \A j \in S : ~(<<j, a>> \in OpToRel(<, Nat))
  BY <1>1
<1>3. \A j \in S : ~(j < a)
  BY <1>2 DEF OpToRel
<1> QED
  BY <1>3

-----------------------------------------------------------------------------
(***************************************************************************)
(* Routing.  Only a dynamic proxy ever derives tools, and a valid manifest *)
(* gives it a prefix or claims: so the route of a name is the same as with *)
(* nothing derived, and no refresh can change it.                          *)
(***************************************************************************)
NothingDerived == [i \in Backends |-> {}]
Route(name) == BackendFor(manifest, NothingDerived, name)

Upstreams == UNION Catalogs

DerivedInv ==
  /\ manifest \in Manifests /\ Validate(manifest)
  /\ derived \in [Backends -> SUBSET Upstreams]
  /\ \A i \in Backends : derived[i] # {} =>
        /\ i \in DOMAIN manifest /\ manifest[i].kind = "proxy" /\ manifest[i].dynamic
        /\ \A u \in derived[i] : ClaimsUpstreamName(manifest[i], u)

\* What a backend handles does not depend on what it derived.
LEMMA HandlesStable ==
  ASSUME DerivedInv, NEW i \in DOMAIN manifest, NEW name
  PROVE  Handles(manifest[i], derived[i], name) <=> Handles(manifest[i], {}, name)
<1>1. i \in Backends
  BY Entries DEF DerivedInv
<1>2. CASE derived[i] = {}
  BY <1>2
<1>3. CASE derived[i] # {}
  <2>1. manifest[i].dynamic /\ DynamicIsRouted(manifest[i])
    BY <1>1, <1>3 DEF DerivedInv, Validate
  <2>2. manifest[i].prefix # <<>> \/ manifest[i].claims # {}
    BY <2>1 DEF DynamicIsRouted
  <2> QED
    BY <2>2 DEF Handles, HandlesProxy
<1> QED
  BY <1>2, <1>3

\* The first backend of those that are able.
FirstOf(able) == IF able = {} THEN 0 ELSE CHOOSE i \in able : \A j \in able : i <= j

\* So the backend of a name is its route.
LEMMA RouteStable ==
  ASSUME DerivedInv, NEW name
  PROVE  BackendFor(manifest, derived, name) = Route(name)
<1>1. \A i \in DOMAIN manifest : NothingDerived[i] = {}
  BY Entries DEF DerivedInv, NothingDerived
<1>2. {i \in DOMAIN manifest : Handles(manifest[i], derived[i], name)}
        = {i \in DOMAIN manifest : Handles(manifest[i], NothingDerived[i], name)}
  <2>1. ASSUME NEW i \in DOMAIN manifest
        PROVE  Handles(manifest[i], derived[i], name) <=> Handles(manifest[i], NothingDerived[i], name)
    <3>1. NothingDerived[i] = {}
      BY <1>1
    <3> QED
      BY <3>1, HandlesStable
  <2> QED
    BY <2>1
<1>3. /\ BackendFor(manifest, derived, name)
           = FirstOf({i \in DOMAIN manifest : Handles(manifest[i], derived[i], name)})
      /\ Route(name) = FirstOf({i \in DOMAIN manifest : Handles(manifest[i], NothingDerived[i], name)})
  BY DEF BackendFor, Route, FirstOf
<1> QED
  BY <1>2, <1>3

\* A route is a backend that handles the name, and is there if any does.
LEMMA RouteHandles ==
  ASSUME manifest \in Manifests, NEW name
  PROVE  /\ Route(name) \in DOMAIN manifest \cup {0}
         /\ (\E i \in DOMAIN manifest : Handles(manifest[i], {}, name)) => Route(name) # 0
<1> DEFINE able == {i \in DOMAIN manifest : Handles(manifest[i], NothingDerived[i], name)}
<1>1. Route(name) = IF able = {} THEN 0 ELSE CHOOSE i \in able : \A j \in able : i <= j
  BY DEF Route, BackendFor
<1>2. able \subseteq DOMAIN manifest /\ able \subseteq Nat
  BY Entries
<1>3. \A i \in DOMAIN manifest : NothingDerived[i] = {}
  BY Entries DEF NothingDerived
<1>4. (\E i \in DOMAIN manifest : Handles(manifest[i], {}, name)) => able # {}
  BY <1>3
<1> HIDE DEF able
<1>5. CASE able = {}
  BY <1>1, <1>4, <1>5
<1>6. CASE able # {}
  <2>1. \E i \in able : \A j \in able : i <= j
    BY <1>2, <1>6, LeastOf
  <2>2. Route(name) \in able
    BY <2>1, <1>1, <1>6
  <2>3. Route(name) \in DOMAIN manifest /\ Route(name) # 0
    BY <2>2, <1>2, Entries
  <2> QED
    BY <2>3
<1> QED
  BY <1>5, <1>6

\* A prefix put before a name is a prefix of it.
LEMMA PrefixOfConcat ==
  ASSUME NEW p \in Seq(STRING), NEW u \in Seq(STRING)
  PROVE  IsPrefix(p, p \o u) /\ DropPrefix(p, p \o u) = u
<1>1. /\ p \o u \in Seq(STRING) /\ Len(p \o u) = Len(p) + Len(u)
      /\ \A k \in 1..Len(p) : (p \o u)[k] = p[k]
      /\ \A k \in 1..Len(u) : (p \o u)[k + Len(p)] = u[k]
  OBVIOUS
<1>2. IsPrefix(p, p \o u)
  BY <1>1 DEF IsPrefix
<1>3. DropPrefix(p, p \o u) = u
  BY <1>1 DEF DropPrefix
<1> QED
  BY <1>2, <1>3

\* What a backend offers it handles with nothing derived, if its claims are
\* reachable: listed tools stay routable.
LEMMA ToolsHandled ==
  ASSUME DerivedInv, NEW i \in DOMAIN manifest, ClaimsReachable(manifest[i]),
         NEW t \in Tools(manifest[i], derived[i])
  PROVE  Handles(manifest[i], {}, t)
<1> DEFINE b == manifest[i]
<1>1. /\ i \in Backends /\ b.prefix \in Seq(STRING) /\ derived[i] \subseteq Seq(STRING)
      /\ b.asserted \subseteq Seq(STRING)
  BY Entries, Constants DEF DerivedInv, Upstreams
<1>2. \A x \in b.asserted : IsPrefix(b.prefix, x)
  BY DEF DerivedInv, Validate
<1>3. CASE t \in b.asserted
  BY <1>2, <1>3 DEF Handles, HandlesProxy, HandlesStatic, ClaimsReachable
<1>4. CASE t \notin b.asserted
  <2>1. PICK u \in derived[i] : t = AdvertisedName(b, u)
    BY <1>4 DEF Tools
  <2>2. b.kind = "proxy" /\ b.dynamic /\ ClaimsUpstreamName(b, u)
    BY <1>1, <2>1 DEF DerivedInv
  <2>3. DynamicIsRouted(b)
    BY DEF DerivedInv, Validate
  <2>4. IsPrefix(b.prefix, b.prefix \o u) /\ DropPrefix(b.prefix, b.prefix \o u) = u
    BY <1>1, <2>1, PrefixOfConcat
  <2>5. IsPrefix(b.prefix, t)
    BY <2>1, <2>4 DEF AdvertisedName
  <2>6. CASE b.claims = {}
    BY <2>2, <2>3, <2>5, <2>6 DEF Handles, HandlesProxy, DynamicIsRouted
  <2>7. CASE b.claims # {}
    <3>1. u \in b.claims
      BY <2>2, <2>7 DEF ClaimsUpstreamName
    <3>2. CASE t = u
      BY <3>1, <3>2, <2>2, <2>7 DEF Handles, HandlesProxy
    <3>3. CASE t # u
      <4>1. t = b.prefix \o u /\ ~IsPrefix(b.prefix, u)
        BY <3>3, <2>1 DEF AdvertisedName
      <4>2. b.strip = b.prefix
        BY <4>1, <3>1, <2>2, <2>7 DEF ClaimsReachable
      <4>3. b.prefix # <<>>
        <5>1. <<>> \o u = u
          BY <1>1, <2>1
        <5> QED
          BY <5>1, <4>1, <3>3
      <4> QED
        BY <4>1, <4>2, <4>3, <3>1, <2>2, <2>4, <2>7 DEF Handles, HandlesProxy
    <3> QED
      BY <3>2, <3>3
  <2> QED
    BY <2>6, <2>7
<1> QED
  BY <1>3, <1>4

-----------------------------------------------------------------------------
(***************************************************************************)
(* Backends and their jobs.  Whoever waits for a session has a handshake   *)
(* to wait for, only a dynamic proxy is refreshed, and an upstream is told *)
(* that a session is initialized only once it opened one.                  *)
(***************************************************************************)
Stages == {"none", "initialize", "notify", "notified"}
Sessions == Sids \cup {NoSession}

BackTypes ==
  /\ DerivedInv
  /\ down \in [Backends -> BOOLEAN] /\ fresh \in [Backends -> BOOLEAN]
  /\ sid \in [Backends -> Sessions]
  /\ handshake \in [Backends -> Stages]
  /\ job \in [Jobs -> Job]
  /\ minted \in [Backends -> 0..MaxSessions] /\ live \in [Backends -> SUBSET Nat]

\* A job that is under way has a backend, and a handshake if it waits.
JobOK(jb, h) ==
  /\ jb.pc # "idle" => jb.be \in DOMAIN manifest
  /\ jb.pc = "session" => h[jb.be] # "none"

Refreshable(i) == manifest[i].kind = "proxy" /\ manifest[i].dynamic

JobInv ==
  /\ \A j \in Jobs : JobOK(job[j], handshake)
  /\ \A i \in Backends : job[Refresh(i)].pc # "idle" => Refreshable(i)

UpInv ==
  \A i \in Backends :
    /\ handshake[i] \in {"notify", "notified"} => minted[i] >= 1
    /\ live[i] \subseteq 1..minted[i]

BackInv == BackTypes /\ JobInv /\ UpInv

USE DEF Stages, Sessions

\* The manifest's backends again.
LEMMA Deployed ==
  ASSUME BackInv
  PROVE  /\ manifest \in Manifests /\ DOMAIN manifest \subseteq Backends
         /\ \A i \in DOMAIN manifest : manifest[i].session \in BOOLEAN
  BY Entries DEF BackInv, BackTypes, DerivedInv

\* A job that is over.
LEMMA NoJobOK ==
  /\ NoJob \in Job
  /\ NoJob.pc = "idle" /\ NoJob.step = "call" /\ NoJob.resp = "none" /\ NoJob.stage = 0
  BY DEF NoJob, Job, NoSession

\* A header is one of those that can be sent.
LEMMA Headers ==
  ASSUME NEW i, NEW d, NEW s \in Sessions
  PROVE  RequestHeaders(i, d, s) \in Sids \cup {NoSession, Sessionless}
  BY DEF RequestHeaders

\* A job that is posted is sent, without an answer, and else as it was.
LEMMA Posted ==
  ASSUME NEW jb \in Job, NEW d, NEW s \in Sessions
  PROVE  LET p == PostJson(jb, d, s)
         IN  /\ p \in Job /\ p.pc = "sent" /\ p.resp = "none"
             /\ p.be = jb.be /\ p.name = jb.name /\ p.peer = jb.peer
             /\ p.stage = jb.stage /\ p.step = jb.step
<1>1. RequestHeaders(jb.be, d, s) \in Sids \cup {NoSession, Sessionless}
  BY Headers
<1>2. PICK h \in Sids \cup {NoSession, Sessionless} : h = RequestHeaders(jb.be, d, s)
  BY <1>1
<1>3. PostJson(jb, d, s) = [jb EXCEPT !.pc = "sent", !.resp = "none", !.sent = h]
  BY <1>2 DEF PostJson
<1> QED
  BY <1>3 DEF Job

\* A job that waits is else as it was.
LEMMA Waits ==
  ASSUME NEW jb \in Job
  PROVE  LET p == [jb EXCEPT !.pc = "session"]
         IN  /\ p \in Job /\ p.pc = "session"
             /\ p.be = jb.be /\ p.name = jb.name /\ p.peer = jb.peer
             /\ p.stage = jb.stage /\ p.step = jb.step /\ p.resp = jb.resp
  BY DEF Job

\* A job that ends keeps its backend, its name and its peer.
LEMMA EndedOK ==
  ASSUME BackTypes, NEW j \in Jobs, NEW outcome \in {"stream", "ok", "error"}
  PROVE  LET p == Ended(j, outcome)
         IN  /\ p \in Job /\ p.pc = outcome
             /\ p.be = job[j].be /\ p.name = job[j].name /\ p.peer = job[j].peer
<1>1. job[j] \in Job
  BY DEF BackTypes
<1>2. Ended(j, outcome) = [NoJob EXCEPT !.pc = outcome, !.be = job[j].be, !.name = job[j].name,
                                        !.peer = job[j].peer]
  BY DEF Ended
<1> QED
  BY <1>1, <1>2, NoJobOK DEF Job

\* A refresh or a notification that ends is no job.
LEMMA EndedIdle == \A j \in Jobs : Ended(j, "idle") = NoJob
  BY DEF Ended

\* A step that changes one job, and begins a handshake if that job waits for
\* one.
LEMMA OneJob ==
  ASSUME BackInv, NEW j \in Jobs, NEW jb \in Job, job' = [job EXCEPT ![j] = jb],
         handshake' \in [Backends -> Stages],
         \A i \in Backends : \/ handshake'[i] = handshake[i]
                             \/ handshake[i] = "none" /\ handshake'[i] = "initialize",
         JobOK(jb, handshake'),
         \A i \in Backends : j = Refresh(i) /\ jb.pc # "idle" => Refreshable(i),
         down' \in [Backends -> BOOLEAN], sid' \in [Backends -> Sessions],
         fresh' \in [Backends -> BOOLEAN], DerivedInv',
         UNCHANGED <<manifest, minted, live>>
  PROVE  BackInv'
<1>1. BackTypes'
  BY DEF BackInv, BackTypes
<1>2. \A k \in Jobs : job'[k] = IF k = j THEN jb ELSE job[k]
  BY DEF BackInv, BackTypes
<1>3. ASSUME NEW k \in Jobs PROVE JobOK(job[k], handshake)'
  <2>1. CASE k = j
    BY <2>1, <1>2 DEF JobOK
  <2>2. CASE k # j
    <3>1. job'[k] = job[k] /\ JobOK(job[k], handshake)
      BY <2>2, <1>2 DEF BackInv, JobInv
    <3>2. job[k].pc = "session" => job[k].be \in Backends
      BY <3>1, Deployed DEF JobOK
    <3> QED
      BY <3>1, <3>2 DEF JobOK
  <2> QED
    BY <2>1, <2>2
<1>4. \A i \in Backends : job'[Refresh(i)].pc # "idle" => Refreshable(i)
  BY <1>2, JobsApart DEF BackInv, JobInv
<1>5. UpInv'
  BY DEF BackInv, UpInv
<1> QED
  BY <1>1, <1>3, <1>4, <1>5 DEF BackInv, JobInv, Refreshable

\* tryCall and tryFetch keep the backends.
LEMMA TryKeeps ==
  ASSUME BackInv, NEW j \in Jobs, NEW jb \in Job, jb.be \in DOMAIN manifest,
         NEW d \in BOOLEAN, NEW s \in Sessions, Try(j, jb, d, s),
         \A i \in Backends : j = Refresh(i) => Refreshable(i),
         UNCHANGED <<manifest, derived, fresh, minted, live>>
  PROVE  BackInv'
<1>1. jb.be \in Backends
  BY Deployed
<1>2. PICK wait \in BOOLEAN : wait = (NeedsSession(jb.be, d) /\ s = NoSession)
  BY DEF NeedsSession
<1>3. /\ job' = [job EXCEPT ![j] = IF wait THEN [jb EXCEPT !.pc = "session"] ELSE PostJson(jb, d, s)]
      /\ handshake' = IF wait /\ handshake[jb.be] = "none"
                      THEN [handshake EXCEPT ![jb.be] = "initialize"] ELSE handshake
      /\ down' = [down EXCEPT ![jb.be] = d] /\ sid' = [sid EXCEPT ![jb.be] = s]
  BY <1>2 DEF Try
<1>4. PICK nb : nb = IF wait THEN [jb EXCEPT !.pc = "session"] ELSE PostJson(jb, d, s)
  OBVIOUS
<1>5. nb \in Job /\ nb.be = jb.be /\ (nb.pc = "session" => wait) /\ nb.pc \in {"session", "sent"}
  BY <1>4, Posted, Waits
<1>6. handshake' \in [Backends -> Stages]
      /\ \A i \in Backends : \/ handshake'[i] = handshake[i]
                             \/ handshake[i] = "none" /\ handshake'[i] = "initialize"
  BY <1>1, <1>3 DEF BackInv, BackTypes
<1>7. wait => handshake'[jb.be] # "none"
  BY <1>1, <1>3 DEF BackInv, BackTypes
<1>8. JobOK(nb, handshake')
  BY <1>5, <1>7 DEF JobOK
<1>9. down' \in [Backends -> BOOLEAN] /\ sid' \in [Backends -> Sessions]
      /\ fresh' \in [Backends -> BOOLEAN]
  BY <1>1, <1>3 DEF BackInv, BackTypes
<1>10. DerivedInv'
  BY DEF BackInv, BackTypes, DerivedInv
<1>11. job' = [job EXCEPT ![j] = nb]
  BY <1>3, <1>4
<1> QED
  BY <1>5, <1>6, <1>8, <1>9, <1>10, <1>11, OneJob

\* A job that changes and begins no handshake keeps the backends.
LEMMA JobChanges ==
  ASSUME BackInv, NEW j \in Jobs, NEW jb \in Job, job' = [job EXCEPT ![j] = jb],
         jb.pc # "session", jb.pc # "idle" => jb.be \in DOMAIN manifest,
         \A i \in Backends : j = Refresh(i) /\ jb.pc # "idle" => Refreshable(i),
         UNCHANGED <<manifest, down, sid, handshake, derived, fresh, minted, live>>
  PROVE  BackInv'
<1>1. /\ handshake' \in [Backends -> Stages] /\ down' \in [Backends -> BOOLEAN]
      /\ sid' \in [Backends -> Sessions] /\ fresh' \in [Backends -> BOOLEAN]
  BY DEF BackInv, BackTypes
<1>2. DerivedInv'
  BY DEF BackInv, BackTypes, DerivedInv
<1>3. JobOK(jb, handshake')
  BY DEF JobOK
<1>4. \A i \in Backends : handshake'[i] = handshake[i]
  OBVIOUS
<1> QED
  BY <1>1, <1>2, <1>3, <1>4, OneJob

\* A step that changes no job but moves a handshake on.
LEMMA HandshakeMoves ==
  ASSUME BackInv, NEW i \in Backends, NEW to \in {"notify", "notified"},
         handshake[i] # "none", handshake' = [handshake EXCEPT ![i] = to],
         sid' \in [Backends -> Sessions],
         minted' \in [Backends -> 0..MaxSessions], live' \in [Backends -> SUBSET Nat],
         \A k \in Backends : minted'[k] >= minted[k] /\ live'[k] \subseteq 1..minted'[k],
         minted'[i] >= 1,
         UNCHANGED <<manifest, down, derived, fresh, job>>
  PROVE  BackInv'
<1>1. BackTypes'
  BY DEF BackInv, BackTypes, DerivedInv
<1>2. \A k \in Backends : handshake'[k] = IF k = i THEN to ELSE handshake[k]
  BY DEF BackInv, BackTypes
<1>3. ASSUME NEW j \in Jobs PROVE JobOK(job[j], handshake)'
  <2>1. JobOK(job[j], handshake) /\ (job[j].pc = "session" => job[j].be \in Backends)
    BY Deployed DEF BackInv, JobInv, JobOK
  <2> QED
    BY <2>1, <1>2 DEF JobOK
<1>4. UpInv'
  <2>3. 0..MaxSessions \subseteq Nat
    BY Constants
  <2>4. minted \in [Backends -> 0..MaxSessions]
    BY DEF BackInv, BackTypes
  <2>1. \A k \in Backends : minted[k] \in Nat /\ minted'[k] \in Nat
    BY <2>3, <2>4
  <2>2. ASSUME NEW k \in Backends, handshake'[k] \in {"notify", "notified"} PROVE minted'[k] >= 1
    <3>1. CASE k = i
      BY <3>1
    <3>2. CASE k # i
      <4>1. minted[k] >= 1
        BY <3>2, <2>2, <1>2 DEF BackInv, UpInv
      <4> QED
        BY <4>1, <2>1
    <3> QED
      BY <3>1, <3>2
  <2> QED
    BY <2>2 DEF UpInv
<1> QED
  BY <1>1, <1>3, <1>4 DEF BackInv, JobInv, Refreshable

\* initialize is answered.
LEMMA InitializeAnsweredKeeps ==
  ASSUME BackInv, NEW i \in DOMAIN manifest, InitializeAnswered(i)
  PROVE  BackInv'
<1>1. i \in Backends /\ minted[i] \in 0..MaxSessions /\ minted[i] < MaxSessions /\ MaxSessions \in Nat
  BY Deployed, Constants DEF BackInv, BackTypes, InitializeAnswered
<1>2. minted[i] + 1 \in Sids /\ minted[i] + 1 \in 0..MaxSessions
  BY <1>1 DEF Sids
<1>3. sid' \in [Backends -> Sessions]
  BY <1>1, <1>2 DEF InitializeAnswered, BackInv, BackTypes
<1>4. minted' = [minted EXCEPT ![i] = minted[i] + 1]
  BY DEF InitializeAnswered, BackInv, BackTypes
<1>5. minted' \in [Backends -> 0..MaxSessions] /\ live' \in [Backends -> SUBSET Nat] /\ live' = live
  BY <1>1, <1>2, <1>4 DEF InitializeAnswered, BackInv, BackTypes
<1>6. \A k \in Backends : minted[k] \in Nat /\ minted'[k] \in Nat /\ minted'[k] >= minted[k]
  BY <1>1, <1>4, Constants DEF BackInv, BackTypes
<1>7. \A k \in Backends : live'[k] \subseteq 1..minted'[k]
  BY <1>5, <1>6 DEF BackInv, UpInv
<1>8. minted'[i] >= 1
  BY <1>1, <1>4 DEF BackInv, BackTypes
<1> QED
  BY <1>1, <1>3, <1>5, <1>6, <1>7, <1>8, HandshakeMoves DEF InitializeAnswered

\* notifications/initialized arrives.
LEMMA NotifyArrivesKeeps ==
  ASSUME BackInv, NEW i \in DOMAIN manifest, NotifyArrives(i)
  PROVE  BackInv'
<1>1. i \in Backends /\ handshake[i] = "notify"
  BY Deployed DEF NotifyArrives
<1>2. minted[i] >= 1 /\ minted[i] \in Nat /\ \A k \in Backends : minted[k] \in Nat
  BY <1>1, Constants DEF BackInv, UpInv, BackTypes
<1>3. live' = [live EXCEPT ![i] = live[i] \cup {minted[i]}] /\ minted' = minted
  BY DEF NotifyArrives, BackInv, BackTypes
<1>4. live' \in [Backends -> SUBSET Nat]
  BY <1>1, <1>2, <1>3 DEF BackInv, BackTypes
<1>5. \A k \in Backends : minted'[k] >= minted[k] /\ live'[k] \subseteq 1..minted'[k]
  BY <1>1, <1>2, <1>3 DEF BackInv, BackTypes, UpInv
<1>6. sid' \in [Backends -> Sessions] /\ minted' \in [Backends -> 0..MaxSessions]
      /\ minted'[i] >= 1
  BY <1>2, <1>3 DEF NotifyArrives, BackInv, BackTypes
<1> QED
  BY <1>1, <1>4, <1>5, <1>6, HandshakeMoves DEF NotifyArrives

\* A step that ends a handshake moves every job that waited for it.
LEMMA HandshakeEnds ==
  ASSUME BackInv, NEW i \in Backends, handshake' = [handshake EXCEPT ![i] = "none"],
         job' \in [Jobs -> Job],
         \A j \in Jobs \ Waiting(i) : job'[j] = job[j],
         \A j \in Waiting(i) : /\ job'[j].pc # "session"
                               /\ job'[j].pc # "idle" => job'[j].be = job[j].be,
         UNCHANGED <<manifest, down, sid, derived, fresh, minted, live>>
  PROVE  BackInv'
<1>1. BackTypes'
  BY DEF BackInv, BackTypes, DerivedInv
<1>2. \A k \in Backends : handshake'[k] = IF k = i THEN "none" ELSE handshake[k]
  BY DEF BackInv, BackTypes
<1>3. ASSUME NEW j \in Jobs PROVE JobOK(job[j], handshake)'
  <2>1. JobOK(job[j], handshake) /\ (job[j].pc = "session" => job[j].be \in Backends)
    BY Deployed DEF BackInv, JobInv, JobOK
  <2>2. CASE j \in Waiting(i)
    BY <2>1, <2>2 DEF JobOK, Waiting
  <2>3. CASE j \notin Waiting(i)
    BY <2>1, <2>3, <1>2 DEF JobOK, Waiting
  <2> QED
    BY <2>2, <2>3
<1>4. \A k \in Backends : job'[Refresh(k)].pc # "idle" => Refreshable(k)
  <2>1. \A j \in Waiting(i) : job[j].pc # "idle"
    BY DEF Waiting
  <2> QED
    BY <2>1, JobsApart DEF BackInv, JobInv
<1>5. UpInv'
  BY <1>2 DEF BackInv, UpInv
<1> QED
  BY <1>1, <1>3, <1>4, <1>5 DEF BackInv, JobInv, Refreshable

\* The shared promise resolves.
LEMMA HandshakeDoneKeeps ==
  ASSUME BackInv, NEW i \in DOMAIN manifest, HandshakeDone(i)
  PROVE  BackInv'
<1>1. i \in Backends
  BY Deployed
<1>2. /\ handshake' = [handshake EXCEPT ![i] = "none"]
      /\ job' = [j \in Jobs |-> IF j \in Waiting(i) THEN PostJson(job[j], down[i], sid[i]) ELSE job[j]]
      /\ UNCHANGED <<manifest, down, sid, derived, fresh, minted, live>>
  BY DEF HandshakeDone, upstreamVars
<1>3. sid[i] \in Sessions /\ \A j \in Jobs : job[j] \in Job
  BY <1>1 DEF BackInv, BackTypes
<1>4. ASSUME NEW j \in Jobs
      PROVE  /\ job'[j] \in Job
             /\ j \notin Waiting(i) => job'[j] = job[j]
             /\ j \in Waiting(i) => job'[j].pc = "sent" /\ job'[j].be = job[j].be
  BY <1>2, <1>3, Posted
<1>5. job' \in [Jobs -> Job]
  BY <1>2, <1>4
<1>6. Waiting(i) \subseteq Jobs
  BY DEF Waiting
<1> QED
  BY <1>1, <1>2, <1>4, <1>5, <1>6, HandshakeEnds

\* The shared promise rejects.
LEMMA HandshakeFailsKeeps ==
  ASSUME BackInv, NEW i \in DOMAIN manifest, HandshakeFails(i)
  PROVE  BackInv'
<1>1. i \in Backends
  BY Deployed
<1>2. /\ handshake' = [handshake EXCEPT ![i] = "none"]
      /\ job' = [j \in Jobs |-> IF j \in Waiting(i) THEN Ended(j, Failed(j)) ELSE job[j]]
      /\ UNCHANGED <<manifest, down, sid, derived, fresh, minted, live>>
  BY DEF HandshakeFails, upstreamVars
<1>3. ASSUME NEW j \in Jobs
      PROVE  /\ job'[j] \in Job
             /\ j \notin Waiting(i) => job'[j] = job[j]
             /\ j \in Waiting(i) => /\ job'[j].pc # "session"
                                    /\ job'[j].pc # "idle" => job'[j].be = job[j].be
  <2>1. CASE j \notin Waiting(i)
    BY <2>1, <1>2 DEF BackInv, BackTypes
  <2>2. CASE j \in Waiting(i) /\ j \in Reqs
    <3>1. job'[j] = Ended(j, "error")
      BY <2>2, <1>2 DEF Failed
    <3> QED
      BY <3>1, <2>2, EndedOK DEF BackInv
  <2>3. CASE j \in Waiting(i) /\ j \notin Reqs
    <3>1. job'[j] = NoJob
      BY <2>3, <1>2, EndedIdle DEF Failed
    <3> QED
      BY <3>1, <2>3, NoJobOK
  <2> QED
    BY <2>1, <2>2, <2>3
<1>4. job' \in [Jobs -> Job]
  BY <1>2, <1>3
<1>5. Waiting(i) \subseteq Jobs
  BY DEF Waiting
<1> QED
  BY <1>1, <1>2, <1>3, <1>4, <1>5, HandshakeEnds

\* An answer changes a job's answer only.
LEMMA AnswerKeeps ==
  ASSUME BackInv, NEW j \in Jobs, Answer(j)
  PROVE  BackInv'
<1>1. job[j].pc = "sent" /\ job[j] \in Job
  BY DEF Answer, BackInv, BackTypes
<1>2. PICK o \in Outcomes(job[j].be, job[j].sent) : job' = [job EXCEPT ![j].resp = o.resp]
  BY DEF Answer
<1>3. o.resp \in {"ok", "bad", "lost"}
  BY DEF Outcomes
<1> DEFINE jb == [job[j] EXCEPT !.resp = o.resp]
<1>4. job' = [job EXCEPT ![j] = jb]
  BY <1>2 DEF BackInv, BackTypes
<1>5. jb \in Job /\ jb.pc = "sent" /\ jb.be = job[j].be
  BY <1>1, <1>3 DEF Job
<1>6. jb.be \in DOMAIN manifest /\ \A i \in Backends : j = Refresh(i) => Refreshable(i)
  BY <1>1, <1>5 DEF BackInv, JobInv, JobOK
<1>7. UNCHANGED <<manifest, down, sid, handshake, derived, fresh, minted, live>>
  BY DEF Answer, backendVars, upstreamVars
<1> HIDE DEF jb
<1> QED
  BY <1>4, <1>5, <1>6, <1>7, JobChanges

\* A job that ends keeps the backends.
LEMMA FinishKeeps ==
  ASSUME BackInv, NEW j \in Jobs, NEW outcome \in {"idle", "stream", "ok", "error"},
         Finish(j, outcome), job[j].pc # "idle",
         UNCHANGED <<manifest, down, sid, handshake, derived, fresh, minted, live>>
  PROVE  BackInv'
<1>1. job' = [job EXCEPT ![j] = Ended(j, outcome)]
  BY DEF Finish
<1>2. Ended(j, outcome) \in Job /\ Ended(j, outcome).pc = outcome
      /\ (outcome # "idle" => Ended(j, outcome).be = job[j].be)
  BY EndedOK, EndedIdle, NoJobOK DEF BackInv
<1>3. job[j].be \in DOMAIN manifest /\ \A i \in Backends : j = Refresh(i) => Refreshable(i)
  BY DEF BackInv, JobInv, JobOK
<1>4. PICK jb : jb = Ended(j, outcome)
  OBVIOUS
<1> QED
  BY <1>1, <1>2, <1>3, <1>4, JobChanges

\* discover is answered.
LEMMA DiscoverAnsweredKeeps ==
  ASSUME BackInv, NEW i \in DOMAIN manifest, DiscoverAnswered(i)
  PROVE  BackInv'
<1> DEFINE j == Refresh(i)
<1>1. i \in Backends /\ j \in Jobs /\ job[j] \in Job /\ job[j].pc = "sent"
  BY Deployed, JobsApart DEF BackInv, BackTypes, DiscoverAnswered
<1>2. job[j].be \in DOMAIN manifest /\ Refreshable(i) /\ sid[i] \in Sessions /\ down[i] \in BOOLEAN
  BY <1>1 DEF BackInv, BackTypes, JobInv, JobOK
<1>3. \A k \in Backends : j = Refresh(k) => Refreshable(k)
  BY <1>1, <1>2, JobsApart
<1>4. UNCHANGED <<manifest, derived, fresh, minted, live>>
  BY DEF DiscoverAnswered, upstreamVars
<1>5. \/ /\ job' = [job EXCEPT ![j] = PostJson([@ EXCEPT !.step = "nextlist"], down[i], sid[i])]
         /\ UNCHANGED <<down, sid, handshake>>
      \/ Try(j, [job[j] EXCEPT !.step = "list"], TRUE, sid[i])
      \/ Finish(j, "idle") /\ UNCHANGED <<down, sid, handshake>>
  BY DEF DiscoverAnswered
<1> HIDE DEF j
<1>6. CASE /\ job' = [job EXCEPT ![j] = PostJson([@ EXCEPT !.step = "nextlist"], down[i], sid[i])]
           /\ UNCHANGED <<down, sid, handshake>>
  <2>1. PICK jb : jb = [job[j] EXCEPT !.step = "nextlist"]
    OBVIOUS
  <2>4. jb \in Job /\ jb.be = job[j].be
    BY <2>1, <1>1 DEF Job
  <2> DEFINE nb == PostJson(jb, down[i], sid[i])
  <2>2. nb \in Job /\ nb.pc = "sent" /\ nb.be = job[j].be
    BY <2>4, <1>2, Posted
  <2>3. job' = [job EXCEPT ![j] = nb]
    BY <2>1, <1>6
  <2> HIDE DEF nb
  <2> QED
    BY <2>2, <2>3, <1>1, <1>2, <1>3, <1>4, <1>6, JobChanges
<1>7. CASE Try(j, [job[j] EXCEPT !.step = "list"], TRUE, sid[i])
  <2>1. [job[j] EXCEPT !.step = "list"] \in Job /\ [job[j] EXCEPT !.step = "list"].be = job[j].be
    BY <1>1 DEF Job
  <2> QED
    BY <2>1, <1>1, <1>2, <1>3, <1>4, <1>7, TryKeeps
<1>8. CASE Finish(j, "idle") /\ UNCHANGED <<down, sid, handshake>>
  BY <1>1, <1>4, <1>8, FinishKeeps
<1> QED
  BY <1>5, <1>6, <1>7, <1>8

\* The catalog is taken over.
LEMMA ListAnsweredKeeps ==
  ASSUME BackInv, NEW i \in DOMAIN manifest, ListAnswered(i)
  PROVE  BackInv'
<1> DEFINE j == Refresh(i)
<1>1. i \in Backends /\ j \in Jobs /\ job[j].pc = "sent" /\ Refreshable(i)
  BY Deployed, JobsApart DEF BackInv, BackTypes, JobInv, ListAnswered
<1>2. PICK c \in Catalogs :
        /\ derived' = [derived EXCEPT ![i] = {u \in c : ClaimsUpstreamName(manifest[i], u)}]
        /\ fresh' = [fresh EXCEPT ![i] = TRUE]
  BY DEF ListAnswered, CaptureDerivedTools
<1>3. UNCHANGED <<manifest, down, sid, handshake, minted, live>> /\ job' = [job EXCEPT ![j] = NoJob]
  BY <1>1, EndedIdle DEF ListAnswered, upstreamVars, Finish
<1>4. DerivedInv'
  <2>1. {u \in c : ClaimsUpstreamName(manifest[i], u)} \subseteq Upstreams
    BY DEF Upstreams
  <2>2. derived' \in [Backends -> SUBSET Upstreams]
    BY <2>1, <1>2 DEF BackInv, BackTypes, DerivedInv
  <2>3. \A k \in Backends :
          derived'[k] = IF k = i THEN {u \in c : ClaimsUpstreamName(manifest[i], u)} ELSE derived[k]
    BY <1>2 DEF BackInv, BackTypes, DerivedInv
  <2> QED
    BY <2>2, <2>3, <1>1, <1>3 DEF BackInv, BackTypes, DerivedInv, Refreshable
<1>5. /\ handshake' \in [Backends -> Stages] /\ down' \in [Backends -> BOOLEAN]
      /\ sid' \in [Backends -> Sessions] /\ fresh' \in [Backends -> BOOLEAN]
  BY <1>2, <1>3 DEF BackInv, BackTypes
<1>6. NoJob \in Job /\ NoJob.pc = "idle" /\ JobOK(NoJob, handshake')
  BY NoJobOK DEF JobOK
<1>7. \A k \in Backends : handshake'[k] = handshake[k]
  BY <1>3
<1> QED
  BY <1>1, <1>3, <1>4, <1>5, <1>6, <1>7, OneJob

\* The catalog is asked for again, or not.
LEMMA ListFailedKeeps ==
  ASSUME BackInv, NEW i \in DOMAIN manifest, ListFailed(i)
  PROVE  BackInv'
<1> DEFINE j == Refresh(i)
<1>1. i \in Backends /\ j \in Jobs /\ job[j] \in Job /\ job[j].pc = "sent"
  BY Deployed, JobsApart DEF BackInv, BackTypes, ListFailed
<1>2. job[j].be \in DOMAIN manifest /\ Refreshable(i) /\ down[i] \in BOOLEAN
  BY <1>1 DEF BackInv, BackTypes, JobInv, JobOK
<1>3. \A k \in Backends : j = Refresh(k) => Refreshable(k)
  BY <1>1, <1>2, JobsApart
<1>4. UNCHANGED <<manifest, derived, fresh, minted, live>>
  BY DEF ListFailed, upstreamVars
<1>5. \/ Try(j, [job[j] EXCEPT !.stage = 2], down[i], NoSession)
      \/ Finish(j, "idle") /\ UNCHANGED <<down, sid, handshake>>
  BY DEF ListFailed
<1> HIDE DEF j
<1>6. CASE Try(j, [job[j] EXCEPT !.stage = 2], down[i], NoSession)
  <2>1. [job[j] EXCEPT !.stage = 2] \in Job /\ [job[j] EXCEPT !.stage = 2].be = job[j].be
    BY <1>1 DEF Job
  <2> QED
    BY <2>1, <1>1, <1>2, <1>3, <1>4, <1>6, TryKeeps
<1>7. CASE Finish(j, "idle") /\ UNCHANGED <<down, sid, handshake>>
  BY <1>1, <1>4, <1>7, FinishKeeps
<1> QED
  BY <1>5, <1>6, <1>7

\* A notification is over.
LEMMA NoteAnsweredKeeps ==
  ASSUME BackInv, NEW i \in DOMAIN manifest, NoteAnswered(i)
  PROVE  BackInv'
<1>1. i \in Backends /\ Note(i) \in Jobs /\ job[Note(i)].pc # "idle"
  BY Deployed, JobsApart DEF NoteAnswered
<1>2. Finish(Note(i), "idle")
      /\ UNCHANGED <<manifest, down, sid, handshake, derived, fresh, minted, live>>
  BY DEF NoteAnswered, backendVars, upstreamVars
<1> QED
  BY <1>1, <1>2, FinishKeeps

\* An upstream forgets its sessions.
LEMMA RestartKeeps ==
  ASSUME BackInv, NEW i \in DOMAIN manifest, Restart(i)
  PROVE  BackInv'
<1>1. i \in Backends /\ live' = [live EXCEPT ![i] = {}]
      /\ UNCHANGED <<manifest, down, sid, handshake, derived, fresh, job, minted>>
  BY Deployed DEF Restart, backendVars
<1>2. BackTypes'
  BY <1>1 DEF BackInv, BackTypes, DerivedInv
<1>3. JobInv'
  BY <1>1 DEF BackInv, JobInv, JobOK, Refreshable
<1>4. UpInv'
  BY <1>1 DEF BackInv, UpInv, BackTypes
<1> QED
  BY <1>2, <1>3, <1>4 DEF BackInv

\* A cache's time passes.
LEMMA ExpireKeeps ==
  ASSUME BackInv, NEW i \in DOMAIN manifest, Expire(i)
  PROVE  BackInv'
<1>1. fresh' = [fresh EXCEPT ![i] = FALSE]
      /\ UNCHANGED <<manifest, down, sid, handshake, derived, job, minted, live>>
  BY DEF Expire, upstreamVars
<1>2. BackTypes'
  BY <1>1 DEF BackInv, BackTypes, DerivedInv
<1>3. JobInv' /\ UpInv'
  BY <1>1 DEF BackInv, JobInv, JobOK, Refreshable, UpInv
<1> QED
  BY <1>2, <1>3 DEF BackInv

\* An answer to a call arrives.
LEMMA CallKeeps ==
  ASSUME BackInv, NEW r \in Reqs, CallNext(r)
  PROVE  BackInv'
<1>1. r \in Jobs /\ \A i \in Backends : r # Refresh(i)
  BY JobsApart
<1>2. UNCHANGED <<manifest, derived, fresh, minted, live>>
  BY DEF CallNext, CallRefused, CallLost, CallAccepted, StreamEnds, backendVars, upstreamVars
<1>3. job[r].pc # "idle" /\ job[r] \in Job
  BY <1>1 DEF CallNext, CallRefused, CallLost, CallAccepted, StreamEnds, BackInv, BackTypes
<1>4. job[r].be \in DOMAIN manifest /\ job[r].be \in Backends
  BY <1>1, <1>3, Deployed DEF BackInv, JobInv, JobOK
<1>5. \/ Try(r, [job[r] EXCEPT !.stage = 2], TRUE, sid[job[r].be])
      \/ Try(r, [job[r] EXCEPT !.stage = 3], down[job[r].be], NoSession)
      \/ \E outcome \in {"stream", "ok", "error"} :
            Finish(r, outcome) /\ UNCHANGED <<down, sid, handshake>>
  BY DEF CallNext, CallRefused, CallLost, CallAccepted, StreamEnds, backendVars
<1>6. ASSUME NEW stage \in {2, 3}
      PROVE  [job[r] EXCEPT !.stage = stage] \in Job /\ [job[r] EXCEPT !.stage = stage].be = job[r].be
  BY <1>3 DEF Job
<1>7. down[job[r].be] \in BOOLEAN /\ sid[job[r].be] \in Sessions
  BY <1>4 DEF BackInv, BackTypes
<1>8. CASE Try(r, [job[r] EXCEPT !.stage = 2], TRUE, sid[job[r].be])
  BY <1>1, <1>2, <1>4, <1>6, <1>7, <1>8, TryKeeps
<1>9. CASE Try(r, [job[r] EXCEPT !.stage = 3], down[job[r].be], NoSession)
  BY <1>1, <1>2, <1>4, <1>6, <1>7, <1>9, TryKeeps
<1>10. CASE \E outcome \in {"stream", "ok", "error"} :
              Finish(r, outcome) /\ UNCHANGED <<down, sid, handshake>>
  BY <1>1, <1>2, <1>3, <1>10, FinishKeeps
<1> QED
  BY <1>5, <1>8, <1>9, <1>10

\* A step that leaves the backends and their jobs alone.
LEMMA BackUnchanged ==
  ASSUME BackInv, UNCHANGED <<manifest, down, sid, handshake, derived, fresh, job, minted, live>>
  PROVE  BackInv'
  BY DEF BackInv, BackTypes, DerivedInv, JobInv, JobOK, Refreshable, UpInv

\* Every step of the backends keeps them.
LEMMA ProxyNextKeeps == BackInv /\ ProxyNext => BackInv'
<1> SUFFICES ASSUME BackInv, ProxyNext PROVE BackInv'
  OBVIOUS
<1>1. ASSUME NEW r \in Reqs, HandleReverseRpc(r) PROVE BackInv'
  BY <1>1, BackUnchanged DEF HandleReverseRpc, backendVars, upstreamVars
<1> QED
  BY <1>1, InitializeAnsweredKeeps, NotifyArrivesKeeps, HandshakeDoneKeeps, HandshakeFailsKeeps,
     DiscoverAnsweredKeeps, ListAnsweredKeeps, ListFailedKeeps, NoteAnsweredKeeps, RestartKeeps,
     ExpireKeeps, AnswerKeeps, CallKeeps DEF ProxyNext, HandshakeNext, RefreshNext

\* The jobs a step of the route begins together keep the backends.
LEMMA JoinedKeeps ==
  ASSUME BackInv, NEW f \in [Jobs -> Job], job' = f, JoinHandshakes(f),
         \A j \in Jobs : f[j].pc # "idle" => f[j].be \in DOMAIN manifest,
         \A i \in Backends : f[Refresh(i)].pc # "idle" => Refreshable(i),
         UNCHANGED <<manifest, down, sid, derived, fresh, minted, live>>
  PROVE  BackInv'
<1>1. \A i \in Backends : handshake'[i] =
        IF handshake[i] = "none" /\ \E j \in Jobs : f[j].pc = "session" /\ f[j].be = i
        THEN "initialize" ELSE handshake[i]
  BY DEF JoinHandshakes
<1>2. handshake' \in [Backends -> Stages]
  BY DEF JoinHandshakes, BackInv, BackTypes
<1>3. BackTypes'
  BY <1>2 DEF BackInv, BackTypes, DerivedInv
<1>4. ASSUME NEW j \in Jobs PROVE JobOK(job[j], handshake)'
  <2>1. f[j].pc = "session" => f[j].be \in Backends
    BY Deployed
  <2> QED
    BY <2>1, <1>1 DEF JobOK
<1>5. UpInv'
  BY <1>1 DEF BackInv, UpInv
<1> QED
  BY <1>3, <1>4, <1>5 DEF BackInv, JobInv, Refreshable

\* A job that a step begins.
LEMMA Begun ==
  ASSUME NEW i \in Backends, NEW step \in {"call", "discover", "list", "nextlist", "note"},
         NEW name \in Names \cup {<<>>}, NEW p \in Peers \cup {"none"}, NEW stage \in 0..3
  PROVE  LET jb == NewJob(i, step, name, p, stage)
         IN  /\ jb \in Job /\ jb.be = i /\ jb.step = step /\ jb.name = name /\ jb.peer = p
             /\ jb.stage = stage /\ jb.resp = "none"
  BY DEF NewJob, Job, NoSession

\* A job that is posted or waits stays a job of its backend.
LEMMA Posts ==
  ASSUME NEW b \in Job, NEW d, NEW s \in Sessions, NEW f,
         f = PostJson(b, d, s) \/ f = [b EXCEPT !.pc = "session"]
  PROVE  f \in Job /\ f.be = b.be
<1>1. CASE f = PostJson(b, d, s)
  BY <1>1, Posted
<1>2. CASE f = [b EXCEPT !.pc = "session"]
  BY <1>2, Waits
<1> QED
  BY <1>1, <1>2

\* The first request of a refresh.
LEMMA FirstFetchOK ==
  ASSUME BackInv, NEW i \in Backends
  PROVE  FirstFetch(i) \in Job /\ FirstFetch(i).be = i
<1>1. sid[i] \in Sessions
  BY DEF BackInv, BackTypes
<1>2. PICK a, b : a = NewJob(i, "discover", <<>>, "none", 1) /\ b = NewJob(i, "list", <<>>, "none", 1)
  OBVIOUS
<1>3. a \in Job /\ a.be = i
  BY <1>2, Begun
<1>4. b \in Job /\ b.be = i
  BY <1>2, Begun
<1>5. \/ FirstFetch(i) = PostJson(a, down[i], sid[i])
      \/ FirstFetch(i) = [b EXCEPT !.pc = "session"]
      \/ FirstFetch(i) = PostJson(b, down[i], sid[i])
  BY <1>2 DEF FirstFetch
<1>6. CASE FirstFetch(i) = PostJson(a, down[i], sid[i])
  BY <1>6, <1>1, <1>3, Posts
<1>7. CASE FirstFetch(i) = [b EXCEPT !.pc = "session"] \/ FirstFetch(i) = PostJson(b, down[i], sid[i])
  BY <1>7, <1>1, <1>4, Posts
<1> QED
  BY <1>5, <1>6, <1>7

\* The one request of a notification.
LEMMA NotificationOK ==
  ASSUME BackInv, NEW i \in Backends
  PROVE  NotifyRootsChanged(i) \in Job /\ NotifyRootsChanged(i).be = i
<1>1. sid[i] \in Sessions
  BY DEF BackInv, BackTypes
<1>2. PICK a : a = NewJob(i, "note", <<>>, "none", 0)
  OBVIOUS
<1>3. a \in Job /\ a.be = i
  BY <1>2, Begun
<1>4. \/ NotifyRootsChanged(i) = [a EXCEPT !.pc = "session"]
      \/ NotifyRootsChanged(i) = PostJson(a, down[i], sid[i])
  BY <1>2 DEF NotifyRootsChanged
<1> QED
  BY <1>1, <1>3, <1>4, Posts

\* tools/list begins refreshes, and leaves the calls alone.
LEMMA ToolsListKeeps ==
  ASSUME BackInv, NEW r \in Reqs, ToolsList(r)
  PROVE  BackInv' /\ \A s \in Reqs : job'[s] = job[s]
<1> DEFINE starts == {i \in DOMAIN manifest : CanRefresh(i) /\ manifest[i].url # "none"}
           f == [j \in Jobs |-> IF \E i \in starts : j = Refresh(i) THEN FirstFetch(j[2]) ELSE job[j]]
<1>1. job' = f /\ JoinHandshakes(f) /\ UNCHANGED <<manifest, down, sid, derived, fresh, minted, live>>
  BY DEF ToolsList, upstreamVars
<1>2. starts \subseteq Backends /\ \A i \in starts : i \in DOMAIN manifest /\ Refreshable(i)
  BY Deployed DEF CanRefresh, Refreshable
<1> HIDE DEF starts
<1>3. ASSUME NEW j \in Jobs
      PROVE  /\ f[j] \in Job /\ (f[j].pc # "idle" => f[j].be \in DOMAIN manifest)
             /\ j \in Reqs => f[j] = job[j]
  <2>1. CASE \E i \in starts : j = Refresh(i)
    <3>1. PICK i \in starts : j = Refresh(i)
      BY <2>1
    <3>2. f[j] = FirstFetch(i) /\ i \in Backends /\ j \notin Reqs
      BY <3>1, <1>2, JobsApart
    <3> QED
      BY <3>1, <3>2, <1>2, FirstFetchOK
  <2>2. CASE ~ \E i \in starts : j = Refresh(i)
    <3>1. f[j] = job[j]
      BY <2>2
    <3> QED
      BY <3>1 DEF BackInv, BackTypes, JobInv, JobOK
  <2> QED
    BY <2>1, <2>2
<1>4. ASSUME NEW i \in Backends, f[Refresh(i)].pc # "idle" PROVE Refreshable(i)
  <2>1. CASE \E k \in starts : Refresh(i) = Refresh(k)
    BY <2>1, <1>2, JobsApart
  <2>2. CASE ~ \E k \in starts : Refresh(i) = Refresh(k)
    <3>1. f[Refresh(i)] = job[Refresh(i)]
      BY <2>2, JobsApart
    <3> QED
      BY <3>1, <1>4 DEF BackInv, JobInv
  <2> QED
    BY <2>1, <2>2
<1>5. f \in [Jobs -> Job] /\ \A s \in Reqs : f[s] = job[s]
  BY <1>3, JobsApart
<1> HIDE DEF f
<1> QED
  BY <1>1, <1>3, <1>4, <1>5, JoinedKeeps

\* Changed roots begin notifications, and leave the calls alone.
LEMMA RootsListChangedKeeps ==
  ASSUME BackInv, NEW r \in Reqs, NEW p \in Peers, RootsListChanged(r, p)
  PROVE  BackInv' /\ \A s \in Reqs : job'[s] = job[s]
<1> DEFINE told1 == {i \in DOMAIN manifest : manifest[i].kind = "proxy" /\ manifest[i].url # "none"}
           f == [j \in Jobs |-> IF \E i \in told1 : j = Note(i) THEN NotifyRootsChanged(j[2]) ELSE job[j]]
<1>1. job' = f /\ JoinHandshakes(f) /\ UNCHANGED <<manifest, down, sid, derived, fresh, minted, live>>
  BY DEF RootsListChanged, upstreamVars
<1>2. told1 \subseteq Backends /\ told1 \subseteq DOMAIN manifest
  BY Deployed
<1> HIDE DEF told1
<1>3. ASSUME NEW j \in Jobs
      PROVE  /\ f[j] \in Job /\ (f[j].pc # "idle" => f[j].be \in DOMAIN manifest)
             /\ j \in Reqs => f[j] = job[j]
  <2>1. CASE \E i \in told1 : j = Note(i)
    <3>1. PICK i \in told1 : j = Note(i)
      BY <2>1
    <3>2. f[j] = NotifyRootsChanged(i) /\ i \in Backends /\ j \notin Reqs
      BY <3>1, <1>2, JobsApart
    <3> QED
      BY <3>1, <3>2, <1>2, NotificationOK
  <2>2. CASE ~ \E i \in told1 : j = Note(i)
    <3>1. f[j] = job[j]
      BY <2>2
    <3> QED
      BY <3>1 DEF BackInv, BackTypes, JobInv, JobOK
  <2> QED
    BY <2>1, <2>2
<1>4. ASSUME NEW i \in Backends, f[Refresh(i)].pc # "idle" PROVE Refreshable(i)
  <2>1. f[Refresh(i)] = job[Refresh(i)]
    BY <1>2, JobsApart
  <2> QED
    BY <2>1, <1>4 DEF BackInv, JobInv
<1>5. f \in [Jobs -> Job] /\ \A s \in Reqs : f[s] = job[s]
  BY <1>3, JobsApart
<1> HIDE DEF f
<1> QED
  BY <1>1, <1>3, <1>4, <1>5, JoinedKeeps

-----------------------------------------------------------------------------
(***************************************************************************)
(* Calls.  The stage of a call bounds the executions that earlier stages   *)
(* can have left behind, and each of these was answered with a failure;    *)
(* a call keeps to the route of its name and to its caller's roots.        *)
(***************************************************************************)
AutoTries(b) == IF b.mode = "auto" THEN 1 ELSE 0
SessionTries(b) == IF b.session THEN 1 ELSE 0
Retries(b) == AutoTries(b) + SessionTries(b)

\* Executions that the stages before this one can have left behind.
Earlier(b, stage) == IF stage = 1 THEN 0 ELSE IF stage = 2 THEN AutoTries(b) ELSE Retries(b)

\* A call that still tries: e executions, h of them hidden.
Trying(b, jb, e, h) ==
  /\ jb.step = "call" /\ jb.stage \in 1..3
  /\ jb.pc = "session" \/ jb.resp = "none" => e = h /\ e <= Earlier(b, jb.stage)
  /\ jb.pc = "sent" /\ jb.resp \in {"bad", "lost"} => e = h /\ e <= Earlier(b, jb.stage) + 1
  /\ jb.pc = "sent" /\ jb.resp = "ok" => e = h + 1 /\ e <= Earlier(b, jb.stage) + 1

\* A call that is being answered, or has been.
Tried(b, answer, e, h) ==
  /\ e <= 1 + h /\ e <= 1 + Retries(b)
  /\ answer \in {"stream", "ok"} => e > h

CallOK(b, jb, e, h) ==
  /\ jb.pc \in {"session", "sent"} => Trying(b, jb, e, h)
  /\ jb.pc \in {"stream", "ok", "error"} => Tried(b, jb.pc, e, h)

\* A request, its job, and the executions of its call.
ReqOK(m, q, jb, e, h) ==
  /\ q.pc \in {"new", "listing"} => q.be = 0
  /\ q.pc # "done" => q.answer = "none"
  /\ q.pc # "calling" => jb.pc = "idle"
  /\ q.be = 0 => e = 0 /\ h = 0
  /\ q.pc = "calling" =>
       /\ jb.pc # "idle" /\ q.be \in DOMAIN m /\ jb.be = q.be /\ jb.peer = q.peer
       /\ BackendFor(m, NothingDerived, jb.name) = q.be
       /\ CallOK(m[q.be], jb, e, h)
  /\ q.pc = "done" /\ q.be # 0 =>
       /\ q.origin \in {0, q.be}
       /\ Tried(m[q.be], q.answer, e, h)

Locations == UNION Roots

CallTypes ==
  /\ req \in [Reqs -> Req]
  /\ effects \in [Reqs -> Nat] /\ hidden \in [Reqs -> Nat]
  /\ told \in [Reqs -> SUBSET Locations]
  /\ roots \in [Peers -> SUBSET Locations] /\ declared \in [Peers -> SUBSET Locations]

\* What an upstream was told in a call, the caller declared.
ToldOK(q, t) ==
  /\ q.pc \in {"new", "listing"} => t = {}
  /\ t \subseteq declared[q.peer]

RequestOK(r) ==
  /\ ReqOK(manifest, req[r], job[r], effects[r], hidden[r])
  /\ ToldOK(req[r], told[r])

CallInv ==
  /\ \A p \in Peers : roots[p] \subseteq declared[p]
  /\ \A r \in Reqs : RequestOK(r)

McpInv == BackInv /\ CallTypes /\ CallInv

\* The retries of a backend.
LEMMA Counts ==
  ASSUME NEW b, NEW stage \in 1..3
  PROVE  /\ AutoTries(b) \in 0..1 /\ SessionTries(b) \in 0..1 /\ Retries(b) \in 0..2
         /\ Earlier(b, stage) \in 0..2 /\ Earlier(b, stage) <= Retries(b)
         /\ Retries(b) = AutoTries(b) + SessionTries(b)
<1>1. AutoTries(b) \in 0..1 /\ SessionTries(b) \in 0..1
  BY DEF AutoTries, SessionTries
<1> QED
  BY <1>1 DEF Retries, Earlier

\* A call that waited for its session is posted.
LEMMA PostedCall ==
  ASSUME NEW b, NEW jb \in Job, NEW e \in Nat, NEW h \in Nat, NEW d, NEW s \in Sessions,
         jb.pc = "session", CallOK(b, jb, e, h)
  PROVE  CallOK(b, PostJson(jb, d, s), e, h)
<1>1. PICK nb : nb = PostJson(jb, d, s)
  OBVIOUS
<1>2. nb.pc = "sent" /\ nb.resp = "none" /\ nb.stage = jb.stage /\ nb.step = jb.step
  BY <1>1, Posted
<1>3. Trying(b, jb, e, h)
  BY DEF CallOK
<1>4. CallOK(b, nb, e, h)
  BY <1>2, <1>3 DEF CallOK, Trying
<1> QED
  BY <1>1, <1>4

\* A call that ends without an answer, or with one that failed.
LEMMA FailedCall ==
  ASSUME NEW b, NEW jb \in Job, NEW e \in Nat, NEW h \in Nat, NEW nb,
         jb.pc = "session" \/ (jb.pc = "sent" /\ jb.resp \in {"bad", "lost"}) \/ jb.pc = "stream",
         CallOK(b, jb, e, h), nb.pc = "error"
  PROVE  CallOK(b, nb, e, h)
<1>1. CASE jb.pc = "stream"
  BY <1>1 DEF CallOK, Tried
<1>2. CASE jb.pc # "stream"
  <2>1. Trying(b, jb, e, h) /\ jb.stage \in 1..3
    BY <1>2 DEF CallOK, Trying
  <2>2. e = h /\ e <= Earlier(b, jb.stage) + 1
    BY <1>2, <2>1, Counts DEF Trying
  <2> QED
    BY <2>1, <2>2, Counts DEF CallOK, Tried
<1> QED
  BY <1>1, <1>2

\* A call whose answer has arrived.
LEMMA AcceptedCall ==
  ASSUME NEW b, NEW jb \in Job, NEW e \in Nat, NEW h \in Nat, NEW nb,
         \/ jb.pc = "sent" /\ jb.resp = "ok" /\ nb.pc = "stream"
         \/ jb.pc = "stream" /\ nb.pc = "ok",
         CallOK(b, jb, e, h)
  PROVE  CallOK(b, nb, e, h)
<1>1. CASE jb.pc = "stream"
  BY <1>1 DEF CallOK, Tried
<1>2. CASE jb.pc = "sent" /\ jb.resp = "ok" /\ nb.pc = "stream"
  <2>1. Trying(b, jb, e, h) /\ jb.stage \in 1..3
    BY <1>2 DEF CallOK, Trying
  <2>2. e = h + 1 /\ e <= Earlier(b, jb.stage) + 1
    BY <1>2, <2>1 DEF Trying
  <2> QED
    BY <1>2, <2>1, <2>2, Counts DEF CallOK, Tried
<1> QED
  BY <1>1, <1>2

\* A call that is tried again leaves its executions to the earlier stages.
LEMMA RetriedCall ==
  ASSUME NEW b, NEW jb \in Job, NEW e \in Nat, NEW h \in Nat, NEW nb,
         jb.pc = "sent", jb.resp = "bad", CallOK(b, jb, e, h),
         nb.step = "call", nb.pc = "session" \/ (nb.pc = "sent" /\ nb.resp = "none"),
         \/ jb.stage = 1 /\ nb.stage = 2 /\ b.mode = "auto"
         \/ jb.stage <= 2 /\ nb.stage = 3 /\ b.session
  PROVE  CallOK(b, nb, e, h)
<1>1. jb.stage \in 1..3 /\ e = h /\ e <= Earlier(b, jb.stage) + 1
  BY DEF CallOK, Trying
<1>2. e <= Earlier(b, nb.stage) /\ nb.stage \in 1..3
  <2>1. CASE jb.stage = 1 /\ nb.stage = 2 /\ b.mode = "auto"
    BY <2>1, <1>1 DEF Earlier, AutoTries
  <2>2. CASE jb.stage <= 2 /\ nb.stage = 3 /\ b.session
    BY <2>2, <1>1, Counts DEF Earlier, SessionTries
  <2> QED
    BY <2>1, <2>2
<1> QED
  BY <1>1, <1>2 DEF CallOK, Trying

\* The upstream acts on a call and answers it, or seems to fail.
LEMMA AnsweredCall ==
  ASSUME NEW b, NEW jb \in Job, NEW e \in Nat, NEW h \in Nat, NEW nb, NEW done \in BOOLEAN,
         jb.pc = "sent", jb.resp = "none", CallOK(b, jb, e, h),
         nb.pc = "sent", nb.step = jb.step, nb.stage = jb.stage,
         nb.resp \in {"bad", "lost"} \/ (nb.resp = "ok" /\ done)
  PROVE  CallOK(b, nb, e + (IF done THEN 1 ELSE 0), h + (IF done /\ nb.resp # "ok" THEN 1 ELSE 0))
<1>1. jb.step = "call" /\ jb.stage \in 1..3 /\ e = h /\ e <= Earlier(b, jb.stage)
  BY DEF CallOK, Trying
<1>2. Earlier(b, jb.stage) \in 0..2
  BY <1>1, Counts
<1> QED
  BY <1>1, <1>2 DEF CallOK, Trying

\* A step that leaves a request where it is: the refreshes it waits for aside.
SameReq(s) ==
  /\ req'[s].pc = req[s].pc /\ req'[s].peer = req[s].peer /\ req'[s].be = req[s].be
  /\ req'[s].answer = req[s].answer /\ req'[s].origin = req[s].origin

\* And its call as well.
Same(s) ==
  /\ SameReq(s) /\ job'[s] = job[s]
  /\ effects'[s] = effects[s] /\ hidden'[s] = hidden[s] /\ told'[s] = told[s]

\* A request that a step leaves alone.
LEMMA SameKeeps ==
  ASSUME CallTypes, NEW s \in Reqs, RequestOK(s), Same(s), manifest' = manifest,
         \A p \in Peers : declared[p] \subseteq declared'[p]
  PROVE  RequestOK(s)'
<1>1. req[s].peer \in Peers
  BY DEF CallTypes, Req
<1>2. ReqOK(manifest, req[s], job[s], effects[s], hidden[s])'
  BY DEF RequestOK, Same, SameReq, ReqOK
<1>3. ToldOK(req[s], told[s])'
  BY <1>1 DEF RequestOK, Same, SameReq, ToldOK
<1> QED
  BY <1>2, <1>3 DEF RequestOK

\* A call that a step of the backends moves on.
LEMMA MovedKeeps ==
  ASSUME BackInv, NEW s \in Reqs, RequestOK(s), SameReq(s), UNCHANGED <<manifest, told, declared>>,
         job[s].pc # "idle", job'[s].pc # "idle",
         job'[s].be = job[s].be, job'[s].name = job[s].name, job'[s].peer = job[s].peer,
         CallOK(manifest[job[s].be], job'[s], effects'[s], hidden'[s])
  PROVE  RequestOK(s)'
<1>1. req[s].pc = "calling" /\ job[s].be = req[s].be /\ req[s].be \in DOMAIN manifest
      /\ job[s].peer = req[s].peer /\ BackendFor(manifest, NothingDerived, job[s].name) = req[s].be
  BY DEF RequestOK, ReqOK
<1>2. req[s].be # 0
  BY <1>1, Deployed, Entries
<1>3. ReqOK(manifest, req[s], job[s], effects[s], hidden[s])'
  BY <1>1, <1>2 DEF RequestOK, SameReq, ReqOK
<1>4. ToldOK(req[s], told[s])'
  BY DEF RequestOK, SameReq, ToldOK
<1> QED
  BY <1>3, <1>4 DEF RequestOK

\* A call that is under way.
LEMMA UnderWay ==
  ASSUME McpInv, NEW s \in Reqs
  PROVE  /\ job[s] \in Job /\ effects[s] \in Nat /\ hidden[s] \in Nat /\ RequestOK(s)
         /\ job[s].pc # "idle" => CallOK(manifest[job[s].be], job[s], effects[s], hidden[s])
<1>1. job[s] \in Job /\ effects[s] \in Nat /\ hidden[s] \in Nat /\ RequestOK(s)
  BY JobsApart DEF McpInv, BackInv, BackTypes, CallTypes, CallInv
<1> QED
  BY <1>1 DEF RequestOK, ReqOK

\* What tryCall and tryFetch make of a job.
LEMMA TryShape ==
  ASSUME NEW j \in Jobs, NEW jb \in Job, NEW d, NEW s \in Sessions, Try(j, jb, d, s)
  PROVE  \E nb \in Job :
           /\ job' = [job EXCEPT ![j] = nb]
           /\ nb.be = jb.be /\ nb.name = jb.name /\ nb.peer = jb.peer
           /\ nb.stage = jb.stage /\ nb.step = jb.step
           /\ nb.pc = "session" \/ (nb.pc = "sent" /\ nb.resp = "none")
<1>1. PICK nb : nb = IF NeedsSession(jb.be, d) /\ s = NoSession
                     THEN [jb EXCEPT !.pc = "session"] ELSE PostJson(jb, d, s)
  OBVIOUS
<1>2. job' = [job EXCEPT ![j] = nb]
  BY <1>1 DEF Try
<1>3. CASE nb = [jb EXCEPT !.pc = "session"]
  BY <1>2, <1>3, Waits
<1>4. CASE nb = PostJson(jb, d, s)
  BY <1>2, <1>4, Posted
<1> QED
  BY <1>1, <1>3, <1>4

\* A step that changes the job of a refresh or of a notification.
LEMMA OtherJob ==
  ASSUME McpInv, NEW j \in Jobs, j \notin Reqs, NEW jb, job' = [job EXCEPT ![j] = jb],
         NEW s \in Reqs, SameReq(s), UNCHANGED <<manifest, history, declared>>
  PROVE  RequestOK(s)'
<1>1. s \in Jobs /\ s # j /\ job'[s] = job[s]
  BY JobsApart DEF McpInv, BackInv, BackTypes
<1>2. Same(s)
  BY <1>1 DEF Same, history
<1> QED
  BY <1>2, SameKeeps DEF McpInv, CallInv

\* A step that changes no job.
LEMMA NoJobMoves ==
  ASSUME McpInv, NEW s \in Reqs, SameReq(s), UNCHANGED <<manifest, job, history, declared>>
  PROVE  RequestOK(s)'
<1>1. Same(s)
  BY DEF Same, history
<1> QED
  BY <1>1, SameKeeps DEF McpInv, CallInv

\* The handshake, as a call sees it.
LEMMA HandshakeCalls ==
  ASSUME McpInv, NEW i \in DOMAIN manifest, HandshakeNext(i), NEW s \in Reqs, SameReq(s),
         UNCHANGED declared
  PROVE  RequestOK(s)'
<1>1. CASE InitializeAnswered(i) \/ NotifyArrives(i)
  BY <1>1, NoJobMoves DEF InitializeAnswered, NotifyArrives
<1>2. CASE HandshakeDone(i) \/ HandshakeFails(i)
  <2>1. UNCHANGED <<manifest, history>>
    BY <1>2 DEF HandshakeDone, HandshakeFails
  <2>2. CASE s \notin Waiting(i)
    <3>1. job'[s] = job[s]
      BY <1>2, <2>2, JobsApart DEF HandshakeDone, HandshakeFails
    <3>2. Same(s)
      BY <3>1, <2>1 DEF Same, history
    <3> QED
      BY <3>2, <2>1, SameKeeps DEF McpInv, CallInv
  <2>3. CASE s \in Waiting(i)
    <3>1. /\ s \in Jobs /\ job[s].pc = "session" /\ effects'[s] = effects[s] /\ hidden'[s] = hidden[s]
          /\ CallOK(manifest[job[s].be], job[s], effects[s], hidden[s])
      BY <2>1, <2>3, UnderWay DEF Waiting, history
    <3>2. CASE HandshakeDone(i)
      <4>1. job'[s] = PostJson(job[s], down[i], sid[i]) /\ sid[i] \in Sessions
        BY <3>1, <3>2, <2>3, Deployed DEF HandshakeDone, McpInv, BackInv, BackTypes
      <4>2. CallOK(manifest[job[s].be], job'[s], effects[s], hidden[s])
        BY <4>1, <3>1, PostedCall, UnderWay
      <4>3. job'[s].pc = "sent" /\ job'[s].be = job[s].be /\ job'[s].name = job[s].name
            /\ job'[s].peer = job[s].peer
        BY <4>1, Posted, UnderWay
      <4> QED
        BY <4>2, <4>3, <3>1, <2>1, UnderWay, MovedKeeps DEF McpInv, history
    <3>3. CASE HandshakeFails(i)
      <4>1. job'[s] = Ended(s, "error")
        BY <3>1, <3>3, <2>3 DEF HandshakeFails, Failed
      <4>2. job'[s].pc = "error" /\ job'[s].be = job[s].be /\ job'[s].name = job[s].name
            /\ job'[s].peer = job[s].peer
        BY <4>1, <3>1, EndedOK DEF McpInv, BackInv
      <4>3. CallOK(manifest[job[s].be], job'[s], effects[s], hidden[s])
        BY <4>2, <3>1, FailedCall, UnderWay
      <4> QED
        BY <4>2, <4>3, <3>1, <2>1, UnderWay, MovedKeeps DEF McpInv, history
    <3> QED
      BY <1>2, <3>2, <3>3
  <2> QED
    BY <2>2, <2>3
<1> QED
  BY <1>1, <1>2 DEF HandshakeNext

\* Refreshes and notifications, as a call sees them.
LEMMA RefreshCalls ==
  ASSUME McpInv, NEW i \in DOMAIN manifest, RefreshNext(i) \/ NoteAnswered(i), NEW s \in Reqs,
         SameReq(s), UNCHANGED declared
  PROVE  RequestOK(s)'
<1>1. /\ i \in Backends /\ Refresh(i) \in Jobs /\ Note(i) \in Jobs
      /\ Refresh(i) \notin Reqs /\ Note(i) \notin Reqs
  BY Deployed, JobsApart DEF McpInv
<1>2. UNCHANGED <<manifest, history>>
  BY DEF RefreshNext, DiscoverAnswered, ListAnswered, ListFailed, NoteAnswered
<1>3. \E j \in {Refresh(i), Note(i)} : \E jb : job' = [job EXCEPT ![j] = jb]
  BY DEF RefreshNext, DiscoverAnswered, ListAnswered, ListFailed, NoteAnswered, Try, Finish
<1> QED
  BY <1>1, <1>2, <1>3, OtherJob

\* An upstream that answers "ok" has carried out the request.
LEMMA OutcomeShape ==
  ASSUME NEW i, NEW sent, NEW o \in Outcomes(i, sent)
  PROVE  o.done \in BOOLEAN /\ (o.resp \in {"bad", "lost"} \/ (o.resp = "ok" /\ o.done))
<1>0. Accepts(i, sent) \in BOOLEAN
  <2>1. CASE sent = Sessionless
    <3>1. Accepts(i, sent) = ("next" \in manifest[i].speaks)
      BY <2>1, Zenon DEF Accepts
    <3>2. CASE "next" \in manifest[i].speaks
      <4>1. ("next" \in manifest[i].speaks) = TRUE
        BY <3>2
      <4> QED
        BY <3>1, <4>1
    <3>3. CASE "next" \notin manifest[i].speaks
      <4>1. ("next" \in manifest[i].speaks) = FALSE
        BY <3>3
      <4> QED
        BY <3>1, <4>1
    <3> QED
      BY <3>2, <3>3
  <2>2. CASE sent # Sessionless
    BY <2>2, Zenon DEF Accepts
  <2> QED
    BY <2>1, <2>2
<1>1. PICK a \in BOOLEAN : a = Accepts(i, sent)
  BY <1>0
<1>2. \/ o = [done |-> a, resp |-> IF a THEN "ok" ELSE "bad"]
      \/ o \in [done : BOOLEAN, resp : {"bad", "lost"}]
  BY <1>1 DEF Outcomes
<1> QED
  BY <1>2

\* The upstream answers, as a call sees it.
LEMMA AnswerCalls ==
  ASSUME McpInv, NEW j \in Jobs, Answer(j), NEW s \in Reqs, SameReq(s), UNCHANGED declared
  PROVE  RequestOK(s)'
<1>1. job[j].pc = "sent" /\ job[j].resp = "none" /\ UNCHANGED <<manifest, told>>
  BY DEF Answer
<1>2. PICK o \in Outcomes(job[j].be, job[j].sent) :
        /\ job' = [job EXCEPT ![j].resp = o.resp]
        /\ IF j \in Reqs
           THEN /\ effects' = [effects EXCEPT ![j] = @ + (IF o.done THEN 1 ELSE 0)]
                /\ hidden' = [hidden EXCEPT ![j] = @ + (IF o.done /\ o.resp # "ok" THEN 1 ELSE 0)]
           ELSE UNCHANGED <<effects, hidden>>
  BY DEF Answer
<1>3. effects \in [Reqs -> Nat] /\ hidden \in [Reqs -> Nat] /\ job \in [Jobs -> Job] /\ s \in Jobs
  BY JobsApart DEF McpInv, CallTypes, BackInv, BackTypes
<1>4. CASE j # s
  <2>1. job'[s] = job[s] /\ effects'[s] = effects[s] /\ hidden'[s] = hidden[s]
    BY <1>2, <1>3, <1>4
  <2>2. Same(s)
    BY <2>1, <1>1 DEF Same
  <2> QED
    BY <2>2, <1>1, SameKeeps DEF McpInv, CallInv
<1>5. CASE j = s
  <2>1. o.done \in BOOLEAN /\ (o.resp \in {"bad", "lost"} \/ (o.resp = "ok" /\ o.done))
    BY <1>2, OutcomeShape
  <2>2. /\ job'[s] = [job[s] EXCEPT !.resp = o.resp]
        /\ effects'[s] = effects[s] + (IF o.done THEN 1 ELSE 0)
        /\ hidden'[s] = hidden[s] + (IF o.done /\ o.resp # "ok" THEN 1 ELSE 0)
    BY <1>2, <1>3, <1>5
  <2>3. /\ job'[s].pc = "sent" /\ job'[s].resp = o.resp /\ job'[s].step = job[s].step
        /\ job'[s].stage = job[s].stage /\ job'[s].be = job[s].be
        /\ job'[s].name = job[s].name /\ job'[s].peer = job[s].peer
    BY <2>2, <1>1, <1>3, <1>5 DEF Job
  <2>4. CallOK(manifest[job[s].be], job[s], effects[s], hidden[s]) /\ RequestOK(s)
    BY <1>1, <1>5, UnderWay
  <2>5. PICK nb : nb = job'[s]
    OBVIOUS
  <2>6. /\ effects'[s] = effects[s] + (IF o.done THEN 1 ELSE 0)
        /\ hidden'[s] = hidden[s] + (IF o.done /\ nb.resp # "ok" THEN 1 ELSE 0)
    BY <2>2, <2>3, <2>5
  <2>7. CallOK(manifest[job[s].be], nb, effects[s] + (IF o.done THEN 1 ELSE 0),
               hidden[s] + (IF o.done /\ nb.resp # "ok" THEN 1 ELSE 0))
    BY <2>1, <2>3, <2>4, <2>5, <1>1, <1>3, <1>5, AnsweredCall
  <2>8. CallOK(manifest[job[s].be], job'[s], effects'[s], hidden'[s])
    BY <2>5, <2>6, <2>7
  <2> QED
    BY <2>3, <2>4, <2>8, <1>1, <1>5, MovedKeeps DEF McpInv
<1> QED
  BY <1>4, <1>5

\* The retries that a refused call takes.
LEMMA RefusedCall ==
  ASSUME McpInv, NEW r \in Reqs, CallRefused(r)
  PROVE  \E nb : /\ job' = [job EXCEPT ![r] = nb]
                 /\ nb.pc # "idle" /\ nb.be = job[r].be /\ nb.name = job[r].name /\ nb.peer = job[r].peer
                 /\ CallOK(manifest[job[r].be], nb, effects[r], hidden[r])
<1>1. /\ r \in Jobs /\ job[r].step = "call" /\ job[r].pc = "sent" /\ job[r].resp = "bad"
      /\ job[r] \in Job /\ effects[r] \in Nat /\ hidden[r] \in Nat
      /\ CallOK(manifest[job[r].be], job[r], effects[r], hidden[r])
  BY JobsApart, UnderWay DEF CallRefused
<1>2. job[r].be \in DOMAIN manifest /\ job[r].be \in Backends
  BY <1>1, Deployed DEF McpInv, BackInv, JobInv, JobOK
<1>3. sid[job[r].be] \in Sessions /\ NoSession \in Sessions
  BY <1>2 DEF McpInv, BackInv, BackTypes
<1>4. CASE Downgrades(r)
  <2>1. PICK jb : jb = [job[r] EXCEPT !.stage = 2]
    OBVIOUS
  <2>2. /\ jb \in Job /\ jb.stage = 2 /\ jb.step = "call"
        /\ jb.be = job[r].be /\ jb.name = job[r].name /\ jb.peer = job[r].peer
    BY <2>1, <1>1 DEF Job
  <2>3. Try(r, jb, TRUE, sid[job[r].be])
    BY <2>1, <1>4 DEF CallRefused
  <2>4. PICK nb \in Job :
          /\ job' = [job EXCEPT ![r] = nb]
          /\ nb.be = jb.be /\ nb.name = jb.name /\ nb.peer = jb.peer
          /\ nb.stage = jb.stage /\ nb.step = jb.step
          /\ nb.pc = "session" \/ (nb.pc = "sent" /\ nb.resp = "none")
    BY <2>2, <2>3, <1>1, <1>3, TryShape
  <2>5. CallOK(manifest[job[r].be], nb, effects[r], hidden[r])
    BY <2>2, <2>4, <1>1, <1>4, RetriedCall DEF Downgrades
  <2> QED
    BY <2>2, <2>4, <2>5
<1>5. CASE ~Downgrades(r) /\ Resets(r)
  <2>1. PICK jb : jb = [job[r] EXCEPT !.stage = 3]
    OBVIOUS
  <2>2. /\ jb \in Job /\ jb.stage = 3 /\ jb.step = "call"
        /\ jb.be = job[r].be /\ jb.name = job[r].name /\ jb.peer = job[r].peer
    BY <2>1, <1>1 DEF Job
  <2>3. Try(r, jb, down[job[r].be], NoSession)
    BY <2>1, <1>5 DEF CallRefused
  <2>4. PICK nb \in Job :
          /\ job' = [job EXCEPT ![r] = nb]
          /\ nb.be = jb.be /\ nb.name = jb.name /\ nb.peer = jb.peer
          /\ nb.stage = jb.stage /\ nb.step = jb.step
          /\ nb.pc = "session" \/ (nb.pc = "sent" /\ nb.resp = "none")
    BY <2>2, <2>3, <1>1, <1>3, TryShape
  <2>5. CallOK(manifest[job[r].be], nb, effects[r], hidden[r])
    BY <2>2, <2>4, <1>1, <1>5, RetriedCall DEF Resets, NeedsSession
  <2> QED
    BY <2>2, <2>4, <2>5
<1>6. CASE ~Downgrades(r) /\ ~Resets(r)
  <2>1. job' = [job EXCEPT ![r] = Ended(r, "error")]
    BY <1>6 DEF CallRefused, Finish
  <2>2. PICK nb : nb = Ended(r, "error")
    OBVIOUS
  <2>3. nb.pc = "error" /\ nb.be = job[r].be /\ nb.name = job[r].name /\ nb.peer = job[r].peer
    BY <2>2, <1>1, EndedOK DEF McpInv, BackInv
  <2>4. CallOK(manifest[job[r].be], nb, effects[r], hidden[r])
    BY <2>3, <1>1, FailedCall
  <2> QED
    BY <2>1, <2>2, <2>3, <2>4
<1> QED
  BY <1>4, <1>5, <1>6

\* A call that ends, or whose answer has arrived.
LEMMA FinishedCall ==
  ASSUME McpInv, NEW r \in Reqs, CallLost(r) \/ CallAccepted(r) \/ StreamEnds(r)
  PROVE  \E nb : /\ job' = [job EXCEPT ![r] = nb]
                 /\ nb.pc # "idle" /\ nb.be = job[r].be /\ nb.name = job[r].name /\ nb.peer = job[r].peer
                 /\ CallOK(manifest[job[r].be], nb, effects[r], hidden[r])
<1>1. PICK outcome \in {"stream", "ok", "error"} :
        /\ Finish(r, outcome)
        /\ \/ job[r].pc = "sent" /\ job[r].resp = "lost" /\ outcome = "error"
           \/ job[r].pc = "sent" /\ job[r].resp = "ok" /\ outcome = "stream"
           \/ job[r].pc = "stream" /\ outcome \in {"ok", "error"}
  BY DEF CallLost, CallAccepted, StreamEnds
<1>2. /\ r \in Jobs /\ job[r] \in Job /\ effects[r] \in Nat /\ hidden[r] \in Nat
      /\ CallOK(manifest[job[r].be], job[r], effects[r], hidden[r])
  BY <1>1, JobsApart, UnderWay
<1>3. PICK nb : nb = Ended(r, outcome)
  OBVIOUS
<1>4. nb.pc = outcome /\ nb.be = job[r].be /\ nb.name = job[r].name /\ nb.peer = job[r].peer
  BY <1>2, <1>3, EndedOK DEF McpInv, BackInv
<1>5. CASE outcome = "error"
  <2>1. CallOK(manifest[job[r].be], nb, effects[r], hidden[r])
    BY <1>1, <1>2, <1>4, <1>5, FailedCall
  <2> QED
    BY <2>1, <1>1, <1>3, <1>4 DEF Finish
<1>6. CASE outcome # "error"
  <2>1. CallOK(manifest[job[r].be], nb, effects[r], hidden[r])
    BY <1>1, <1>2, <1>4, <1>6, AcceptedCall
  <2> QED
    BY <2>1, <1>1, <1>3, <1>4 DEF Finish
<1> QED
  BY <1>5, <1>6

\* The steps of a call, as it and as the others see them.
LEMMA CallCalls ==
  ASSUME McpInv, NEW r \in Reqs, CallNext(r), NEW s \in Reqs, SameReq(s), UNCHANGED declared
  PROVE  RequestOK(s)'
<1>1. UNCHANGED <<manifest, history>> /\ job[r].pc # "idle"
  BY DEF CallNext, CallRefused, CallLost, CallAccepted, StreamEnds
<1>2. PICK nb : /\ job' = [job EXCEPT ![r] = nb]
                /\ nb.pc # "idle" /\ nb.be = job[r].be /\ nb.name = job[r].name /\ nb.peer = job[r].peer
                /\ CallOK(manifest[job[r].be], nb, effects[r], hidden[r])
  BY RefusedCall, FinishedCall DEF CallNext
<1>3. job'[s] = IF s = r THEN nb ELSE job[s]
  BY <1>2, JobsApart DEF McpInv, BackInv, BackTypes
<1>4. CASE s # r
  <2>1. Same(s)
    BY <1>1, <1>3, <1>4 DEF Same, history
  <2> QED
    BY <2>1, <1>1, SameKeeps DEF McpInv, CallInv
<1>5. CASE s = r
  <2>1. job'[s] = nb /\ effects'[s] = effects[s] /\ hidden'[s] = hidden[s] /\ told' = told
    BY <1>1, <1>3, <1>5 DEF history
  <2> QED
    BY <2>1, <1>1, <1>2, <1>5, UnderWay, MovedKeeps DEF McpInv
<1> QED
  BY <1>4, <1>5

\* An upstream asks for roots and is told those of the caller.
LEMMA RootsTold ==
  ASSUME McpInv, NEW r \in Reqs, HandleReverseRpc(r), NEW s \in Reqs, SameReq(s), UNCHANGED declared
  PROVE  RequestOK(s)'
<1>1. /\ job[r].pc = "stream" /\ told' = [told EXCEPT ![r] = @ \cup roots[job[r].peer]]
      /\ UNCHANGED <<manifest, job, effects, hidden>>
  BY DEF HandleReverseRpc
<1>2. req[r].pc = "calling" /\ job[r].peer = req[r].peer /\ req[r].peer \in Peers
  BY <1>1, UnderWay DEF RequestOK, ReqOK, McpInv, CallTypes, Req
<1>3. roots[req[r].peer] \subseteq declared[req[r].peer] /\ roots[req[r].peer] \subseteq Locations
  BY <1>2 DEF McpInv, CallTypes, CallInv
<1>4. told'[s] = IF s = r THEN told[s] \cup roots[job[r].peer] ELSE told[s]
  BY <1>1, <1>2, <1>3 DEF McpInv, CallTypes
<1>5. CASE s # r
  <2>1. Same(s)
    BY <1>1, <1>4, <1>5 DEF Same
  <2> QED
    BY <2>1, <1>1, <1>4, SameKeeps DEF McpInv, CallInv
<1>6. CASE s = r
  <2>1. ReqOK(manifest, req[s], job[s], effects[s], hidden[s])'
    BY <1>1, UnderWay DEF RequestOK, ReqOK, SameReq
  <2>2. ToldOK(req[s], told[s])'
    BY <1>2, <1>3, <1>4, <1>6, UnderWay DEF RequestOK, ToldOK, SameReq
  <2> QED
    BY <2>1, <2>2 DEF RequestOK
<1> QED
  BY <1>5, <1>6

\* The history keeps its types.
LEMMA HistoryTypes ==
  ASSUME McpInv, ProxyNext
  PROVE  /\ effects' \in [Reqs -> Nat] /\ hidden' \in [Reqs -> Nat]
         /\ told' \in [Reqs -> SUBSET Locations]
<1>1. effects \in [Reqs -> Nat] /\ hidden \in [Reqs -> Nat] /\ told \in [Reqs -> SUBSET Locations]
  BY DEF McpInv, CallTypes
<1>2. ASSUME NEW i \in DOMAIN manifest,
             HandshakeNext(i) \/ RefreshNext(i) \/ NoteAnswered(i) \/ Restart(i) \/ Expire(i)
      PROVE  UNCHANGED history
  BY <1>2 DEF HandshakeNext, InitializeAnswered, NotifyArrives, HandshakeDone, HandshakeFails,
              RefreshNext, DiscoverAnswered, ListAnswered, ListFailed, NoteAnswered, Restart, Expire
<1>3. ASSUME NEW j \in Jobs, Answer(j)
      PROVE  UNCHANGED told /\ effects' \in [Reqs -> Nat] /\ hidden' \in [Reqs -> Nat]
  BY <1>1, <1>3 DEF Answer
<1>4. ASSUME NEW r \in Reqs, CallNext(r) PROVE UNCHANGED history
  BY <1>4 DEF CallNext, CallRefused, CallLost, CallAccepted, StreamEnds
<1>5. ASSUME NEW r \in Reqs, HandleReverseRpc(r)
      PROVE  UNCHANGED <<effects, hidden>> /\ told' \in [Reqs -> SUBSET Locations]
  <2>1. job[r].peer \in Peers
    BY <1>5, UnderWay DEF HandleReverseRpc, RequestOK, ReqOK, McpInv, CallTypes, Req
  <2>2. roots[job[r].peer] \in SUBSET Locations
    BY <2>1 DEF McpInv, CallTypes
  <2> QED
    BY <2>2, <1>1, <1>5 DEF HandleReverseRpc
<1> QED
  BY <1>1, <1>2, <1>3, <1>4, <1>5 DEF ProxyNext, history

\* A step of the backends keeps the calls.
LEMMA ProxyStepKeeps == McpInv /\ ProxyStep => McpInv'
<1> SUFFICES ASSUME McpInv, ProxyNext, UNCHANGED declared,
                    req' = [r \in Reqs |->
                              [req[r] EXCEPT !.waits = {i \in @ : job'[Refresh(i)].pc # "idle"}]]
             PROVE  McpInv'
  BY DEF ProxyStep
<1>1. BackInv'
  BY ProxyNextKeeps DEF McpInv
<1>2. ASSUME NEW s \in Reqs PROVE SameReq(s) /\ req'[s] \in Req
  <2>1. req[s] \in Req
    BY DEF McpInv, CallTypes
  <2>2. PICK w : w = {i \in req[s].waits : job'[Refresh(i)].pc # "idle"}
    OBVIOUS
  <2>3. req'[s] = [req[s] EXCEPT !.waits = w] /\ w \in SUBSET Backends
    BY <2>1, <2>2 DEF Req
  <2> QED
    BY <2>1, <2>3 DEF SameReq, Req
<1>3. UNCHANGED <<manifest, roots>>
  BY DEF ProxyNext, HandshakeNext, InitializeAnswered, NotifyArrives, HandshakeDone, HandshakeFails,
         RefreshNext, DiscoverAnswered, ListAnswered, ListFailed, NoteAnswered, Restart, Expire,
         Answer, CallNext, CallRefused, CallLost, CallAccepted, StreamEnds, HandleReverseRpc
<1>4. ASSUME NEW s \in Reqs PROVE RequestOK(s)'
  <2>1. SameReq(s)
    BY <1>2
  <2>2. ASSUME NEW i \in DOMAIN manifest, Restart(i) \/ Expire(i) PROVE RequestOK(s)'
    BY <2>1, <2>2, NoJobMoves DEF Restart, Expire
  <2> QED
    BY <2>1, <2>2, HandshakeCalls, RefreshCalls, AnswerCalls, CallCalls, RootsTold DEF ProxyNext
<1>5. CallTypes'
  <2>1. req' \in [Reqs -> Req]
    BY <1>2
  <2> QED
    BY <2>1, <1>3, HistoryTypes DEF McpInv, CallTypes
<1>6. CallInv'
  BY <1>3, <1>4 DEF McpInv, CallInv
<1> QED
  BY <1>1, <1>5, <1>6 DEF McpInv

\* A step of the route for one request, which leaves the other calls alone.
LEMMA RouteStep ==
  ASSUME McpInv, BackInv', NEW r \in Reqs,
         req' \in [Reqs -> Req], \A s \in Reqs \ {r} : req'[s] = req[s] /\ job'[s] = job[s],
         UNCHANGED <<manifest, history>>,
         roots' \in [Peers -> SUBSET Locations], declared' \in [Peers -> SUBSET Locations],
         \A p \in Peers : roots'[p] \subseteq declared'[p] /\ declared[p] \subseteq declared'[p],
         ReqOK(manifest, req'[r], job'[r], effects[r], hidden[r]),
         told[r] = {}  \/ (req'[r].pc = "done" /\ req'[r].peer = req[r].peer)
  PROVE  McpInv'
<1>1. CallTypes'
  BY DEF McpInv, CallTypes, history
<1>2. ASSUME NEW s \in Reqs PROVE RequestOK(s)'
  <2>1. CASE s # r
    <3>1. Same(s)
      BY <2>1 DEF Same, SameReq, history
    <3> QED
      BY <3>1, SameKeeps DEF McpInv, CallInv
  <2>2. CASE s = r
    <3>1. ReqOK(manifest, req[s], job[s], effects[s], hidden[s])'
      BY <2>2 DEF history
    <3>2. ToldOK(req[s], told[s]) /\ req[s].peer \in Peers
      BY DEF McpInv, CallInv, CallTypes, RequestOK, Req
    <3>3. ToldOK(req[s], told[s])'
      BY <2>2, <3>2 DEF ToldOK, history
    <3> QED
      BY <3>1, <3>3 DEF RequestOK
  <2> QED
    BY <2>1, <2>2
<1>3. CallInv'
  BY <1>2 DEF CallInv
<1> QED
  BY <1>1, <1>3 DEF McpInv

\* A request that is new has had no effect and told nobody anything.
LEMMA NewRequest ==
  ASSUME McpInv, NEW r \in Reqs, req[r].pc \in {"new", "listing"}
  PROVE  /\ req[r] \in Req /\ req[r].be = 0 /\ job[r].pc = "idle" /\ told[r] = {}
         /\ effects[r] = 0 /\ hidden[r] = 0 /\ req[r].answer = "none"
  BY DEF McpInv, CallTypes, CallInv, RequestOK, ReqOK, ToldOK

\* A request that is answered at once.
LEMMA AnsweredNow ==
  ASSUME McpInv, NEW r \in Reqs, NEW answer \in {"refused", "ok", "error"}, AnswerNow(r, answer)
  PROVE  /\ req' \in [Reqs -> Req] /\ \A s \in Reqs \ {r} : req'[s] = req[s]
         /\ req'[r].pc = "done" /\ req'[r].be = req[r].be /\ req'[r].listed = req[r].listed
<1>1. req \in [Reqs -> Req] /\ req[r] \in Req
  BY DEF McpInv, CallTypes
<1>2. PICK q : q = [req[r] EXCEPT !.pc = "done", !.answer = answer]
  OBVIOUS
<1>3. q \in Req /\ q.pc = "done" /\ q.be = req[r].be /\ q.listed = req[r].listed
  BY <1>1, <1>2 DEF Req
<1>4. req' = [req EXCEPT ![r] = q]
  BY <1>1, <1>2 DEF AnswerNow
<1> QED
  BY <1>1, <1>3, <1>4

\* An answer at once keeps the invariant, whatever else the step does to the
\* jobs of refreshes and notifications, and to roots.
LEMMA AnswerNowKeeps ==
  ASSUME McpInv, BackInv', NEW r \in Reqs, NEW answer \in {"refused", "ok", "error"},
         req[r].pc = "new", AnswerNow(r, answer), \A s \in Reqs : job'[s] = job[s],
         UNCHANGED <<manifest, history>>,
         roots' \in [Peers -> SUBSET Locations], declared' \in [Peers -> SUBSET Locations],
         \A p \in Peers : roots'[p] \subseteq declared'[p] /\ declared[p] \subseteq declared'[p]
  PROVE  McpInv'
<1>1. /\ req' \in [Reqs -> Req] /\ \A s \in Reqs \ {r} : req'[s] = req[s]
      /\ req'[r].pc = "done" /\ req'[r].be = req[r].be
  BY AnsweredNow
<1>2. req[r].be = 0 /\ job[r].pc = "idle" /\ told[r] = {} /\ effects[r] = 0 /\ hidden[r] = 0
  BY NewRequest
<1>3. ReqOK(manifest, req'[r], job'[r], effects[r], hidden[r])
  BY <1>1, <1>2 DEF ReqOK
<1> QED
  BY <1>1, <1>2, <1>3, RouteStep

\* The roots are as they were.
LEMMA RootsKept ==
  ASSUME McpInv, UNCHANGED <<roots, declared>>
  PROVE  /\ roots' \in [Peers -> SUBSET Locations] /\ declared' \in [Peers -> SUBSET Locations]
         /\ \A p \in Peers : roots'[p] \subseteq declared'[p] /\ declared[p] \subseteq declared'[p]
  BY DEF McpInv, CallTypes, CallInv

\* Methods that answer at once.
LEMMA LocalKeeps ==
  ASSUME McpInv, NEW r \in Reqs, Refuse(r) \/ AnswerLocally(r)
  PROVE  McpInv'
<1>1. /\ req[r].pc = "new" /\ (AnswerNow(r, "refused") \/ AnswerNow(r, "ok"))
      /\ UNCHANGED <<proxyVars, declared>>
  BY DEF Refuse, AnswerLocally
<1>2. BackInv'
  BY <1>1, BackUnchanged DEF McpInv, proxyVars, backendVars, upstreamVars
<1> QED
  BY <1>1, <1>2, RootsKept, AnswerNowKeeps DEF Refuse, AnswerLocally, proxyVars

\* initialize may replace the peer's roots.
LEMMA InitializeKeeps ==
  ASSUME McpInv, NEW r \in Reqs, NEW p \in Peers, Initialize(r, p)
  PROVE  McpInv'
<1>1. BackInv'
  BY BackUnchanged DEF McpInv, Initialize, backendVars, upstreamVars
<1>2. /\ roots' \in [Peers -> SUBSET Locations] /\ declared' \in [Peers -> SUBSET Locations]
      /\ \A x \in Peers : roots'[x] \subseteq declared'[x] /\ declared[x] \subseteq declared'[x]
  <2>1. CASE UNCHANGED <<roots, declared>>
    BY <2>1, RootsKept
  <2>2. ASSUME NEW rs \in Roots, SetRoots(p, rs), declared' = [declared EXCEPT ![p] = @ \cup rs]
        PROVE  /\ roots' \in [Peers -> SUBSET Locations] /\ declared' \in [Peers -> SUBSET Locations]
               /\ \A x \in Peers : roots'[x] \subseteq declared'[x] /\ declared[x] \subseteq declared'[x]
    <3>1. rs \subseteq Locations
      BY DEF Locations
    <3> QED
      BY <2>2, <3>1 DEF SetRoots, McpInv, CallTypes, CallInv
  <2> QED
    BY <2>1, <2>2 DEF Initialize, CaptureRootsFromInitialize
<1> QED
  BY <1>1, <1>2, AnswerNowKeeps DEF Initialize

\* Changed roots are forgotten.
LEMMA RootsChangedKeeps ==
  ASSUME McpInv, NEW r \in Reqs, NEW p \in Peers, RootsListChanged(r, p)
  PROVE  McpInv'
<1>1. BackInv' /\ \A s \in Reqs : job'[s] = job[s]
  BY RootsListChangedKeeps DEF McpInv
<1>2. /\ req[r].pc = "new" /\ roots' = [roots EXCEPT ![p] = {}] /\ AnswerNow(r, "ok")
      /\ UNCHANGED <<manifest, history, declared>>
  BY DEF RootsListChanged, ClearRoots
<1>3. /\ roots' \in [Peers -> SUBSET Locations] /\ declared' \in [Peers -> SUBSET Locations]
      /\ \A x \in Peers : roots'[x] \subseteq declared'[x] /\ declared[x] \subseteq declared'[x]
  BY <1>2 DEF McpInv, CallTypes, CallInv
<1> QED
  BY <1>1, <1>2, <1>3, AnswerNowKeeps

\* tools/list begins.
LEMMA ListingKeeps ==
  ASSUME McpInv, NEW r \in Reqs, ToolsList(r)
  PROVE  McpInv'
<1>1. BackInv' /\ \A s \in Reqs : job'[s] = job[s]
  BY ToolsListKeeps DEF McpInv
<1>2. req[r].pc = "new" /\ UNCHANGED <<manifest, roots, history, declared>>
  BY DEF ToolsList
<1>3. PICK joined \in SUBSET Backends :
        req' = [req EXCEPT ![r].pc = "listing", ![r].waits = joined]
  <2>1. DOMAIN manifest \subseteq Backends
    BY Deployed DEF McpInv
  <2> QED
    BY <2>1 DEF ToolsList
<1>4. req \in [Reqs -> Req] /\ req[r] \in Req
  BY DEF McpInv, CallTypes
<1>5. PICK q : q = [req[r] EXCEPT !.pc = "listing", !.waits = joined]
  OBVIOUS
<1>6. q \in Req /\ q.pc = "listing" /\ q.be = req[r].be /\ q.answer = req[r].answer
  BY <1>4, <1>5 DEF Req
<1>7. req' = [req EXCEPT ![r] = q]
  BY <1>3, <1>4, <1>5
<1>8. ReqOK(manifest, req'[r], job'[r], effects[r], hidden[r]) /\ told[r] = {}
  BY <1>1, <1>2, <1>4, <1>6, <1>7, NewRequest DEF ReqOK
<1> QED
  BY <1>1, <1>2, <1>4, <1>6, <1>7, <1>8, RootsKept, RouteStep

\* What is listed are names.
LEMMA ListedNames ==
  ASSUME DerivedInv
  PROVE  AllTools(manifest, derived) \subseteq Seq(STRING)
<1> SUFFICES ASSUME NEW i \in DOMAIN manifest, NEW t \in Tools(manifest[i], derived[i])
             PROVE  t \in Seq(STRING)
  BY DEF AllTools
<1>1. /\ manifest[i].prefix \in Seq(STRING) /\ manifest[i].asserted \subseteq Seq(STRING)
      /\ derived[i] \subseteq Seq(STRING)
  BY Entries, Constants DEF DerivedInv, Upstreams
<1>2. CASE t \in manifest[i].asserted
  BY <1>1, <1>2
<1>3. CASE t \notin manifest[i].asserted
  <2>1. PICK u \in derived[i] : t = AdvertisedName(manifest[i], u)
    BY <1>3 DEF Tools
  <2>2. u \in Seq(STRING) /\ manifest[i].prefix \o u \in Seq(STRING)
    BY <1>1, <2>1
  <2> QED
    BY <2>1, <2>2 DEF AdvertisedName
<1> QED
  BY <1>2, <1>3

\* tools/list is answered.
LEMMA ListedKeeps ==
  ASSUME McpInv, NEW r \in Reqs, ToolsListed(r)
  PROVE  McpInv'
<1>1. BackInv' /\ UNCHANGED <<manifest, job, roots, history, declared>> /\ req[r].pc = "listing"
  BY BackUnchanged DEF McpInv, ToolsListed, proxyVars, backendVars, upstreamVars
<1>2. PICK l : l = AllTools(manifest, derived)
  OBVIOUS
<1>3. l \in SUBSET Seq(STRING)
  BY <1>2, ListedNames DEF McpInv, BackInv, BackTypes
<1>4. req \in [Reqs -> Req] /\ req[r] \in Req
  BY DEF McpInv, CallTypes
<1>5. PICK q : q = [req[r] EXCEPT !.pc = "done", !.answer = "ok", !.listed = l]
  OBVIOUS
<1>6. q \in Req /\ q.pc = "done" /\ q.be = req[r].be
  BY <1>3, <1>4, <1>5 DEF Req
<1>7. req' = [req EXCEPT ![r] = q]
  BY <1>2, <1>4, <1>5 DEF ToolsListed
<1>8. ReqOK(manifest, req'[r], job'[r], effects[r], hidden[r]) /\ told[r] = {}
  BY <1>1, <1>4, <1>6, <1>7, NewRequest DEF ReqOK
<1> QED
  BY <1>1, <1>4, <1>6, <1>7, <1>8, RootsKept, RouteStep

\* The origin of a receipt is the route of the name, or none.
LEMMA OriginOK ==
  ASSUME BackInv, NEW name
  PROVE  OriginsForRequest(name) \in {0, Route(name)} /\ OriginsForRequest(name) \in Backends \cup {0}
<1>1. BackendFor(manifest, derived, name) = Route(name)
  BY RouteStable DEF BackInv, BackTypes
<1>2. Route(name) \in Backends \cup {0}
  BY RouteHandles, Deployed
<1> QED
  BY <1>1, <1>2 DEF OriginsForRequest

\* bead_create under a lease.
LEMMA BeadCreateKeeps ==
  ASSUME McpInv, NEW r \in Reqs, NEW p \in Peers, CallBeadCreate(r, p)
  PROVE  McpInv'
<1>1. BackInv' /\ UNCHANGED <<manifest, job, roots, history, declared>> /\ req[r].pc = "new"
  BY BackUnchanged DEF McpInv, CallBeadCreate, proxyVars, backendVars, upstreamVars
<1>2. PICK o : o = OriginsForRequest(BeadCreateTool)
  OBVIOUS
<1>3. o \in Backends \cup {0}
  BY <1>2, OriginOK DEF McpInv
<1>4. req \in [Reqs -> Req] /\ req[r] \in Req
  BY DEF McpInv, CallTypes
<1>5. PICK q : q = [req[r] EXCEPT !.pc = "done", !.answer = "ok", !.peer = p, !.origin = o]
  OBVIOUS
<1>6. q \in Req /\ q.pc = "done" /\ q.be = req[r].be
  BY <1>3, <1>4, <1>5 DEF Req
<1>7. req' = [req EXCEPT ![r] = q]
  BY <1>2, <1>4, <1>5 DEF CallBeadCreate
<1>8. ReqOK(manifest, req'[r], job'[r], effects[r], hidden[r]) /\ told[r] = {}
  BY <1>1, <1>4, <1>6, <1>7, NewRequest DEF ReqOK
<1> QED
  BY <1>1, <1>4, <1>6, <1>7, <1>8, RootsKept, RouteStep

\* A call goes to the route of its name.
LEMMA CallToolKeeps ==
  ASSUME McpInv, NEW r \in Reqs, NEW p \in Peers, NEW name \in Names, CallTool(r, p, name)
  PROVE  McpInv'
<1>1. PICK i : i = BackendFor(manifest, derived, name)
  OBVIOUS
<1>2. i = Route(name) /\ i \in DOMAIN manifest \cup {0}
  BY <1>1, RouteStable, RouteHandles, Deployed DEF McpInv, BackInv, BackTypes
<1>3. req[r].pc = "new" /\ UNCHANGED <<manifest, derived, fresh, roots, upstreamVars, history, declared>>
  BY DEF CallTool
<1>4. CASE i = 0 \/ manifest[i].url = "none"
  <2>1. AnswerNow(r, "error") /\ UNCHANGED <<job, down, sid, handshake>>
    BY <1>1, <1>4 DEF CallTool
  <2>2. BackInv'
    BY <2>1, <1>3, BackUnchanged DEF McpInv, upstreamVars
  <2> QED
    BY <2>1, <2>2, <1>3, RootsKept, AnswerNowKeeps
<1>5. CASE ~(i = 0 \/ manifest[i].url = "none")
  <2>1. PICK jb : jb = NewJob(i, "call", name, p, 1)
    OBVIOUS
  <2>2. Try(r, jb, down[i], sid[i]) /\ req' = [req EXCEPT ![r].pc = "calling", ![r].peer = p, ![r].be = i]
    BY <2>1, <1>1, <1>5 DEF CallTool
  <2>3. i \in DOMAIN manifest /\ i \in Backends /\ i # 0
    BY <1>2, <1>5, Deployed DEF McpInv
  <2>4. /\ jb \in Job /\ jb.be = i /\ jb.step = "call" /\ jb.name = name /\ jb.peer = p /\ jb.stage = 1
    BY <2>1, <2>3, Begun
  <2>5. r \in Jobs /\ down[i] \in BOOLEAN /\ sid[i] \in Sessions /\ job \in [Jobs -> Job]
    BY <2>3, JobsApart DEF McpInv, BackInv, BackTypes
  <2>6. PICK nb \in Job :
          /\ job' = [job EXCEPT ![r] = nb]
          /\ nb.be = jb.be /\ nb.name = jb.name /\ nb.peer = jb.peer
          /\ nb.stage = jb.stage /\ nb.step = jb.step
          /\ nb.pc = "session" \/ (nb.pc = "sent" /\ nb.resp = "none")
    BY <2>2, <2>4, <2>5, TryShape
  <2>7. BackInv'
    BY <2>2, <2>3, <2>4, <2>5, <1>3, TryKeeps, JobsApart DEF McpInv, upstreamVars
  <2>8. req \in [Reqs -> Req] /\ req[r] \in Req
    BY DEF McpInv, CallTypes
  <2>9. PICK q : q = [req[r] EXCEPT !.pc = "calling", !.peer = p, !.be = i]
    OBVIOUS
  <2>10. q \in Req /\ q.pc = "calling" /\ q.be = i /\ q.peer = p /\ q.answer = req[r].answer
    BY <2>3, <2>8, <2>9 DEF Req
  <2>11. req' = [req EXCEPT ![r] = q]
    BY <2>2, <2>8, <2>9
  <2>12. /\ req[r].answer = "none" /\ told[r] = {} /\ effects[r] = 0 /\ hidden[r] = 0
    BY <1>3, NewRequest
  <2>13. CallOK(manifest[i], nb, effects[r], hidden[r])
    BY <2>4, <2>6, <2>12 DEF CallOK, Trying, Earlier
  <2>14. BackendFor(manifest, NothingDerived, nb.name) = i
    BY <2>4, <2>6, <1>2 DEF Route
  <2>15. job'[r] = nb /\ req'[r] = q /\ \A s \in Reqs \ {r} : req'[s] = req[s] /\ job'[s] = job[s]
    BY <2>5, <2>6, <2>8, <2>11, JobsApart
  <2>16. ReqOK(manifest, q, nb, effects[r], hidden[r])
    BY <2>3, <2>4, <2>6, <2>10, <2>12, <2>13, <2>14 DEF ReqOK
  <2>17. req' \in [Reqs -> Req]
    BY <2>8, <2>10, <2>11
  <2> QED
    BY <2>7, <2>12, <2>15, <2>16, <2>17, <1>3, RootsKept, RouteStep
<1> QED
  BY <1>4, <1>5

\* A call is answered.
LEMMA CallDoneKeeps ==
  ASSUME McpInv, NEW r \in Reqs, CallDone(r)
  PROVE  McpInv'
<1>1. /\ req[r].pc = "calling" /\ job[r].pc \in {"ok", "error"} /\ job' = [job EXCEPT ![r] = NoJob]
      /\ UNCHANGED <<manifest, backendVars, roots, upstreamVars, history, declared>>
  BY DEF CallDone
<1>2. r \in Jobs /\ job \in [Jobs -> Job] /\ req \in [Reqs -> Req] /\ req[r] \in Req
  BY JobsApart DEF McpInv, BackInv, BackTypes, CallTypes
<1>3. BackInv'
  BY <1>1, <1>2, NoJobOK, JobChanges DEF McpInv, backendVars, upstreamVars
<1>4. /\ req[r].be \in DOMAIN manifest /\ Route(job[r].name) = req[r].be
      /\ CallOK(manifest[req[r].be], job[r], effects[r], hidden[r])
  BY <1>1, UnderWay DEF RequestOK, ReqOK, Route
<1>5. PICK o, a : /\ o = IF req[r].peer = Anonymous THEN 0 ELSE OriginsForRequest(job[r].name)
                  /\ a = job[r].pc
  OBVIOUS
<1>6. o \in {0, req[r].be} /\ o \in Backends \cup {0} /\ a \in {"ok", "error"}
  BY <1>1, <1>4, <1>5, OriginOK DEF McpInv
<1>7. PICK q : q = [req[r] EXCEPT !.pc = "done", !.answer = a, !.origin = o]
  OBVIOUS
<1>8. q \in Req /\ q.pc = "done" /\ q.be = req[r].be /\ q.origin = o /\ q.answer = a /\ q.peer = req[r].peer
  BY <1>2, <1>6, <1>7 DEF Req
<1>9. req' = [req EXCEPT ![r] = q]
  BY <1>2, <1>5, <1>7 DEF CallDone
<1>10. Tried(manifest[q.be], q.answer, effects[r], hidden[r])
  BY <1>1, <1>4, <1>5, <1>8 DEF CallOK
<1>11. req[r].be # 0
  BY <1>4, Deployed, Entries DEF McpInv
<1>12. job'[r] = NoJob /\ req'[r] = q /\ \A s \in Reqs \ {r} : req'[s] = req[s] /\ job'[s] = job[s]
  BY <1>1, <1>2, <1>9, JobsApart
<1>13. ReqOK(manifest, q, NoJob, effects[r], hidden[r])
  BY <1>6, <1>8, <1>10, <1>11, NoJobOK DEF ReqOK
<1>14. req' \in [Reqs -> Req]
  BY <1>2, <1>8, <1>9
<1> QED
  BY <1>1, <1>3, <1>8, <1>12, <1>13, <1>14, RootsKept, RouteStep

-----------------------------------------------------------------------------
(***************************************************************************)
(* The theorems                                                            *)
(***************************************************************************)

\* Nothing is under way at first.
LEMMA McpInit == Init => McpInv
<1> SUFFICES ASSUME Init PROVE McpInv
  OBVIOUS
<1>1. manifest \in Manifests /\ Validate(manifest)
  BY DEF Init, ProxyInit
<1>2. DerivedInv
  BY <1>1 DEF Init, ProxyInit, DerivedInv
<1>3. MaxSessions \in Nat /\ 0 \in 0..MaxSessions
  BY Constants
<1>4. BackTypes
  BY <1>2, <1>3, NoJobOK DEF Init, ProxyInit, BackTypes, NoSession
<1>5. JobInv
  BY NoJobOK, JobsApart DEF Init, ProxyInit, JobInv, JobOK
<1>6. UpInv
  BY DEF Init, ProxyInit, UpInv
<1>7. NoReq \in Req /\ NoReq.pc = "new" /\ NoReq.be = 0 /\ NoReq.answer = "none" /\ NoReq.peer = Anonymous
  BY Constants DEF NoReq, Req
<1>8. CallTypes
  BY <1>7 DEF Init, ProxyInit, CallTypes
<1>9. ASSUME NEW r \in Reqs PROVE RequestOK(r)
  <2>1. req[r] = NoReq /\ job[r] = NoJob /\ effects[r] = 0 /\ hidden[r] = 0 /\ told[r] = {}
    BY JobsApart DEF Init, ProxyInit
  <2>2. ReqOK(manifest, req[r], job[r], effects[r], hidden[r])
    BY <2>1, <1>7, NoJobOK DEF ReqOK
  <2> QED
    BY <2>1, <2>2 DEF RequestOK, ToldOK
<1>10. CallInv
  BY <1>9 DEF Init, ProxyInit, CallInv
<1> QED
  BY <1>4, <1>5, <1>6, <1>8, <1>10 DEF McpInv, BackInv

\* Every step keeps the invariant.
LEMMA McpStep == McpInv /\ [Next]_vars => McpInv'
<1> SUFFICES ASSUME McpInv, [Next]_vars PROVE McpInv'
  OBVIOUS
<1>1. CASE ProxyStep
  BY <1>1, ProxyStepKeeps
<1>2. ASSUME NEW r \in Reqs, Refuse(r) \/ AnswerLocally(r) PROVE McpInv'
  BY <1>2, LocalKeeps
<1>3. ASSUME NEW r \in Reqs, ToolsList(r) \/ Finished(r) PROVE McpInv'
  BY <1>3, ListingKeeps, ListedKeeps, CallDoneKeeps DEF Finished
<1>4. ASSUME NEW r \in Reqs, NEW p \in Peers,
             Initialize(r, p) \/ RootsListChanged(r, p) \/ CallBeadCreate(r, p)
      PROVE  McpInv'
  BY <1>4, InitializeKeeps, RootsChangedKeeps, BeadCreateKeeps
<1>5. ASSUME NEW r \in Reqs, NEW p \in Peers, NEW name \in Names, CallTool(r, p, name) PROVE McpInv'
  BY <1>5, CallToolKeeps
<1>6. CASE UNCHANGED vars
  <2>1. BackInv'
    BY <1>6, BackUnchanged DEF McpInv, vars, proxyVars, backendVars, upstreamVars
  <2>2. UNCHANGED <<manifest, job, roots, effects, hidden, told, req, declared>>
    BY <1>6 DEF vars, proxyVars, history, routeVars
  <2>3. CallTypes'
    BY <2>2 DEF McpInv, CallTypes
  <2>4. CallInv'
    BY <2>2 DEF McpInv, CallInv, RequestOK, ReqOK, ToldOK
  <2> QED
    BY <2>1, <2>3, <2>4 DEF McpInv
<1> QED
  BY <1>1, <1>2, <1>3, <1>4, <1>5, <1>6 DEF Next

\* The inductive invariant: who waits has a handshake, a call keeps to the
\* route of its name, and its stage bounds the executions before it.
THEOREM McpInvariant == Spec => []McpInv
<1> QED
  BY McpInit, McpStep, PTL DEF Spec

\* Calls are kept apart, for any requests, peers and manifests: a job that
\* waits for a session has a handshake to wait for, a receipt names the backend
\* the call went to though refreshes ran meanwhile, and an upstream is told the
\* roots of its caller only.
THEOREM McpCallsApart == Spec => []CallsApart
<1>1. ASSUME McpInv PROVE CallsApart
  <2>1. TypeOK
    BY <1>1 DEF McpInv, BackInv, BackTypes, DerivedInv, UpInv, CallTypes, TypeOK
  <2>2. WaitersHaveHandshake
    BY <1>1 DEF McpInv, BackInv, JobInv, JobOK, WaitersHaveHandshake, Waiting
  <2>3. OriginIsTheSource
    BY <1>1 DEF McpInv, CallInv, RequestOK, ReqOK, OriginIsTheSource
  <2>4. RootsAreTheCallers
    BY <1>1 DEF McpInv, CallInv, RequestOK, ToldOK, RootsAreTheCallers
  <2> QED
    BY <2>1, <2>2, <2>3, <2>4 DEF CallsApart
<1> QED
  BY <1>1, McpInvariant, PTL

\* Retries are explained: a call is carried out more than once only if every
\* execution but one was answered with a failure, at most once more for the
\* downgrade and once more for the new session, and "ok" means it was.
THEOREM McpEffectsExplained == Spec => []EffectsExplained
<1>1. ASSUME McpInv PROVE EffectsExplained
  <2> SUFFICES ASSUME NEW r \in Reqs
               PROVE  LET i == req[r].be
                      IN  /\ effects[r] <= 1 + hidden[r]
                          /\ effects[r] > 0 =>
                               effects[r] <= 1 + (IF manifest[i].mode = "auto" THEN 1 ELSE 0)
                                               + (IF manifest[i].session THEN 1 ELSE 0)
                          /\ req[r].be # 0 /\ req[r].answer = "ok" => effects[r] > hidden[r]
    BY DEF EffectsExplained
  <2>1. req[r] \in Req /\ effects[r] \in Nat /\ hidden[r] \in Nat
        /\ ReqOK(manifest, req[r], job[r], effects[r], hidden[r]) /\ job[r] \in Job
    BY <1>1, UnderWay DEF McpInv, CallTypes, RequestOK
  <2>2. PICK b : b = manifest[req[r].be]
    OBVIOUS
  <2>3. Retries(b) = (IF manifest[req[r].be].mode = "auto" THEN 1 ELSE 0)
                       + (IF manifest[req[r].be].session THEN 1 ELSE 0)
    BY <2>2 DEF Retries, AutoTries, SessionTries
  <2>4. CASE req[r].be = 0
    BY <2>1, <2>4 DEF ReqOK
  <2>5. CASE req[r].be # 0 /\ req[r].pc = "done"
    <3>1. Tried(b, req[r].answer, effects[r], hidden[r])
      BY <2>1, <2>2, <2>5 DEF ReqOK
    <3>2. effects[r] <= 1 + Retries(b) /\ effects[r] <= 1 + hidden[r]
          /\ (req[r].answer = "ok" => effects[r] > hidden[r])
      BY <3>1 DEF Tried
    <3> QED
      BY <3>2, <2>1, <2>3
  <2>6. CASE req[r].be # 0 /\ req[r].pc # "done"
    <3>1. req[r].pc = "calling" /\ req[r].answer = "none" /\ CallOK(b, job[r], effects[r], hidden[r])
          /\ job[r].pc # "idle"
      BY <2>1, <2>2, <2>6 DEF ReqOK, Req
    <3>2. effects[r] <= 1 + hidden[r] /\ effects[r] <= 1 + Retries(b)
      <4>1. CASE job[r].pc \in {"stream", "ok", "error"}
        BY <4>1, <3>1 DEF CallOK, Tried
      <4>2. CASE job[r].pc \in {"session", "sent"}
        <5>1. Trying(b, job[r], effects[r], hidden[r])
          BY <4>2, <3>1 DEF CallOK
        <5>2. /\ job[r].stage \in 1..3 /\ effects[r] <= hidden[r] + 1
              /\ effects[r] <= Earlier(b, job[r].stage) + 1
          BY <5>1, <4>2, <2>1, Counts DEF Trying, Job
        <5> QED
          BY <5>2, <2>1, Counts
      <4> QED
        BY <4>1, <4>2, <3>1, <2>1 DEF Job
    <3>3. AutoTries(b) \in 0..1 /\ SessionTries(b) \in 0..1
      BY DEF AutoTries, SessionTries
    <3> QED
      BY <3>1, <3>2, <2>3
  <2> QED
    BY <2>4, <2>5, <2>6
<1> QED
  BY <1>1, McpInvariant, PTL

\* Every claim of a valid manifest can be reached: what validate() does not ask.
AllReachable == \A d \in Manifests : Validate(d) => \A b \in ToSet(d) : ClaimsReachable(b)

ListedInv == \A r \in Reqs : \A t \in req[r].listed : Route(t) # 0

\* Steps that list nothing.
LEMMA ListedKept ==
  ASSUME ListedInv, manifest' = manifest, \A r \in Reqs : req'[r].listed \subseteq req[r].listed
  PROVE  ListedInv'
  BY DEF ListedInv, Route

\* What is listed has a route.
LEMMA ListedStep ==
  ASSUME AllReachable, McpInv, ListedInv, [Next]_vars
  PROVE  ListedInv'
<1>1. req \in [Reqs -> Req] /\ \A r \in Reqs : req[r] \in Req
  BY DEF McpInv, CallTypes
<1>2. manifest' = manifest
  <2>1. CASE ProxyStep
    BY <2>1 DEF ProxyStep, ProxyNext, HandshakeNext, InitializeAnswered, NotifyArrives,
                HandshakeDone, HandshakeFails, RefreshNext, DiscoverAnswered, ListAnswered, ListFailed,
                NoteAnswered, Restart, Expire, Answer, CallNext, CallRefused, CallLost, CallAccepted,
                StreamEnds, HandleReverseRpc
  <2>2. ASSUME NEW r \in Reqs, Refuse(r) \/ AnswerLocally(r) \/ ToolsList(r) \/ Finished(r)
        PROVE  manifest' = manifest
    BY <2>2 DEF Refuse, AnswerLocally, ToolsList, Finished, ToolsListed, CallDone, proxyVars
  <2>3. ASSUME NEW r \in Reqs, NEW p \in Peers,
               Initialize(r, p) \/ RootsListChanged(r, p) \/ CallBeadCreate(r, p)
        PROVE  manifest' = manifest
    BY <2>3 DEF Initialize, RootsListChanged, CallBeadCreate, proxyVars
  <2>4. ASSUME NEW r \in Reqs, NEW p \in Peers, NEW name \in Names, CallTool(r, p, name)
        PROVE  manifest' = manifest
    BY <2>4 DEF CallTool
  <2>5. CASE UNCHANGED vars
    BY <2>5 DEF vars, proxyVars
  <2> QED
    BY <2>1, <2>2, <2>3, <2>4, <2>5 DEF Next
<1>3. CASE \E r \in Reqs : ToolsListed(r)
  <2>1. PICK r \in Reqs : ToolsListed(r)
    BY <1>3
  <2>2. PICK l : l = AllTools(manifest, derived)
    OBVIOUS
  <2>3. req' = [req EXCEPT ![r].pc = "done", ![r].answer = "ok", ![r].listed = l]
    BY <2>1, <2>2 DEF ToolsListed
  <2>4. \A s \in Reqs : req'[s].listed = IF s = r THEN l ELSE req[s].listed
    BY <2>3, <1>1 DEF Req
  <2>5. ASSUME NEW t \in l PROVE Route(t) # 0
    <3>1. PICK i \in DOMAIN manifest : t \in Tools(manifest[i], derived[i])
      BY <2>2, <2>5 DEF AllTools
    <3>2. DerivedInv /\ manifest \in Manifests /\ Validate(manifest)
      BY DEF McpInv, BackInv, BackTypes, DerivedInv
    <3>3. ClaimsReachable(manifest[i])
      BY <3>1, <3>2, Entries DEF AllReachable
    <3>4. Handles(manifest[i], {}, t)
      BY <3>1, <3>2, <3>3, ToolsHandled
    <3> QED
      BY <3>1, <3>2, <3>4, RouteHandles
  <2> QED
    BY <2>4, <2>5, <1>2 DEF ListedInv, Route
<1>4. CASE ~ \E r \in Reqs : ToolsListed(r)
  <2>1. ASSUME NEW s \in Reqs PROVE req'[s].listed = req[s].listed
    <3>1. CASE ProxyStep
      BY <3>1, <1>1 DEF ProxyStep, Req
    <3>2. CASE UNCHANGED vars
      BY <3>2 DEF vars, routeVars
    <3>3. ASSUME NEW r \in Reqs, NEW answer, AnswerNow(r, answer)
          PROVE  req'[s].listed = req[s].listed
      BY <3>3, <1>1 DEF Req, AnswerNow
    <3>4. ASSUME NEW r \in Reqs, Refuse(r) \/ AnswerLocally(r) PROVE req'[s].listed = req[s].listed
      BY <3>3, <3>4 DEF Refuse, AnswerLocally
    <3>5. ASSUME NEW r \in Reqs, ToolsList(r) \/ CallDone(r) PROVE req'[s].listed = req[s].listed
      <4>1. \/ \E w : req' = [req EXCEPT ![r].pc = "listing", ![r].waits = w]
            \/ \E o : req' = [req EXCEPT ![r].pc = "done", ![r].answer = job[r].pc, ![r].origin = o]
        BY <3>5 DEF ToolsList, CallDone
      <4>2. ASSUME NEW w, req' = [req EXCEPT ![r].pc = "listing", ![r].waits = w]
            PROVE  req'[s].listed = req[s].listed
        BY <4>2, <1>1 DEF Req
      <4>3. ASSUME NEW o, req' = [req EXCEPT ![r].pc = "done", ![r].answer = job[r].pc, ![r].origin = o]
            PROVE  req'[s].listed = req[s].listed
        BY <4>3, <1>1 DEF Req
      <4> QED
        BY <4>1, <4>2, <4>3
    <3>6. ASSUME NEW r \in Reqs, NEW p \in Peers, Initialize(r, p) \/ RootsListChanged(r, p)
          PROVE  req'[s].listed = req[s].listed
      BY <3>3, <3>6 DEF Initialize, RootsListChanged
    <3>7. ASSUME NEW r \in Reqs, NEW p \in Peers, CallBeadCreate(r, p)
          PROVE  req'[s].listed = req[s].listed
      BY <3>7, <1>1 DEF Req, CallBeadCreate
    <3>8. ASSUME NEW r \in Reqs, NEW p \in Peers, NEW name \in Names, CallTool(r, p, name)
          PROVE  req'[s].listed = req[s].listed
      <4>1. \/ AnswerNow(r, "error")
            \/ \E i : req' = [req EXCEPT ![r].pc = "calling", ![r].peer = p, ![r].be = i]
        BY <3>8 DEF CallTool
      <4>2. ASSUME NEW i, req' = [req EXCEPT ![r].pc = "calling", ![r].peer = p, ![r].be = i]
            PROVE  req'[s].listed = req[s].listed
        BY <4>2, <1>1 DEF Req
      <4> QED
        BY <4>1, <4>2, <3>3
    <3> QED
      BY <3>1, <3>2, <3>4, <3>5, <3>6, <3>7, <3>8, <1>4 DEF Next, Finished
  <2> QED
    BY <2>1, <1>2, ListedKept
<1> QED
  BY <1>3, <1>4

\* A listed tool can be called whatever the caches hold by then, for every
\* manifest whose claims can be reached.
THEOREM McpListedIsRoutable ==
  ASSUME AllReachable
  PROVE  Spec => []ListedIsRoutable
<1>1. Init => ListedInv
  BY DEF Init, NoReq, ListedInv
<1>2. McpInv /\ ListedInv /\ [Next]_vars => ListedInv'
  BY ListedStep
<1>3. McpInv /\ ListedInv => ListedIsRoutable
  BY RouteStable DEF McpInv, BackInv, BackTypes, ListedInv, ListedIsRoutable
<1> QED
  BY <1>1, <1>2, <1>3, McpInvariant, PTL DEF Spec

-----------------------------------------------------------------------------
(***************************************************************************)
(* The workspace of a cluster.  A command knows what it has read and seen; *)
(* the history variable seen never shrinks, so what a lockfile, a pull or  *)
(* the container runtime was pinned by stays known while others move tags, *)
(* edit cluster.toml and are killed.  A resolution is the one place where  *)
(* the argument has to follow a loop: its rows are those of the first      *)
(* inputs, the others are still to be done (Along), unless one has failed, *)
(* and then no lockfile is written.                                        *)
(***************************************************************************)

\* Specs of inputs, images that are spoken of, and rows of a lockfile. Words are
\* texts; the literals are named because the provers do not know them for ones.
Specs == {s \in [SpecFields -> UNION {SpecField(f) : f \in SpecFields}] :
             \A f \in SpecFields : s[f] \in SpecField(f)}
Words == Text \cup {"d1", "d2", "d3", "notApplicable", "unauthorized", "absent", "present", "unreachable"}
Known == [id : ImageIds \cup {Absent}, tag : Words, digest : Words]
RowFacts ==
  [name : DOMAIN Documents, doc : AllDocs, oci : Known, unresolved : Words, spec : Specs,
   ociBundles : UNION {[DOMAIN ParseBundleDeclarations(d) -> Known] : d \in AllDocs},
   backends : {DeriveGeneratedBackends(x, d) : x \in Specs, d \in AllDocs}]

\* A row is of a descriptor that was not refused, and its backends are the ones
\* that are derived from it.
DocGood(d) == ~ MetaIsMalformed(d) /\ \A g \in ToSet(ParseServerJsonMeta(d)) : ~ IsMixed(g)
RowGood(r) ==
  DocGood(r.doc) /\ \E x \in Specs : x.name = r.name /\ r.backends = DeriveGeneratedBackends(x, r.doc)
RowSet == {r \in RowFacts : RowGood(r)}

\* A spec has its fields.
LEMMA SpecIs ==
  ASSUME NEW s
  PROVE  /\ IsSpec(s) <=> s \in Specs
         /\ s \in Specs => s.name \in DOMAIN Documents
<1>1. ASSUME IsSpec(s) PROVE s \in Specs
  <2>1. s = [f \in SpecFields |-> s[f]] /\ \A f \in SpecFields : s[f] \in SpecField(f)
    BY <1>1 DEF IsSpec
  <2>2. \A f \in SpecFields : s[f] \in UNION {SpecField(g) : g \in SpecFields}
    BY <2>1
  <2> QED
    BY <2>1, <2>2 DEF Specs
<1>2. ASSUME s \in Specs PROVE IsSpec(s)
  BY <1>2 DEF IsSpec, Specs
<1>3. ASSUME s \in Specs PROVE s.name \in DOMAIN Documents
  <2>1. s["name"] \in SpecField("name")
    BY <1>3 DEF Specs, SpecFields
  <2> QED
    BY <2>1 DEF SpecField
<1> QED
  BY <1>1, <1>2, <1>3

\* What the operator changes in a spec leaves it one.
LEMMA ChangedSpec ==
  ASSUME NEW s \in Specs, NEW e \in SpecChanges
  PROVE  Edited(s, e) \in Specs
<1>1. \A f \in DOMAIN e : e[f] \in SpecField(f)
  BY WorkspaceAssumption
<1>2. DOMAIN s = SpecFields /\ \A f \in SpecFields : s[f] \in SpecField(f)
  BY DEF Specs
<1>3. Edited(s, e) = [f \in SpecFields |-> IF f \in DOMAIN e THEN e[f] ELSE s[f]]
  BY <1>2 DEF Edited
<1>4. \A f \in SpecFields : Edited(s, e)[f] \in SpecField(f)
  BY <1>1, <1>2, <1>3
<1>5. IsSpec(Edited(s, e))
  BY <1>3, <1>4 DEF IsSpec
<1> QED
  BY <1>5, SpecIs

\* What add leaves out of a spec leaves it one.
LEMMA SpecOfIs ==
  ASSUME NEW w, w.todo \in Seq(Specs), w.todo # <<>>
  PROVE  /\ SpecOf(w) \in Specs /\ Head(w.todo) \in Specs
         /\ SpecOf(w).name = Head(w.todo).name
         /\ SpecOf(w).reason => Head(w.todo).reason
<1>1. PICK s \in Specs : s = Head(w.todo)
  OBVIOUS
<1>2. DOMAIN s = SpecFields /\ \A f \in SpecFields : s[f] \in SpecField(f)
  BY DEF Specs
<1>3. CASE w.cmd = "add"
  <2>1. PICK t : t = [s EXCEPT !.uds = Absent, !.reason = FALSE]
    OBVIOUS
  <2>2. t = [f \in SpecFields |-> IF f = "uds" THEN Absent ELSE IF f = "reason" THEN FALSE ELSE s[f]]
    BY <1>2, <2>1 DEF SpecFields
  <2>3. SpecOf(w) = t
    BY <1>1, <1>3, <2>1 DEF SpecOf
  <2>4. Absent \in SpecField("uds") /\ FALSE \in SpecField("reason")
    BY DEF SpecField, Text
  <2>5. \A f \in SpecFields : t[f] \in SpecField(f)
    BY <1>2, <2>2, <2>4
  <2>6. t \in Specs
    BY <2>2, <2>5, SpecIs DEF IsSpec
  <2>7. t.name = s.name /\ t.reason = FALSE
    BY <2>2 DEF SpecFields
  <2> QED
    BY <1>1, <2>3, <2>6, <2>7
<1>4. CASE w.cmd # "add"
  BY <1>1, <1>4 DEF SpecOf
<1> QED
  BY <1>3, <1>4

\* The constants, one by one.
LEMMA WorkConstants ==
  /\ \A n \in DOMAIN Documents : Documents[n] \in Seq(AllDocs) /\ Documents[n] # <<>>
  /\ \A d \in AllDocs : d.images \in Seq(Known)
  /\ \A i \in DOMAIN Bundles : Bundles[i].image \in Known
  /\ FirstInputs \subseteq Seq(Specs) /\ Addable \subseteq Specs
  /\ NoImage \in Known /\ Absent \in Words
<1>1. ASSUME NEW d \in AllDocs PROVE d.images \in Seq(Known)
  <2>1. d.images \in Seq(Image)
    BY WorkspaceAssumption
  <2>2. \A i \in DOMAIN d.images : d.images[i].id \in ImageIds
    BY DEF ImageIds
  <2>3. ASSUME NEW i \in 1..Len(d.images) PROVE d.images[i] \in Known
    <3>1. d.images[i] \in Image /\ d.images[i].id \in ImageIds
      BY <2>1, <2>2
    <3> QED
      BY <3>1 DEF Image, Known, Words
  <2> QED
    BY <2>1, <2>3, SeqDef
<1>2. ASSUME NEW i \in DOMAIN Bundles PROVE Bundles[i].image \in Known
  <2>1. Bundles[i].image \in Image /\ Bundles[i].image.id \in ImageIds
    BY WorkspaceAssumption DEF ImageIds
  <2> QED
    BY <2>1 DEF Image, Known, Words
<1>3. ASSUME NEW inputs \in FirstInputs PROVE inputs \in Seq(Specs)
  <2>1. inputs \in Seq(ToSet(inputs)) /\ \A i \in DOMAIN inputs : inputs[i] \in Specs
    BY WorkspaceAssumption, SpecIs
  <2> QED
    BY <2>1, SeqDef
<1>4. NoImage \in Known /\ Absent \in Words
  BY DEF NoImage, Known, Text, Words
<1>5. Addable \subseteq Specs /\ \A n \in DOMAIN Documents : Documents[n] \in Seq(AllDocs) /\ Documents[n] # <<>>
  BY WorkspaceAssumption, SpecIs
<1> QED
  BY <1>1, <1>2, <1>3, <1>4, <1>5

\* A command that resolves, one that generates, and one that pulls.
ResolveJobs ==
  [cmd : {"resolve", "add"}, pc : {"truncate", "fill", "fetch", "probe", "fill lock"},
   inputs : Seq(Specs), todo : Seq(Specs), rows : Seq(RowSet), failed : BOOLEAN,
   doc : AllDocs \cup {None}, all : Seq(Known), at : Nat \ {0}]
GenerateJobs ==
  [cmd : {"generate"}, pc : {"compute", "write"}, inputs : Seq(Specs), rows : Seq(RowSet),
   todo : Seq({"toml", "clusterTs", "capnp", "compose"})]
PullJobs == [cmd : {"pull"}, pc : {"pull"}, todo : Seq(Known)]
JobSet == {Idle} \cup ResolveJobs \cup GenerateJobs \cup PullJobs

\* An image is pinned by what resolutions knew, S, and a row says why it is not.
ImagePinned(S, o) ==
  o.id # Absent => /\ o.digest # Absent => <<o.id, o.digest>> \in S
                   /\ o.digest = Absent /\ o.tag # Absent => <<o.id, Absent>> \in S
RowPinned(S, r) ==
  /\ ImagePinned(S, r.oci)
  /\ r.oci.id # Absent /\ r.oci.tag # Absent /\ r.oci.digest = Absent => r.spec.reason /\ r.unresolved # Absent
RowsPinned(S, rows) == \A k \in 1..Len(rows) : RowPinned(S, rows[k])

\* The rows are those of the first inputs, and the others are to be done.
Along(j) ==
  /\ Len(j.rows) + Len(j.todo) = Len(j.inputs)
  /\ \A k \in 1..Len(j.rows) : j.rows[k].name = j.inputs[k].name
  /\ \A k \in 1..Len(j.todo) : j.todo[k] = j.inputs[Len(j.rows) + k]

\* The images that are seen for are those of the descriptor, with its digests
\* or with ones that were seen.
Probing(S, j) ==
  /\ j.todo # <<>> /\ j.doc \in AllDocs /\ DocGood(j.doc)
  /\ Len(j.all) = Len(ParsePackagesOci(j.doc))
  /\ \A k \in 1..Len(j.all) :
       /\ j.all[k].id = j.doc.images[k].id
       /\ j.all[k].digest \in {Absent, j.doc.images[k].digest} \/ <<j.all[k].id, j.all[k].digest>> \in S
  /\ j.all # <<>> => ParsePackagesOci(j.doc) = j.doc.images
  /\ \A b \in DOMAIN ParseBundleDeclarations(j.doc) :
       \E k \in 1..Len(j.all) : j.all[k].id = ParseBundleDeclarations(j.doc)[b]

ResolveInv(S, j) ==
  /\ RowsPinned(S, j.rows)
  /\ ~j.failed => Along(j)
  /\ j.cmd = "add" => ~j.failed
  /\ j.pc = "probe" => Probing(S, j)
  /\ j.pc = "fill lock" => j.todo = <<>> /\ j.cmd = "add"
CommandInv(S, j) ==
  /\ j \in ResolveJobs => ResolveInv(S, j)
  /\ j \in PullJobs => \A k \in 1..Len(j.todo) : ImagePinned(S, j.todo[k])

\* Files and the rest of the world.
TomlOK(t) == t \in [torn : BOOLEAN, inputs : Seq(Specs), open : SUBSET Procs]
Whole(l) ==
  Len(l.rows) = Len(l.of) /\ \A k \in 1..Len(l.rows) : l.rows[k].name = l.of[k].name
LockOK(S, l) ==
  l # None => /\ l \in [torn : BOOLEAN, of : Seq(Specs), rows : Seq(RowSet), open : SUBSET Procs]
              /\ RowsPinned(S, l.rows) /\ (l.torn \/ Whole(l))
FilesOK(f) ==
  /\ "compose" \in DOMAIN f
  /\ f.compose # None => \A b \in DOMAIN f.compose.images : f.compose.images[b] \in Known
StoreOK(S, st) ==
  /\ st \in [digests : SUBSET ((ImageIds \cup {Absent}) \X Words), tags : [ImageIds -> Words]]
  /\ \A i \in ImageIds \cup {Absent}, d \in Words : <<i, d>> \in st.digests /\ d # Absent => <<i, d>> \in S
  /\ \A i \in ImageIds : st.tags[i] # Absent => <<i, Absent>> \in S
RunOK(S, r) ==
  r # None =>
    \A b \in DOMAIN r : r[b].digest # Absent =>
      /\ <<r[b].image.id, r[b].image.digest>> \in S
      /\ r[b].image.digest \in {Absent, r[b].digest}

\* The inductive invariant of the workspace.
WorkInv ==
  /\ TomlOK(toml) /\ LockOK(seen, lock) /\ FilesOK(files) /\ StoreOK(seen, store) /\ RunOK(seen, running)
  /\ tags \in [ImageIds -> Words] /\ published \in [DOMAIN Documents -> AllDocs]
  /\ jobs \in [Procs -> JobSet] /\ \A p \in Procs : CommandInv(seen, jobs[p])

\* A list that was read while it was being written.
LEMMA BeginningIs ==
  ASSUME NEW X, NEW list \in Seq(X), NEW b \in Beginnings(list)
  PROVE  b \in Seq(X) /\ Len(b) <= Len(list) /\ \A k \in 1..Len(b) : b[k] = list[k]
<1>1. PICK n \in 0..Len(list) : b = SubSeq(list, 1, n)
  BY DEF Beginnings
<1>2. Len(list) \in Nat /\ n \in Nat /\ n <= Len(list)
  OBVIOUS
<1>3. b \in Seq(X) /\ Len(b) = n /\ \A k \in 1..n : b[k] = list[k]
  BY <1>1, <1>2
<1> QED
  BY <1>2, <1>3

\* A list that was written over another.
LEMMA OverIs ==
  ASSUME NEW X, NEW new \in Seq(X), NEW old \in Seq(X), NEW l \in Over(new, old)
  PROVE  /\ l \in Seq(X)
         /\ \A k \in 1..Len(l) : (\E i \in 1..Len(new) : l[k] = new[i]) \/ (\E i \in 1..Len(old) : l[k] = old[i])
<1>1. PICK n \in 1..(Len(old) + 1) : l = new \o SubSeq(old, n, Len(old))
  BY DEF Over
<1>2. PICK t : t = SubSeq(old, n, Len(old))
  OBVIOUS
<1>3. n \in Nat \ {0} /\ Len(old) \in Nat /\ Len(new) \in Nat /\ n <= Len(old) + 1
  OBVIOUS
<1>4. t \in Seq(X) /\ Len(t) = (Len(old) - n) + 1 /\ \A i \in 1..Len(t) : t[i] = old[(n + i) - 1]
  BY <1>2, <1>3
<1>5. l \in Seq(X) /\ Len(l) = Len(new) + Len(t)
  BY <1>1, <1>2, <1>4, ConcatProperties
<1>6. ASSUME NEW k \in 1..Len(l)
      PROVE  (\E i \in 1..Len(new) : l[k] = new[i]) \/ (\E i \in 1..Len(old) : l[k] = old[i])
  <2>1. CASE k <= Len(new)
    <3>1. l[k] = new[k] /\ k \in 1..Len(new)
      BY <1>1, <1>2, <1>3, <1>4, <1>5, <2>1, ConcatProperties
    <3> QED
      BY <3>1
  <2>2. CASE k > Len(new)
    <3>1. k - Len(new) \in 1..Len(t)
      BY <1>3, <1>4, <1>5, <2>2
    <3>2. l[k] = t[k - Len(new)]
      BY <1>1, <1>2, <1>3, <1>4, <1>5, <2>2, ConcatProperties
    <3>3. PICK i : i = k - Len(new)
      OBVIOUS
    <3>4. (n + i) - 1 \in 1..Len(old)
      BY <1>3, <1>4, <3>1, <3>3
    <3> QED
      BY <1>4, <3>1, <3>2, <3>3, <3>4
  <2> QED
    BY <1>3, <2>1, <2>2
<1> QED
  BY <1>5, <1>6

\* What is known is not forgotten.
LEMMA StillPinned ==
  ASSUME NEW S, NEW T, S \subseteq T
  PROVE  /\ \A rows : RowsPinned(S, rows) => RowsPinned(T, rows)
         /\ \A l : LockOK(S, l) => LockOK(T, l)
         /\ \A st : StoreOK(S, st) => StoreOK(T, st)
         /\ \A r : RunOK(S, r) => RunOK(T, r)
         /\ \A j : CommandInv(S, j) => CommandInv(T, j)
<1>1. \A o : ImagePinned(S, o) => ImagePinned(T, o)
  BY DEF ImagePinned
<1>2. \A rows : RowsPinned(S, rows) => RowsPinned(T, rows)
  BY <1>1 DEF RowsPinned, RowPinned
<1>3. \A l : LockOK(S, l) => LockOK(T, l)
  BY <1>2 DEF LockOK
<1>4. \A st : StoreOK(S, st) => StoreOK(T, st)
  BY DEF StoreOK
<1>5. \A r : RunOK(S, r) => RunOK(T, r)
  BY DEF RunOK
<1>6. \A j : Probing(S, j) => Probing(T, j)
  BY DEF Probing
<1>7. \A j : CommandInv(S, j) => CommandInv(T, j)
  BY <1>1, <1>2, <1>6 DEF CommandInv, ResolveInv
<1> QED
  BY <1>2, <1>3, <1>4, <1>5, <1>7

\* What cluster.toml and the lockfile may be read as.
LEMMA Readings ==
  ASSUME WorkInv
  PROVE  /\ TomlReadings \subseteq Seq(Specs)
         /\ LockReadings \subseteq Seq(RowSet)
         /\ \A rows \in LockReadings : RowsPinned(seen, rows)
<1>1. TomlReadings \subseteq Seq(Specs)
  <2>1. toml.inputs \in Seq(Specs)
    BY DEF WorkInv, TomlOK
  <2> QED
    BY <2>1, BeginningIs DEF TomlReadings
<1>2. ASSUME NEW rows \in LockReadings PROVE rows \in Seq(RowSet) /\ RowsPinned(seen, rows)
  <2>1. CASE lock = None
    <3>1. rows = <<>>
      BY <2>1 DEF LockReadings
    <3> QED
      BY <3>1 DEF RowsPinned
  <2>2. CASE lock # None
    <3>1. lock.rows \in Seq(RowSet) /\ RowsPinned(seen, lock.rows)
      BY <2>2 DEF WorkInv, LockOK
    <3>2. CASE lock.torn
      <4>1. rows \in Beginnings(lock.rows)
        BY <2>2, <3>2 DEF LockReadings
      <4>2. rows \in Seq(RowSet) /\ Len(rows) <= Len(lock.rows) /\ \A k \in 1..Len(rows) : rows[k] = lock.rows[k]
        BY <3>1, <4>1, BeginningIs
      <4>3. \A k \in 1..Len(rows) : k \in 1..Len(lock.rows)
        BY <3>1, <4>2
      <4> QED
        BY <3>1, <4>2, <4>3 DEF RowsPinned
    <3>3. CASE ~lock.torn
      <4>1. rows = lock.rows
        BY <2>2, <3>3 DEF LockReadings
      <4> QED
        BY <3>1, <4>1
    <3> QED
      BY <3>2, <3>3
  <2> QED
    BY <2>1, <2>2
<1> QED
  BY <1>1, <1>2

\* What a command does to itself, with what it comes to know.
LEMMA JobStep ==
  ASSUME WorkInv, NEW p \in Procs, NEW j \in JobSet, jobs' = [jobs EXCEPT ![p] = j],
         seen \subseteq seen', CommandInv(seen', j)
  PROVE  jobs' \in [Procs -> JobSet] /\ \A q \in Procs : CommandInv(seen', jobs'[q])
<1>1. jobs \in [Procs -> JobSet] /\ \A q \in Procs : CommandInv(seen, jobs[q])
  BY DEF WorkInv
<1>2. ASSUME NEW q \in Procs PROVE CommandInv(seen', jobs'[q])
  <2>1. CASE q = p
    BY <1>1, <2>1
  <2>2. CASE q # p
    <3>1. jobs'[q] = jobs[q]
      BY <1>1, <2>2
    <3> QED
      BY <1>1, <3>1, StillPinned
  <2> QED
    BY <2>1, <2>2
<1> QED
  BY <1>1, <1>2

\* Nothing but the command changes.
LEMMA OnlyJob ==
  ASSUME WorkInv, NEW p \in Procs, NEW j \in JobSet, jobs' = [jobs EXCEPT ![p] = j],
         seen \subseteq seen', CommandInv(seen', j), UNCHANGED <<workFiles, workWorld>>
  PROVE  WorkInv'
<1>1. jobs' \in [Procs -> JobSet] /\ \A q \in Procs : CommandInv(seen', jobs'[q])
  BY JobStep
<1>2. /\ toml' = toml /\ lock' = lock /\ files' = files /\ store' = store /\ running' = running
      /\ tags' = tags /\ published' = published
  BY DEF workFiles, workWorld
<1>3. /\ TomlOK(toml') /\ LockOK(seen', lock') /\ FilesOK(files') /\ StoreOK(seen', store')
      /\ RunOK(seen', running') /\ tags' \in [ImageIds -> Words]
      /\ published' \in [DOMAIN Documents -> AllDocs]
  BY <1>2, StillPinned DEF WorkInv
<1> QED
  BY <1>1, <1>3 DEF WorkInv

\* Which command is at which step.
LEMMA JobKinds ==
  ASSUME NEW j \in JobSet
  PROVE  /\ j.pc \in {"truncate", "fill", "fetch", "probe", "fill lock"} => j \in ResolveJobs
         /\ j.pc \in {"compute", "write"} => j \in GenerateJobs
         /\ j.pc = "pull" => j \in PullJobs
         /\ j.cmd = "generate" => j \in GenerateJobs
<1>1. CASE j = Idle
  <2>1. j.pc = "idle" /\ j.cmd = "none"
    BY <1>1 DEF Idle
  <2> QED
    BY <2>1
<1>2. CASE j \in ResolveJobs
  <2>1. j.pc \in {"truncate", "fill", "fetch", "probe", "fill lock"} /\ j.cmd \in {"resolve", "add"}
    BY <1>2 DEF ResolveJobs
  <2> QED
    BY <1>2, <2>1
<1>3. CASE j \in GenerateJobs
  <2>1. j.pc \in {"compute", "write"} /\ j.cmd = "generate"
    BY <1>3 DEF GenerateJobs
  <2> QED
    BY <1>3, <2>1
<1>4. CASE j \in PullJobs
  <2>1. j.pc = "pull" /\ j.cmd = "pull"
    BY <1>4 DEF PullJobs
  <2> QED
    BY <1>4, <2>1
<1> QED
  BY <1>1, <1>2, <1>3, <1>4 DEF JobSet

\* Of an idle or a generating command there is nothing more to know.
LEMMA NothingMore ==
  ASSUME NEW S, NEW j \in {Idle} \cup GenerateJobs
  PROVE  j \in JobSet /\ CommandInv(S, j)
<1>1. j.cmd \in {"none", "generate"}
  BY DEF Idle, GenerateJobs
<1>2. j \notin ResolveJobs
  BY <1>1 DEF ResolveJobs
<1>3. j \notin PullJobs
  BY <1>1 DEF PullJobs
<1> QED
  BY <1>2, <1>3 DEF JobSet, CommandInv

\* A resolution keeps its invariant as a w.
LEMMA ResolveJobIs ==
  ASSUME NEW S, NEW j \in ResolveJobs
  PROVE  j \in JobSet /\ (CommandInv(S, j) <=> ResolveInv(S, j))
<1>1. j \notin PullJobs
  BY DEF ResolveJobs, PullJobs
<1> QED
  BY <1>1 DEF JobSet, CommandInv

\* The rest of what is to be done.
LEMMA RestIs ==
  ASSUME NEW s \in Seq(Specs), s # <<>>
  PROVE  /\ Tail(s) \in Seq(Specs) /\ Len(s) \in Nat \ {0} /\ Len(Tail(s)) = Len(s) - 1
         /\ Head(s) = s[1] /\ Head(s) \in Specs
         /\ \A k \in 1..(Len(s) - 1) : Tail(s)[k] = s[k + 1]
<1>1. Len(s) \in Nat \ {0}
  BY EmptySeq
<1> QED
  BY <1>1

\* A new resolution has everything before it.
LEMMA ResolvingIs ==
  ASSUME NEW S, NEW inputs \in Seq(Specs), NEW cmd \in {"resolve", "add"},
         NEW pc \in {"fetch", "truncate"}
  PROVE  /\ [Resolving(inputs, cmd) EXCEPT !.pc = pc] \in JobSet
         /\ CommandInv(S, [Resolving(inputs, cmd) EXCEPT !.pc = pc])
<1>1. PICK j : j = [Resolving(inputs, cmd) EXCEPT !.pc = pc]
  OBVIOUS
<1>2. j = [cmd |-> cmd, pc |-> pc, inputs |-> inputs, todo |-> inputs, rows |-> <<>>,
           failed |-> FALSE, doc |-> None, all |-> <<>>, at |-> 1]
  BY <1>1 DEF Resolving
<1>3. j \in ResolveJobs
  <2>1. <<>> \in Seq(RowSet) /\ <<>> \in Seq(Known) /\ None \in AllDocs \cup {None} /\ 1 \in Nat \ {0}
    OBVIOUS
  <2> QED
    BY <1>2, <2>1 DEF ResolveJobs
<1>4. Along(j)
  <2>1. Len(j.rows) = 0 /\ j.todo = inputs /\ j.inputs = inputs /\ Len(inputs) \in Nat
    BY <1>2
  <2> QED
    BY <2>1 DEF Along
<1>5. RowsPinned(S, j.rows)
  BY <1>2 DEF RowsPinned
<1>6. ResolveInv(S, j)
  BY <1>2, <1>4, <1>5 DEF ResolveInv
<1> QED
  BY <1>1, <1>3, <1>6, ResolveJobIs

\* An input that fails is passed over, and no lockfile is written any more.
LEMMA FailedIs ==
  ASSUME NEW S, NEW j \in ResolveJobs, ResolveInv(S, j), j.todo # <<>>
  PROVE  FailedInput(j) \in JobSet /\ CommandInv(S, FailedInput(j))
<1>1. CASE j.cmd = "add"
  BY <1>1, NothingMore DEF FailedInput
<1>2. CASE j.cmd # "add"
  <2>1. PICK i : i = FailedInput(j)
    OBVIOUS
  <2>2. j.todo \in Seq(Specs) /\ Tail(j.todo) \in Seq(Specs)
    BY RestIs DEF ResolveJobs
  <2>3. i = [cmd |-> j.cmd, pc |-> "fetch", inputs |-> j.inputs, todo |-> Tail(j.todo), rows |-> j.rows,
             failed |-> TRUE, doc |-> None, all |-> <<>>, at |-> 1]
    BY <1>2, <2>1 DEF FailedInput, ResolveJobs
  <2>4. i \in ResolveJobs /\ i.failed = TRUE /\ i.rows = j.rows /\ i.pc = "fetch" /\ i.cmd = j.cmd
    <3>1. <<>> \in Seq(Known) /\ None \in AllDocs \cup {None} /\ 1 \in Nat \ {0}
      OBVIOUS
    <3>2. j.cmd \in {"resolve", "add"} /\ j.inputs \in Seq(Specs) /\ j.rows \in Seq(RowSet)
      BY DEF ResolveJobs
    <3> QED
      BY <2>2, <2>3, <3>1, <3>2 DEF ResolveJobs
  <2>5. ResolveInv(S, i)
    BY <1>2, <2>4 DEF ResolveInv
  <2> QED
    BY <2>1, <2>4, <2>5, ResolveJobIs
<1> QED
  BY <1>1, <1>2

\* The row of an input that was resolved.
LEMMA RowIs ==
  ASSUME NEW S, NEW j \in ResolveJobs, Probing(S, j), NEW oci \in Known, NEW u \in Words
  PROVE  /\ RowOf(j, oci, u) \in RowSet
         /\ RowOf(j, oci, u).name = Head(j.todo).name /\ RowOf(j, oci, u).oci = oci
         /\ RowOf(j, oci, u).unresolved = u /\ RowOf(j, oci, u).spec = Head(j.todo)
<1> DEFINE runs == ParseBundleDeclarations(j.doc)
           Hit(id) == j.all[CHOOSE k \in DOMAIN j.all : j.all[k].id = id /\ \A i \in 1..(k - 1) : j.all[i].id # id]
<1>1. j.todo \in Seq(Specs) /\ j.todo # <<>> /\ j.doc \in AllDocs /\ DocGood(j.doc) /\ j.all \in Seq(Known)
  BY DEF ResolveJobs, Probing
<1>2. /\ SpecOf(j) \in Specs /\ Head(j.todo) \in Specs /\ Head(j.todo).name \in DOMAIN Documents
      /\ SpecOf(j).name = Head(j.todo).name
  BY <1>1, SpecOfIs, SpecIs
<1>3. ASSUME NEW b \in DOMAIN runs PROVE Hit(runs[b]) \in Known
  <2>1. PICK id : id = runs[b]
    OBVIOUS
  <2>2. PICK P : P = {k \in 1..Len(j.all) : j.all[k].id = id}
    OBVIOUS
  <2>3. P # {} /\ P \subseteq Nat
    BY <1>1, <1>3, <2>1, <2>2 DEF Probing
  <2>4. PICK a \in P : \A k \in P : a <= k
    BY <2>3, LeastOf
  <2>5. DOMAIN j.all = 1..Len(j.all) /\ Len(j.all) \in Nat
    BY <1>1
  <2>6. a \in DOMAIN j.all /\ j.all[a].id = id
    BY <2>2, <2>5
  <2>7. ASSUME NEW i \in 1..(a - 1) PROVE j.all[i].id # id
    BY <2>2, <2>4, <2>5, <2>6
  <2>8. PICK c : c = CHOOSE k \in DOMAIN j.all : j.all[k].id = id /\ \A i \in 1..(k - 1) : j.all[i].id # id
    OBVIOUS
  <2>9. c \in DOMAIN j.all
    BY <2>6, <2>7, <2>8
  <2>10. j.all[c] \in Known
    BY <1>1, <2>9
  <2> QED
    BY <2>1, <2>8, <2>10
<1>4. [b \in DOMAIN runs |-> Hit(runs[b])] \in [DOMAIN runs -> Known]
  <2> HIDE DEF runs, Hit
  <2> QED
    BY <1>3
<1>5. [b \in DOMAIN runs |-> Hit(runs[b])] \in UNION {[DOMAIN ParseBundleDeclarations(d) -> Known] : d \in AllDocs}
  <2>1. [DOMAIN runs -> Known] \in {[DOMAIN ParseBundleDeclarations(d) -> Known] : d \in AllDocs}
    BY <1>1
  <2> HIDE DEF runs, Hit
  <2> QED
    BY <1>4, <2>1
<1>6. DeriveGeneratedBackends(SpecOf(j), j.doc) \in {DeriveGeneratedBackends(x, d) : x \in Specs, d \in AllDocs}
  BY <1>1, <1>2
<1>7. RowOf(j, oci, u) =
        [name |-> Head(j.todo).name, doc |-> j.doc, oci |-> oci, unresolved |-> u, spec |-> Head(j.todo),
         ociBundles |-> [b \in DOMAIN runs |-> Hit(runs[b])],
         backends |-> DeriveGeneratedBackends(SpecOf(j), j.doc)]
  BY DEF RowOf
<1> HIDE DEF runs, Hit
<1>8. RowOf(j, oci, u) \in RowSet
  <2>1. RowOf(j, oci, u) \in RowFacts
    BY <1>1, <1>2, <1>5, <1>6, <1>7 DEF RowFacts
  <2>2. /\ RowOf(j, oci, u).name = SpecOf(j).name /\ RowOf(j, oci, u).doc = j.doc
        /\ RowOf(j, oci, u).backends = DeriveGeneratedBackends(SpecOf(j), j.doc)
    BY <1>2, <1>7
  <2>3. RowGood(RowOf(j, oci, u))
    BY <1>1, <1>2, <2>2 DEF RowGood
  <2> QED
    BY <2>1, <2>3 DEF RowSet
<1> QED
  BY <1>7, <1>8

\* One input more is resolved.
LEMMA ResolvedIs ==
  ASSUME NEW S, NEW T, S \subseteq T, NEW j \in ResolveJobs, ResolveInv(S, j), Probing(S, j),
         NEW oci \in Known, NEW u \in Words, RowPinned(T, RowOf(j, oci, u))
  PROVE  Resolved(j, oci, u) \in JobSet /\ CommandInv(T, Resolved(j, oci, u))
<1>1. PICK r \in RowSet : r = RowOf(j, oci, u) /\ r.name = Head(j.todo).name
  BY RowIs
<1>2. PICK i : i = Resolved(j, oci, u)
  OBVIOUS
<1>3. /\ j.todo \in Seq(Specs) /\ j.todo # <<>> /\ j.rows \in Seq(RowSet) /\ j.inputs \in Seq(Specs)
      /\ Len(j.rows) \in Nat /\ Len(j.inputs) \in Nat
  <2>1. j.todo \in Seq(Specs) /\ j.rows \in Seq(RowSet) /\ j.inputs \in Seq(Specs)
    BY DEF ResolveJobs
  <2>2. j.todo # <<>>
    BY DEF Probing
  <2> QED
    BY <2>1, <2>2, LenProperties
<1>4. i = [cmd |-> j.cmd, pc |-> "fetch", inputs |-> j.inputs, todo |-> Tail(j.todo), rows |-> Append(j.rows, r),
           failed |-> j.failed, doc |-> None, all |-> <<>>, at |-> 1]
  BY <1>1, <1>2 DEF Resolved, ResolveJobs
<1>5. Append(j.rows, r) \in Seq(RowSet) /\ Tail(j.todo) \in Seq(Specs)
  BY <1>3, RestIs
<1>6. /\ i \in ResolveJobs /\ i.pc = "fetch" /\ i.cmd = j.cmd /\ i.failed = j.failed /\ i.inputs = j.inputs
      /\ i.todo = Tail(j.todo) /\ i.rows = Append(j.rows, r)
  <2>1. <<>> \in Seq(Known) /\ None \in AllDocs \cup {None} /\ 1 \in Nat \ {0}
    OBVIOUS
  <2>2. j.cmd \in {"resolve", "add"} /\ j.failed \in BOOLEAN
    BY DEF ResolveJobs
  <2> QED
    BY <1>3, <1>4, <1>5, <2>1, <2>2 DEF ResolveJobs
<1>7. /\ Len(i.rows) = Len(j.rows) + 1 /\ i.rows[Len(j.rows) + 1] = r
      /\ \A k \in 1..Len(j.rows) : i.rows[k] = j.rows[k]
  BY <1>3, <1>6
<1>8. ASSUME ~j.failed PROVE Along(i)
  <2>1. Along(j)
    BY <1>8 DEF ResolveInv
  <2>2. /\ Len(j.todo) \in Nat \ {0} /\ Len(i.todo) = Len(j.todo) - 1 /\ Head(j.todo) = j.todo[1]
        /\ \A k \in 1..(Len(j.todo) - 1) : i.todo[k] = j.todo[k + 1]
    BY <1>3, <1>6, RestIs
  <2>3. Len(i.rows) + Len(i.todo) = Len(i.inputs)
    <3>1. Len(j.rows) + Len(j.todo) = Len(j.inputs)
      BY <2>1 DEF Along
    <3>2. PICK a \in Nat, b \in Nat \ {0}, c \in Nat : a = Len(j.rows) /\ b = Len(j.todo) /\ c = Len(j.inputs)
      BY <1>3, <2>2
    <3>3. Len(i.rows) = a + 1 /\ Len(i.todo) = b - 1 /\ Len(i.inputs) = c /\ a + b = c
      BY <1>6, <1>7, <2>2, <3>1, <3>2
    <3>4. (a + 1) + (b - 1) = c
      BY <3>3
    <3> QED
      BY <3>3, <3>4
  <2>4. ASSUME NEW k \in 1..Len(i.rows) PROVE i.rows[k].name = i.inputs[k].name
    <3>1. CASE k \in 1..Len(j.rows)
      BY <1>6, <1>7, <2>1, <3>1 DEF Along
    <3>2. CASE k = Len(j.rows) + 1
      <4>1. 1 \in 1..Len(j.todo)
        BY <2>2
      <4>2. j.todo[1] = j.inputs[Len(j.rows) + 1]
        BY <2>1, <4>1 DEF Along
      <4> QED
        BY <1>1, <1>6, <1>7, <2>2, <3>2, <4>2
    <3> QED
      BY <1>3, <1>7, <3>1, <3>2
  <2>5. ASSUME NEW k \in 1..Len(i.todo) PROVE i.todo[k] = i.inputs[Len(i.rows) + k]
    <3>1. k \in Nat /\ k \in 1..(Len(j.todo) - 1) /\ k + 1 \in 1..Len(j.todo)
      BY <2>2
    <3>2. j.todo[k + 1] = j.inputs[Len(j.rows) + (k + 1)]
      BY <2>1, <3>1 DEF Along
    <3>3. Len(j.rows) + (k + 1) = Len(i.rows) + k
      <4>1. PICK a \in Nat : a = Len(j.rows) /\ Len(i.rows) = a + 1
        BY <1>3, <1>7
      <4>2. a + (k + 1) = (a + 1) + k
        BY <3>1
      <4> QED
        BY <4>1, <4>2
    <3> QED
      BY <1>6, <2>2, <3>1, <3>2, <3>3
  <2> QED
    BY <2>3, <2>4, <2>5 DEF Along
<1>9. RowsPinned(T, i.rows)
  <2>1. RowsPinned(T, j.rows)
    BY StillPinned DEF ResolveInv
  <2>2. ASSUME NEW k \in 1..Len(i.rows) PROVE RowPinned(T, i.rows[k])
    <3>1. CASE k \in 1..Len(j.rows)
      BY <1>7, <2>1, <3>1 DEF RowsPinned
    <3>2. CASE k = Len(j.rows) + 1
      BY <1>1, <1>7, <3>2
    <3> QED
      BY <1>3, <1>7, <3>1, <3>2
  <2> QED
    BY <2>2 DEF RowsPinned
<1>10. ResolveInv(T, i)
  BY <1>6, <1>8, <1>9 DEF ResolveInv
<1> QED
  BY <1>2, <1>6, <1>10, ResolveJobIs


\* What is written and what is not.
LEMMA Together ==
  ASSUME WorkInv, seen \subseteq seen',
         jobs' \in [Procs -> JobSet] /\ \A q \in Procs : CommandInv(seen', jobs'[q]),
         toml' = toml \/ TomlOK(toml'), lock' = lock \/ LockOK(seen', lock'),
         files' = files \/ FilesOK(files'), store' = store \/ StoreOK(seen', store'),
         running' = running \/ RunOK(seen', running'),
         tags' = tags \/ tags' \in [ImageIds -> Words],
         published' = published \/ published' \in [DOMAIN Documents -> AllDocs]
  PROVE  WorkInv'
<1>1. TomlOK(toml') /\ FilesOK(files')
  BY DEF WorkInv
<1>2. LockOK(seen', lock') /\ StoreOK(seen', store') /\ RunOK(seen', running')
  BY StillPinned DEF WorkInv
<1>3. tags' \in [ImageIds -> Words] /\ published' \in [DOMAIN Documents -> AllDocs]
  BY DEF WorkInv
<1> QED
  BY <1>1, <1>2, <1>3 DEF WorkInv

\* A command under way.
LEMMA JobOf ==
  ASSUME WorkInv, NEW p \in Procs
  PROVE  /\ jobs[p] \in JobSet /\ CommandInv(seen, jobs[p])
         /\ jobs[p].pc \in {"truncate", "fill", "fetch", "probe", "fill lock"} =>
              jobs[p] \in ResolveJobs /\ ResolveInv(seen, jobs[p])
         /\ jobs[p].pc \in {"compute", "write"} => jobs[p] \in GenerateJobs
         /\ jobs[p].pc = "pull" => jobs[p] \in PullJobs
         /\ jobs \in [Procs -> JobSet] /\ \A q \in Procs : CommandInv(seen, jobs[q])
<1>1. jobs \in [Procs -> JobSet] /\ \A q \in Procs : CommandInv(seen, jobs[q])
  BY DEF WorkInv
<1>2. jobs[p] \in JobSet /\ CommandInv(seen, jobs[p])
  BY <1>1
<1> QED
  BY <1>1, <1>2, JobKinds, ResolveJobIs

\* A command ends.
LEMMA EndIs ==
  ASSUME WorkInv, NEW p \in Procs, End(p), seen' = seen
  PROVE  jobs' \in [Procs -> JobSet] /\ \A q \in Procs : CommandInv(seen', jobs'[q])
<1>1. Idle \in JobSet /\ CommandInv(seen', Idle)
  BY NothingMore
<1> QED
  BY <1>1, JobStep DEF End

\* A resolution goes on to another step.
LEMMA GotoIs ==
  ASSUME WorkInv, NEW p \in Procs, NEW pc \in {"fill", "fetch", "fill lock"}, Goto(p, pc), seen' = seen,
         jobs[p] \in ResolveJobs, ResolveInv(seen, jobs[p]),
         pc = "fill lock" => jobs[p].todo = <<>> /\ jobs[p].cmd = "add"
  PROVE  jobs' \in [Procs -> JobSet] /\ \A q \in Procs : CommandInv(seen', jobs'[q])
<1>1. PICK j : j = jobs[p]
  OBVIOUS
<1>2. PICK i : i = [j EXCEPT !.pc = pc]
  OBVIOUS
<1>3. jobs' = [jobs EXCEPT ![p] = i]
  BY <1>1, <1>2 DEF Goto
<1>4. /\ i = [cmd |-> j.cmd, pc |-> pc, inputs |-> j.inputs, todo |-> j.todo, rows |-> j.rows,
              failed |-> j.failed, doc |-> j.doc, all |-> j.all, at |-> j.at]
  BY <1>1, <1>2 DEF ResolveJobs
<1>5. i \in ResolveJobs
  <2>1. /\ j.cmd \in {"resolve", "add"} /\ j.inputs \in Seq(Specs) /\ j.todo \in Seq(Specs) /\ j.rows \in Seq(RowSet)
        /\ j.failed \in BOOLEAN /\ j.doc \in AllDocs \cup {None} /\ j.all \in Seq(Known) /\ j.at \in Nat \ {0}
    BY <1>1 DEF ResolveJobs
  <2> QED
    BY <1>4, <2>1 DEF ResolveJobs
<1>6. /\ i.pc = pc /\ i.rows = j.rows /\ i.failed = j.failed /\ i.cmd = j.cmd /\ i.todo = j.todo
      /\ i.inputs = j.inputs
  BY <1>4
<1>7. ResolveInv(seen, j)
  BY <1>1
<1>8. Along(j) => Along(i)
  BY <1>6 DEF Along
<1>9. ResolveInv(seen', i)
  BY <1>1, <1>6, <1>7, <1>8 DEF ResolveInv
<1>10. i \in JobSet /\ CommandInv(seen', i)
  BY <1>5, <1>9, ResolveJobIs
<1> QED
  BY <1>3, <1>10, JobStep

\* resolve reads cluster.toml.
LEMMA ResolveClusterInputsKeeps ==
  ASSUME WorkInv, NEW p \in Procs, ResolveClusterInputs(p) PROVE WorkInv'
<1>1. PICK inputs \in TomlReadings :
        jobs' = [jobs EXCEPT ![p] = IF inputs = <<>> THEN Idle ELSE Resolving(inputs, "resolve")]
  BY DEF ResolveClusterInputs
<1>2. UNCHANGED <<workFiles, workWorld>> /\ seen' = seen
  BY DEF ResolveClusterInputs
<1>3. inputs \in Seq(Specs)
  BY Readings
<1>4. Resolving(inputs, "resolve") = [Resolving(inputs, "resolve") EXCEPT !.pc = "fetch"]
  <2> DEFINE r == [cmd |-> "resolve", pc |-> "fetch", inputs |-> inputs, todo |-> inputs, rows |-> <<>>,
                   failed |-> FALSE, doc |-> None, all |-> <<>>, at |-> 1]
  <2>1. Resolving(inputs, "resolve") = r
    BY DEF Resolving
  <2>2. PICK j : j = [Resolving(inputs, "resolve") EXCEPT !.pc = "fetch"]
    OBVIOUS
  <2>3. j = r
    BY <2>2 DEF Resolving
  <2> HIDE DEF r
  <2> QED
    BY <2>1, <2>2, <2>3
<1>5. Resolving(inputs, "resolve") \in JobSet /\ CommandInv(seen', Resolving(inputs, "resolve"))
  BY <1>3, <1>4, ResolvingIs
<1>6. Idle \in JobSet /\ CommandInv(seen', Idle)
  BY NothingMore
<1>7. PICK j : j = IF inputs = <<>> THEN Idle ELSE Resolving(inputs, "resolve")
  OBVIOUS
<1>8. j \in JobSet /\ CommandInv(seen', j) /\ jobs' = [jobs EXCEPT ![p] = j]
  BY <1>1, <1>5, <1>6, <1>7
<1> QED
  BY <1>2, <1>8, OnlyJob

\* add declares an input.
LEMMA AddInputKeeps ==
  ASSUME WorkInv, NEW p \in Procs, AddInput(p) PROVE WorkInv'
<1>1. PICK inputs \in TomlReadings, spec \in Addable :
        jobs' = [jobs EXCEPT ![p] = [Resolving(Append(inputs, spec), "add") EXCEPT !.pc = "truncate"]]
  BY DEF AddInput
<1>2. UNCHANGED <<workFiles, workWorld>> /\ seen' = seen
  BY DEF AddInput
<1>3. inputs \in Seq(Specs) /\ spec \in Specs
  BY Readings, WorkConstants
<1>4. PICK all \in Seq(Specs) : all = Append(inputs, spec)
  BY <1>3, AppendProperties
<1>5. PICK j : j = [Resolving(all, "add") EXCEPT !.pc = "truncate"]
  OBVIOUS
<1>6. j \in JobSet /\ CommandInv(seen', j) /\ jobs' = [jobs EXCEPT ![p] = j]
  BY <1>1, <1>4, <1>5, ResolvingIs
<1> QED
  BY <1>2, <1>6, OnlyJob

\* add begins to write cluster.toml in place.
LEMMA AddTruncateKeeps ==
  ASSUME WorkInv, NEW p \in Procs, AddTruncate(p) PROVE WorkInv'
<1>1. /\ jobs[p].pc = "truncate" /\ Goto(p, "fill") /\ seen' = seen /\ UNCHANGED <<lock, files, workWorld>>
      /\ toml' = [torn |-> TRUE, inputs |-> jobs[p].inputs, open |-> toml.open \cup {p}]
  BY DEF AddTruncate
<1>2. jobs[p] \in ResolveJobs /\ ResolveInv(seen, jobs[p])
  BY <1>1, JobOf
<1>3. jobs[p].inputs \in Seq(Specs)
  BY <1>2 DEF ResolveJobs
<1>4. TomlOK(toml')
  <2>1. toml.open \in SUBSET Procs
    BY DEF WorkInv, TomlOK
  <2> QED
    BY <1>1, <1>3, <2>1 DEF TomlOK
<1>5. jobs' \in [Procs -> JobSet] /\ \A q \in Procs : CommandInv(seen', jobs'[q])
  BY <1>1, <1>2, GotoIs
<1> QED
  BY <1>1, <1>4, <1>5, Together DEF workWorld

\* add has written cluster.toml.
LEMMA AddFillKeeps ==
  ASSUME WorkInv, NEW p \in Procs, AddFill(p) PROVE WorkInv'
<1>1. /\ jobs[p].pc = "fill" /\ Goto(p, "fetch") /\ seen' = seen /\ UNCHANGED <<lock, files, workWorld>>
      /\ toml' \in TomlFilled(p, jobs[p].inputs)
  BY DEF AddFill
<1>2. jobs[p] \in ResolveJobs /\ ResolveInv(seen, jobs[p])
  BY <1>1, JobOf
<1>3. jobs[p].inputs \in Seq(Specs)
  BY <1>2 DEF ResolveJobs
<1>4. toml' = toml \/ TomlOK(toml')
  <2>1. toml.open \in SUBSET Procs /\ toml.inputs \in Seq(Specs)
    BY DEF WorkInv, TomlOK
  <2>2. PICK mine \in Seq(Specs), rest \in SUBSET Procs : mine = jobs[p].inputs /\ rest = toml.open \ {p}
    BY <1>3, <2>1
  <2>3. \/ toml' = toml
        \/ toml' = [torn |-> FALSE, inputs |-> mine, open |-> rest]
        \/ \E i \in Over(mine, toml.inputs) : toml' = [torn |-> i # mine, inputs |-> i, open |-> rest]
    BY <1>1, <2>2 DEF TomlFilled
  <2>4. \A i \in Over(mine, toml.inputs) : i \in Seq(Specs)
    BY <2>1, OverIs
  <2>5. CASE toml' = toml
    BY <2>5
  <2>6. CASE toml' = [torn |-> FALSE, inputs |-> mine, open |-> rest]
    BY <2>6 DEF TomlOK
  <2>7. ASSUME NEW i \in Over(mine, toml.inputs), toml' = [torn |-> i # mine, inputs |-> i, open |-> rest]
        PROVE  TomlOK(toml')
    <3>1. PICK b \in BOOLEAN : b = (i # mine)
      OBVIOUS
    <3>2. toml' = [torn |-> b, inputs |-> i, open |-> rest]
      BY <2>7, <3>1
    <3> QED
      BY <2>4, <3>2 DEF TomlOK
  <2> QED
    BY <2>3, <2>5, <2>6, <2>7
<1>5. jobs' \in [Procs -> JobSet] /\ \A q \in Procs : CommandInv(seen', jobs'[q])
  BY <1>1, <1>2, GotoIs
<1> QED
  BY <1>1, <1>4, <1>5, Together DEF workWorld

\* A descriptor that is fetched and not refused.
LEMMA FetchedIs ==
  ASSUME NEW S, NEW j \in ResolveJobs, ResolveInv(S, j), j.todo # <<>>, NEW doc \in AllDocs,
         NEW spec, ~ IsRefused(spec, doc)
  PROVE  /\ [j EXCEPT !.pc = "probe", !.doc = doc, !.at = 1, !.all = ParsePackagesOci(doc)] \in JobSet
         /\ CommandInv(S, [j EXCEPT !.pc = "probe", !.doc = doc, !.at = 1, !.all = ParsePackagesOci(doc)])
<1>1. PICK i : i = [j EXCEPT !.pc = "probe", !.doc = doc, !.at = 1, !.all = ParsePackagesOci(doc)]
  OBVIOUS
<1>2. PICK all : all = ParsePackagesOci(doc)
  OBVIOUS
<1>3. doc.images \in Seq(Known)
  BY WorkConstants
<1>4. all \in Seq(Known) /\ (all # <<>> => all = doc.images)
  BY <1>2, <1>3 DEF ParsePackagesOci
<1>5. i = [cmd |-> j.cmd, pc |-> "probe", inputs |-> j.inputs, todo |-> j.todo, rows |-> j.rows,
           failed |-> j.failed, doc |-> doc, all |-> all, at |-> 1]
  BY <1>1, <1>2 DEF ResolveJobs
<1>6. i \in ResolveJobs
  <2>1. /\ j.cmd \in {"resolve", "add"} /\ j.inputs \in Seq(Specs) /\ j.todo \in Seq(Specs) /\ j.rows \in Seq(RowSet)
        /\ j.failed \in BOOLEAN
    BY DEF ResolveJobs
  <2>2. doc \in AllDocs \cup {None} /\ 1 \in Nat \ {0}
    OBVIOUS
  <2> QED
    BY <1>4, <1>5, <2>1, <2>2 DEF ResolveJobs
<1>7. /\ i.pc = "probe" /\ i.rows = j.rows /\ i.failed = j.failed /\ i.cmd = j.cmd /\ i.todo = j.todo
      /\ i.inputs = j.inputs /\ i.doc = doc /\ i.all = all
  BY <1>5
<1>8. Along(j) => Along(i)
  BY <1>7 DEF Along
<1>9. ASSUME NEW k \in 1..Len(all) PROVE all[k] = doc.images[k]
  <2>1. all # <<>>
    BY <1>4
  <2> QED
    BY <1>4, <2>1
<1>10. ASSUME NEW b \in DOMAIN ParseBundleDeclarations(doc)
       PROVE \E k \in 1..Len(all) : all[k].id = ParseBundleDeclarations(doc)[b]
  <2>1. PICK id : id = ParseBundleDeclarations(doc)[b]
    OBVIOUS
  <2>2. id \in ToSet(ParseBundleDeclarations(doc))
    BY <1>10, <2>1 DEF ToSet
  <2>3. PICK k \in DOMAIN all : doc.images[k].id = id
    BY <1>2, <2>2 DEF IsRefused
  <2>4. k \in 1..Len(all)
    BY <1>4
  <2> QED
    BY <1>9, <2>1, <2>3, <2>4
<1>11. Probing(S, i)
  <2>0. DocGood(doc)
    <3>1. ~ MetaIsMalformed(doc)
      BY DEF IsRefused
    <3>2. CASE IsArtifactOnly(doc)
      <4>1. ParseServerJsonMeta(doc) = <<>>
        BY <3>2 DEF IsArtifactOnly, ParseServerJsonMeta
      <4>2. ToSet(ParseServerJsonMeta(doc)) = {}
        BY <4>1 DEF ToSet
      <4> QED
        BY <3>1, <4>2 DEF DocGood
    <3>3. CASE ~ IsArtifactOnly(doc)
      <4>1. \A g \in ToSet(ParseServerJsonMeta(doc)) : ~ IsMixed(g)
        BY <3>3 DEF IsRefused, BackendsAreRefused
      <4> QED
        BY <3>1, <4>1 DEF DocGood
    <3> QED
      BY <3>2, <3>3
  <2>1. i.todo # <<>> /\ i.doc \in AllDocs /\ DocGood(i.doc) /\ Len(i.all) = Len(ParsePackagesOci(i.doc))
    BY <1>2, <1>7, <2>0
  <2>2. \A k \in 1..Len(i.all) : i.all[k].id = i.doc.images[k].id /\ i.all[k].digest = i.doc.images[k].digest
    BY <1>7, <1>9
  <2>3. i.all # <<>> => ParsePackagesOci(i.doc) = i.doc.images
    BY <1>2, <1>4, <1>7
  <2>4. \A b \in DOMAIN ParseBundleDeclarations(i.doc) :
          \E k \in 1..Len(i.all) : i.all[k].id = ParseBundleDeclarations(i.doc)[b]
    BY <1>7, <1>10
  <2> QED
    BY <2>1, <2>2, <2>3, <2>4 DEF Probing
<1>12. ResolveInv(S, i)
  BY <1>7, <1>8, <1>11 DEF ResolveInv
<1> QED
  BY <1>1, <1>6, <1>12, ResolveJobIs

\* The descriptor of an input is fetched, or that fails.
LEMMA FetchKeeps ==
  ASSUME WorkInv, NEW p \in Procs, Fetch(p) PROVE WorkInv'
<1>1. jobs[p].pc = "fetch" /\ jobs[p].todo # <<>> /\ seen' = seen /\ UNCHANGED <<workFiles, workWorld>>
  BY DEF Fetch
<1>2. PICK j \in ResolveJobs : j = jobs[p] /\ ResolveInv(seen, j)
  BY <1>1, JobOf
<1>3. j.todo \in Seq(Specs) /\ j.todo # <<>>
  BY <1>1, <1>2 DEF ResolveJobs
<1>4. SpecOf(j) \in Specs
  BY <1>3, SpecOfIs
<1>5. PICK doc \in AllDocs : doc = published[SpecOf(j).name]
  <2>1. SpecOf(j).name \in DOMAIN Documents
    BY <1>4, SpecIs
  <2> QED
    BY <2>1 DEF WorkInv
<1>6. \/ jobs' = [jobs EXCEPT ![p] = FailedInput(j)]
      \/ /\ ~ IsRefused(SpecOf(j), doc)
         /\ jobs' = [jobs EXCEPT ![p] = [j EXCEPT !.pc = "probe", !.doc = doc, !.at = 1, !.all = ParsePackagesOci(doc)]]
  BY <1>2, <1>5 DEF Fetch
<1>7. CASE jobs' = [jobs EXCEPT ![p] = FailedInput(j)]
  <2>1. FailedInput(j) \in JobSet /\ CommandInv(seen', FailedInput(j))
    BY <1>1, <1>2, <1>3, FailedIs
  <2> QED
    BY <1>1, <1>7, <2>1, OnlyJob
<1>8. CASE /\ ~ IsRefused(SpecOf(j), doc)
           /\ jobs' = [jobs EXCEPT ![p] = [j EXCEPT !.pc = "probe", !.doc = doc, !.at = 1, !.all = ParsePackagesOci(doc)]]
  <2>1. PICK i : i = [j EXCEPT !.pc = "probe", !.doc = doc, !.at = 1, !.all = ParsePackagesOci(doc)]
    OBVIOUS
  <2>2. i \in JobSet /\ CommandInv(seen', i)
    BY <1>1, <1>2, <1>3, <1>8, <2>1, FetchedIs
  <2>3. jobs' = [jobs EXCEPT ![p] = i]
    BY <1>8, <2>1
  <2> QED
    BY <1>1, <2>2, <2>3, OnlyJob
<1> QED
  BY <1>6, <1>7, <1>8

\* What a registry answers.
LEMMA ProbeIs ==
  ASSUME NEW a
  PROVE  /\ ProbeOciDigest(a) = "present" => a.digest # Absent
         /\ ProbeOciDigest(a) \in Words /\ ProbeOciDigest(a) # Absent
<1> DEFINE status == IF a.first = 401 THEN a.second ELSE a.first
           states == {"notApplicable", "unauthorized", "absent", "present", "unreachable"}
           inner == CASE status = 404 -> "absent"
                      [] status \in {401, 403} -> "unauthorized"
                      [] status = 200 /\ a.digest # Absent -> "present"
                      [] OTHER -> "unreachable"
<1>1. inner \in states /\ (inner = "present" => a.digest # Absent)
  <2> HIDE DEF status
  <2> QED
    OBVIOUS
<1>2. ProbeOciDigest(a) = CASE ~ a.hosted -> "notApplicable"
          [] a.hosted /\ a.first = 401 /\ ~ a.token -> "unauthorized"
          [] a.hosted /\ ~ (a.first = 401 /\ ~ a.token) -> inner
  BY DEF ProbeOciDigest
<1> HIDE DEF inner
<1>3. ProbeOciDigest(a) \in states /\ (ProbeOciDigest(a) = "present" => a.digest # Absent)
  BY <1>1, <1>2
<1>4. \A s \in states : s \in Words
  BY DEF Words
<1>5. \A s \in states : s # Absent
  BY Zenon DEF Absent
<1> HIDE DEF states
<1> QED
  BY <1>3, <1>4, <1>5

\* What is known of an image that is seen for.
LEMMA AnswerIs ==
  ASSUME WorkInv, NEW image \in Known, image.id # Absent, NEW a \in Answers
  PROVE  HeadAnswer(a, image).digest \in Words
<1>1. a \in [hosted : BOOLEAN, first : Nat, token : BOOLEAN, second : Nat, digest : Text]
  BY WorkspaceAssumption
<1>2. image.id \in ImageIds
  BY DEF Known
<1>3. tags[image.id] \in Words
  BY <1>2 DEF WorkInv
<1>4. HeadAnswer(a, image).digest = IF a.digest = Absent THEN Absent ELSE tags[image.id]
  BY <1>1 DEF HeadAnswer
<1> QED
  BY <1>3, <1>4, WorkConstants

\* One of several images is seen for.
LEMMA ProbedIs ==
  ASSUME NEW S, NEW T, S \subseteq T, NEW j \in ResolveJobs, ResolveInv(S, j), Probing(S, j), j.pc = "probe",
         NEW k \in 1..Len(j.all), NEW d \in Words, d = Absent \/ <<j.all[k].id, d>> \in T
  PROVE  /\ [j EXCEPT !.at = k + 1, !.all[k].digest = d] \in JobSet
         /\ CommandInv(T, [j EXCEPT !.at = k + 1, !.all[k].digest = d])
<1>1. PICK i : i = [j EXCEPT !.at = k + 1, !.all[k].digest = d]
  OBVIOUS
<1>2. j.all \in Seq(Known) /\ k \in Nat /\ j.all[k] \in Known /\ DOMAIN j.all = 1..Len(j.all)
  <2>1. j.all \in Seq(Known)
    BY DEF ResolveJobs
  <2> QED
    BY <2>1
<1>3. PICK o : o = [j.all[k] EXCEPT !.digest = d]
  OBVIOUS
<1>4. o \in Known /\ o.id = j.all[k].id /\ o.digest = d
  BY <1>2, <1>3 DEF Known
<1>5. PICK all : all = [j.all EXCEPT ![k] = o]
  OBVIOUS
<1>6. /\ all \in Seq(Known) /\ Len(all) = Len(j.all) /\ all[k] = o
      /\ \A x \in 1..Len(j.all) : x # k => all[x] = j.all[x]
  BY <1>2, <1>4, <1>5
<1>7. i = [cmd |-> j.cmd, pc |-> j.pc, inputs |-> j.inputs, todo |-> j.todo, rows |-> j.rows,
           failed |-> j.failed, doc |-> j.doc, all |-> all, at |-> k + 1]
  BY <1>1, <1>3, <1>5 DEF ResolveJobs
<1>8. i \in ResolveJobs
  <2>1. /\ j.cmd \in {"resolve", "add"} /\ j.pc \in {"truncate", "fill", "fetch", "probe", "fill lock"}
        /\ j.inputs \in Seq(Specs) /\ j.todo \in Seq(Specs) /\ j.rows \in Seq(RowSet)
        /\ j.failed \in BOOLEAN /\ j.doc \in AllDocs \cup {None}
    BY DEF ResolveJobs
  <2>2. k + 1 \in Nat \ {0}
    BY <1>2
  <2> QED
    BY <1>6, <1>7, <2>1, <2>2 DEF ResolveJobs
<1>9. /\ i.pc = "probe" /\ i.rows = j.rows /\ i.failed = j.failed /\ i.cmd = j.cmd /\ i.todo = j.todo
      /\ i.inputs = j.inputs /\ i.doc = j.doc /\ i.all = all
  BY <1>7
<1>10. Along(j) => Along(i)
  BY <1>9 DEF Along
<1>11. Probing(T, j)
  BY DEF Probing
<1>12. ASSUME NEW x \in 1..Len(all)
       PROVE  /\ all[x].id = j.all[x].id /\ all[x].id = j.doc.images[x].id
              /\ all[x].digest \in {Absent, j.doc.images[x].digest} \/ <<all[x].id, all[x].digest>> \in T
  <2>1. x \in 1..Len(j.all)
    BY <1>6
  <2>2. /\ j.all[x].id = j.doc.images[x].id
        /\ j.all[x].digest \in {Absent, j.doc.images[x].digest} \/ <<j.all[x].id, j.all[x].digest>> \in T
    BY <1>11, <2>1 DEF Probing
  <2>3. CASE x = k
    BY <1>4, <1>6, <2>2, <2>3
  <2>4. CASE x # k
    <3>1. all[x] = j.all[x]
      BY <1>6, <2>1, <2>4
    <3> QED
      BY <2>2, <3>1
  <2> QED
    BY <2>3, <2>4
<1>13. all # <<>> => j.all # <<>>
  BY <1>2
<1>14. Probing(T, i)
  <2>1. i.todo # <<>> /\ i.doc \in AllDocs /\ DocGood(i.doc) /\ Len(i.all) = Len(ParsePackagesOci(i.doc))
    BY <1>6, <1>9, <1>11 DEF Probing
  <2>2. i.all # <<>> => ParsePackagesOci(i.doc) = i.doc.images
    BY <1>9, <1>11, <1>13 DEF Probing
  <2>3. ASSUME NEW b \in DOMAIN ParseBundleDeclarations(i.doc)
        PROVE  \E x \in 1..Len(i.all) : i.all[x].id = ParseBundleDeclarations(i.doc)[b]
    <3>1. PICK x \in 1..Len(j.all) : j.all[x].id = ParseBundleDeclarations(j.doc)[b]
      BY <1>9, <1>11, <2>3 DEF Probing
    <3>2. x \in 1..Len(all) /\ all[x].id = j.all[x].id
      BY <1>6, <1>12
    <3> QED
      BY <1>9, <3>1, <3>2
  <2>4. \A x \in 1..Len(i.all) :
          /\ i.all[x].id = i.doc.images[x].id
          /\ i.all[x].digest \in {Absent, i.doc.images[x].digest} \/ <<i.all[x].id, i.all[x].digest>> \in T
    BY <1>9, <1>12
  <2> QED
    BY <2>1, <2>2, <2>3, <2>4 DEF Probing
<1>15. RowsPinned(T, i.rows)
  BY <1>9, StillPinned DEF ResolveInv
<1>16. ResolveInv(T, i)
  BY <1>9, <1>10, <1>14, <1>15 DEF ResolveInv
<1> QED
  BY <1>1, <1>8, <1>16, ResolveJobIs

\* One of several images is asked for at its registry.
LEMMA ProbeEachKeeps ==
  ASSUME WorkInv, NEW p \in Procs, ProbeEach(p) PROVE WorkInv'
<1>1. jobs[p].pc = "probe" /\ Unprobed(jobs[p]) # {} /\ UNCHANGED <<workFiles, workWorld>>
  BY DEF ProbeEach
<1>2. PICK j \in ResolveJobs : j = jobs[p] /\ ResolveInv(seen, j)
  BY <1>1, JobOf
<1>3. Probing(seen, j)
  BY <1>1, <1>2 DEF ResolveInv
<1>4. j.at \in Nat \ {0} /\ j.all \in Seq(Known)
  BY DEF ResolveJobs
<1>5. Unprobed(j) \subseteq Nat /\ Unprobed(j) # {}
  BY <1>1, <1>2, <1>4 DEF Unprobed
<1>6. PICK k : k = NextUnprobed(j)
  OBVIOUS
<1>7. k \in Unprobed(j)
  BY <1>5, <1>6, LeastOf DEF NextUnprobed
<1>8. k \in 1..Len(j.all) /\ NeedsProbe(j.all[k])
  BY <1>4, <1>7 DEF Unprobed
<1>9. PICK a \in Answers :
        LET here == HeadAnswer(a, jobs[p].all[k])
            present == ProbeOciDigest(here) = "present"
        IN  /\ jobs' = [jobs EXCEPT ![p].at = k + 1, ![p].all[k].digest = IF present THEN here.digest ELSE Absent]
            /\ seen' = IF present THEN seen \cup {<<jobs[p].all[k].id, here.digest>>} ELSE seen
  BY <1>2, <1>6 DEF ProbeEach
<1>10. PICK d : d = IF ProbeOciDigest(HeadAnswer(a, j.all[k])) = "present" THEN HeadAnswer(a, j.all[k]).digest ELSE Absent
  OBVIOUS
<1>11. jobs' = [jobs EXCEPT ![p].at = k + 1, ![p].all[k].digest = d]
  BY <1>2, <1>9, <1>10
<1>12. d \in Words /\ seen \subseteq seen' /\ (d = Absent \/ <<j.all[k].id, d>> \in seen')
  <2>1. j.all[k] \in Known /\ j.all[k].id # Absent
    BY <1>4, <1>8 DEF NeedsProbe
  <2>2. HeadAnswer(a, j.all[k]).digest \in Words
    BY <2>1, AnswerIs
  <2> QED
    BY <1>2, <1>9, <1>10, <2>2, WorkConstants
<1>13. PICK i : i = [j EXCEPT !.at = k + 1, !.all[k].digest = d]
  OBVIOUS
<1>14. i \in JobSet /\ CommandInv(seen', i)
  BY <1>1, <1>2, <1>3, <1>8, <1>12, <1>13, ProbedIs
<1>15. jobs' = [jobs EXCEPT ![p] = i]
  <2>1. jobs \in [Procs -> JobSet]
    BY JobOf
  <2> QED
    BY <1>2, <1>11, <1>13, <2>1
<1> QED
  BY <1>1, <1>12, <1>14, <1>15, OnlyJob

\* The image of an input itself.
LEMMA PrimaryIs ==
  ASSUME NEW S, NEW j \in ResolveJobs, Probing(S, j)
  PROVE  /\ PrimaryOf(j) \in Known
         /\ PrimaryOf(j).id # Absent =>
              /\ 1 \in DOMAIN j.doc.images /\ PrimaryOf(j).id = j.doc.images[1].id
              /\ PrimaryOf(j).digest \in {Absent, j.doc.images[1].digest} \/ <<PrimaryOf(j).id, PrimaryOf(j).digest>> \in S
<1>1. j.all \in Seq(Known)
  BY DEF ResolveJobs
<1>2. CASE j.all = <<>>
  <2>1. PrimaryOf(j) = NoImage
    BY <1>2 DEF PrimaryOf
  <2>2. NoImage.id = Absent
    BY DEF NoImage
  <2> QED
    BY <2>1, <2>2, WorkConstants
<1>3. CASE j.all # <<>>
  <2>1. PrimaryOf(j) = j.all[1] /\ 1 \in 1..Len(j.all)
    BY <1>1, <1>3 DEF PrimaryOf
  <2>2. j.all[1] \in Known
    BY <1>1, <2>1
  <2>3. /\ j.all[1].id = j.doc.images[1].id
        /\ j.all[1].digest \in {Absent, j.doc.images[1].digest} \/ <<j.all[1].id, j.all[1].digest>> \in S
        /\ Len(j.all) = Len(j.doc.images) /\ j.doc \in AllDocs
    BY <1>3, <2>1 DEF Probing
  <2>4. j.doc.images \in Seq(Known)
    BY <2>3, WorkConstants
  <2>5. 1 \in DOMAIN j.doc.images
    BY <2>1, <2>3, <2>4
  <2> QED
    BY <2>1, <2>2, <2>3, <2>5
<1> QED
  BY <1>2, <1>3

\* It is seen for once more.
LEMMA ProbePrimaryKeeps ==
  ASSUME WorkInv, NEW p \in Procs, ProbePrimary(p) PROVE WorkInv'
<1>1. jobs[p].pc = "probe" /\ NeedsProbe(PrimaryOf(jobs[p])) /\ UNCHANGED <<workFiles, workWorld>>
  BY DEF ProbePrimary
<1>2. PICK j \in ResolveJobs : j = jobs[p] /\ ResolveInv(seen, j)
  BY <1>1, JobOf
<1>3. Probing(seen, j)
  BY <1>1, <1>2 DEF ResolveInv
<1>4. PICK image \in Known : image = PrimaryOf(j) /\ NeedsProbe(image)
  BY <1>1, <1>2, <1>3, PrimaryIs
<1>5. image.id # Absent /\ image.tag # Absent /\ image.digest = Absent
  BY <1>4 DEF NeedsProbe
<1>6. j.todo \in Seq(Specs) /\ j.todo # <<>>
  BY <1>3 DEF ResolveJobs, Probing
<1>7. SpecOf(j).reason => Head(j.todo).reason
  BY <1>6, SpecOfIs
<1>8. PICK a \in Answers :
        LET here == HeadAnswer(a, image)
            state == ProbeOciDigest(here)
        IN  /\ seen' = CASE state = "present" -> seen \cup {<<image.id, here.digest>>}
                         [] state # "present" /\ SpecOf(j).reason -> seen \cup {<<image.id, Absent>>}
                         [] OTHER -> seen
            /\ jobs' = [jobs EXCEPT ![p] =
                  CASE state = "present" -> Resolved(j, [image EXCEPT !.digest = here.digest], Absent)
                    [] state # "present" /\ UnpinnedIsAcknowledged(j) -> Resolved(j, image, state)
                    [] OTHER -> FailedInput(j)]
  BY <1>2, <1>4 DEF ProbePrimary
<1>9. PICK state, d : state = ProbeOciDigest(HeadAnswer(a, image)) /\ d = HeadAnswer(a, image).digest
  OBVIOUS
<1>10. d \in Words /\ state \in Words /\ state # Absent /\ (state = "present" => d # Absent)
  BY <1>5, <1>9, AnswerIs, ProbeIs
<1>11. CASE state = "present"
  <2>1. PICK oci : oci = [image EXCEPT !.digest = d]
    OBVIOUS
  <2>2. oci \in Known /\ oci.id = image.id /\ oci.digest = d
    BY <1>10, <2>1 DEF Known
  <2>3. seen' = seen \cup {<<image.id, d>>} /\ jobs' = [jobs EXCEPT ![p] = Resolved(j, oci, Absent)]
    BY <1>8, <1>9, <1>11, <2>1
  <2>4. RowOf(j, oci, Absent).oci = oci
    BY <1>3, <2>2, RowIs, WorkConstants
  <2>5. RowPinned(seen', RowOf(j, oci, Absent))
    BY <1>10, <1>11, <2>2, <2>3, <2>4 DEF RowPinned, ImagePinned
  <2>6. seen \subseteq seen'
    BY <2>3
  <2>7. Resolved(j, oci, Absent) \in JobSet /\ CommandInv(seen', Resolved(j, oci, Absent))
    BY <1>2, <1>3, <2>2, <2>5, <2>6, ResolvedIs, WorkConstants
  <2> QED
    BY <1>1, <2>3, <2>6, <2>7, OnlyJob
<1>12. CASE state # "present" /\ SpecOf(j).reason
  <2>1. seen' = seen \cup {<<image.id, Absent>>}
    BY <1>8, <1>9, <1>12
  <2>2. jobs' = [jobs EXCEPT ![p] = Resolved(j, image, state)]
    BY <1>8, <1>9, <1>12 DEF UnpinnedIsAcknowledged
  <2>3. state \in Words
    BY <1>10
  <2>4. PICK r : r = RowOf(j, image, state)
    OBVIOUS
  <2>5. r.oci = image /\ r.unresolved = state /\ r.spec = Head(j.todo)
    BY <1>3, <2>3, <2>4, RowIs
  <2>6. RowPinned(seen', r)
    BY <1>5, <1>7, <1>10, <1>12, <2>1, <2>5 DEF RowPinned, ImagePinned
  <2>7. seen \subseteq seen'
    BY <2>1
  <2>8. Resolved(j, image, state) \in JobSet /\ CommandInv(seen', Resolved(j, image, state))
    BY <1>2, <1>3, <2>3, <2>4, <2>6, <2>7, ResolvedIs
  <2> QED
    BY <1>1, <2>2, <2>7, <2>8, OnlyJob
<1>13. CASE state # "present" /\ ~ SpecOf(j).reason
  <2>1. seen' = seen
    BY <1>8, <1>9, <1>13
  <2>2. jobs' = [jobs EXCEPT ![p] = FailedInput(j)]
    BY <1>8, <1>9, <1>13 DEF UnpinnedIsAcknowledged
  <2>3. FailedInput(j) \in JobSet /\ CommandInv(seen', FailedInput(j))
    BY <1>2, <1>6, <2>1, FailedIs
  <2> QED
    BY <1>1, <2>1, <2>2, <2>3, OnlyJob
<1> QED
  BY <1>11, <1>12, <1>13

\* It has a digest, or nothing to be seen for.
LEMMA NoProbeKeeps ==
  ASSUME WorkInv, NEW p \in Procs, NoProbe(p) PROVE WorkInv'
<1>1. jobs[p].pc = "probe" /\ ~ NeedsProbe(PrimaryOf(jobs[p])) /\ UNCHANGED <<workFiles, workWorld>>
  BY DEF NoProbe
<1>2. PICK j \in ResolveJobs : j = jobs[p] /\ ResolveInv(seen, j)
  BY <1>1, JobOf
<1>3. Probing(seen, j)
  BY <1>1, <1>2 DEF ResolveInv
<1>4. PICK image \in Known : image = PrimaryOf(j) /\ ~ NeedsProbe(image)
  BY <1>1, <1>2, <1>3, PrimaryIs
<1>5. /\ jobs' = [jobs EXCEPT ![p] = Resolved(j, image, Absent)]
      /\ seen' = seen \cup {<<i.id, i.digest>> : i \in {x \in ToSet(j.doc.images) : x.digest # Absent}}
  BY <1>2, <1>4 DEF NoProbe
<1>6. seen \subseteq seen'
  BY <1>5
<1>7. RowOf(j, image, Absent).oci = image
  BY <1>3, RowIs, WorkConstants
<1>8. image.id # Absent /\ image.digest # Absent => <<image.id, image.digest>> \in seen'
  <2> SUFFICES ASSUME image.id # Absent, image.digest # Absent PROVE <<image.id, image.digest>> \in seen'
    OBVIOUS
  <2>1. /\ 1 \in DOMAIN j.doc.images /\ image.id = j.doc.images[1].id
        /\ image.digest = j.doc.images[1].digest \/ <<image.id, image.digest>> \in seen
    BY <1>3, <1>4, PrimaryIs
  <2>2. CASE image.digest = j.doc.images[1].digest
    <3>1. PICK x : x = j.doc.images[1]
      OBVIOUS
    <3>2. x \in ToSet(j.doc.images)
      BY <2>1, <3>1 DEF ToSet
    <3> QED
      BY <1>5, <2>1, <2>2, <3>1, <3>2
  <2> QED
    BY <1>6, <2>1, <2>2
<1>9. RowPinned(seen', RowOf(j, image, Absent))
  BY <1>4, <1>7, <1>8 DEF RowPinned, ImagePinned, NeedsProbe
<1>10. Resolved(j, image, Absent) \in JobSet /\ CommandInv(seen', Resolved(j, image, Absent))
  BY <1>2, <1>3, <1>6, <1>9, ResolvedIs, WorkConstants
<1> QED
  BY <1>1, <1>5, <1>6, <1>10, OnlyJob

\* The lockfile of a resolution in which nothing has failed.
LEMMA LockIs ==
  ASSUME NEW S, NEW j \in ResolveJobs, ResolveInv(S, j), ~ j.failed, j.todo = <<>>, NEW torn \in BOOLEAN,
         NEW open \in SUBSET Procs
  PROVE  LockOK(S, [torn |-> torn, of |-> j.inputs, rows |-> j.rows, open |-> open])
<1>1. PICK l : l = [torn |-> torn, of |-> j.inputs, rows |-> j.rows, open |-> open]
  OBVIOUS
<1>2. j.inputs \in Seq(Specs) /\ j.rows \in Seq(RowSet)
  BY DEF ResolveJobs
<1>3. l \in [torn : BOOLEAN, of : Seq(Specs), rows : Seq(RowSet), open : SUBSET Procs] /\ l.rows = j.rows /\ l.of = j.inputs
  BY <1>1, <1>2
<1>4. Along(j) /\ RowsPinned(S, j.rows)
  BY DEF ResolveInv
<1>5. Len(j.rows) = Len(j.inputs) /\ \A k \in 1..Len(j.rows) : j.rows[k].name = j.inputs[k].name
  <2>1. Len(j.todo) = 0 /\ Len(j.rows) \in Nat
    BY <1>2
  <2> QED
    BY <1>4, <2>1 DEF Along
<1>6. Whole(l)
  BY <1>3, <1>5 DEF Whole
<1> QED
  BY <1>1, <1>3, <1>4, <1>6 DEF LockOK

\* resolve writes the lockfile, unless an input has failed.
LEMMA WriteLockKeeps ==
  ASSUME WorkInv, NEW p \in Procs, WriteLock(p) PROVE WorkInv'
<1>1. /\ jobs[p].pc = "fetch" /\ jobs[p].todo = <<>> /\ End(p) /\ seen' = seen
      /\ UNCHANGED <<toml, files, workWorld>>
      /\ lock' = IF jobs[p].failed THEN lock ELSE BuildLockfile(jobs[p])
  BY DEF WriteLock
<1>2. jobs[p] \in ResolveJobs /\ ResolveInv(seen, jobs[p])
  BY <1>1, JobOf
<1>3. ~ jobs[p].failed => LockOK(seen', BuildLockfile(jobs[p]))
  BY <1>1, <1>2, LockIs DEF BuildLockfile
<1>4. lock' = lock \/ LockOK(seen', lock')
  BY <1>1, <1>3
<1>5. jobs' \in [Procs -> JobSet] /\ \A q \in Procs : CommandInv(seen', jobs'[q])
  BY <1>1, EndIs
<1> QED
  BY <1>1, <1>4, <1>5, Together DEF workWorld

\* add begins to write the lockfile in place.
LEMMA AddTruncateLockKeeps ==
  ASSUME WorkInv, NEW p \in Procs, AddTruncateLock(p) PROVE WorkInv'
<1>1. /\ jobs[p].pc = "fetch" /\ jobs[p].todo = <<>> /\ jobs[p].cmd = "add" /\ Goto(p, "fill lock")
      /\ seen' = seen /\ UNCHANGED <<toml, files, workWorld>>
      /\ lock' = [BuildLockfile(jobs[p]) EXCEPT !.torn = TRUE, !.open = Opened(lock) \cup {p}]
  BY DEF AddTruncateLock
<1>2. jobs[p] \in ResolveJobs /\ ResolveInv(seen, jobs[p])
  BY <1>1, JobOf
<1>3. PICK open \in SUBSET Procs : lock' = [torn |-> TRUE, of |-> jobs[p].inputs, rows |-> jobs[p].rows, open |-> open]
  <2>1. Opened(lock) \in SUBSET Procs
    BY DEF WorkInv, LockOK, Opened
  <2>2. lock' = [torn |-> TRUE, of |-> jobs[p].inputs, rows |-> jobs[p].rows, open |-> Opened(lock) \cup {p}]
    BY <1>1 DEF BuildLockfile
  <2> QED
    BY <2>1, <2>2
<1>4. ~ jobs[p].failed
  BY <1>1, <1>2 DEF ResolveInv
<1>5. LockOK(seen', lock')
  <2>1. PICK j \in ResolveJobs : j = jobs[p]
    BY <1>2
  <2>2. LockOK(seen, [torn |-> TRUE, of |-> j.inputs, rows |-> j.rows, open |-> open])
    BY <1>1, <1>2, <1>4, <2>1, LockIs
  <2>3. lock' = [torn |-> TRUE, of |-> j.inputs, rows |-> j.rows, open |-> open] /\ seen' = seen
    BY <1>1, <1>3, <2>1
  <2> QED
    BY <2>2, <2>3
<1>6. jobs' \in [Procs -> JobSet] /\ \A q \in Procs : CommandInv(seen', jobs'[q])
  BY <1>1, <1>2, GotoIs
<1> QED
  BY <1>1, <1>5, <1>6, Together DEF workWorld

\* add has written the lockfile.
LEMMA AddFillLockKeeps ==
  ASSUME WorkInv, NEW p \in Procs, AddFillLock(p) PROVE WorkInv'
<1>1. /\ jobs[p].pc = "fill lock" /\ End(p) /\ seen' = seen /\ UNCHANGED <<toml, files, workWorld>>
      /\ lock' \in LockFilled(p, jobs[p])
  BY DEF AddFillLock
<1>2. PICK j \in ResolveJobs : j = jobs[p] /\ ResolveInv(seen, j)
  BY <1>1, JobOf
<1>3. ~ j.failed /\ j.todo = <<>>
  BY <1>1, <1>2 DEF ResolveInv
<1>4. lock' = lock \/ LockOK(seen', lock')
  <2>1. CASE lock' = lock
    BY <2>1
  <2>2. CASE p \in Opened(lock)
    <3>1. lock # None
      BY <2>2 DEF Opened
    <3>2. lock.open \in SUBSET Procs /\ lock.rows \in Seq(RowSet) /\ RowsPinned(seen, lock.rows)
      BY <3>1 DEF WorkInv, LockOK
    <3>3. PICK rest \in SUBSET Procs : rest = lock.open \ {p}
      BY <3>2
    <3>4. \/ lock' = [torn |-> FALSE, of |-> j.inputs, rows |-> j.rows, open |-> rest]
          \/ \E rows \in Over(j.rows, lock.rows) :
               lock' = [torn |-> rows # j.rows, of |-> j.inputs, rows |-> rows, open |-> rest]
      BY <1>1, <1>2, <2>2, <3>3 DEF LockFilled, BuildLockfile
    <3>5. CASE lock' = [torn |-> FALSE, of |-> j.inputs, rows |-> j.rows, open |-> rest]
      BY <1>1, <1>2, <1>3, <3>5, LockIs
    <3>6. ASSUME NEW rows \in Over(j.rows, lock.rows),
                 lock' = [torn |-> rows # j.rows, of |-> j.inputs, rows |-> rows, open |-> rest]
          PROVE  LockOK(seen', lock')
      <4>1. CASE rows = j.rows
        <5>1. lock' = [torn |-> FALSE, of |-> j.inputs, rows |-> j.rows, open |-> rest]
          BY <3>6, <4>1
        <5> QED
          BY <1>1, <1>2, <1>3, <5>1, LockIs
      <4>2. CASE rows # j.rows
        <5>1. lock' = [torn |-> TRUE, of |-> j.inputs, rows |-> rows, open |-> rest]
          BY <3>6, <4>2
        <5>2. j.rows \in Seq(RowSet) /\ j.inputs \in Seq(Specs) /\ RowsPinned(seen, j.rows)
          BY <1>2 DEF ResolveJobs, ResolveInv
        <5>3. /\ rows \in Seq(RowSet)
              /\ \A k \in 1..Len(rows) : \/ \E i \in 1..Len(j.rows) : rows[k] = j.rows[i]
                                         \/ \E i \in 1..Len(lock.rows) : rows[k] = lock.rows[i]
          BY <3>2, <5>2, OverIs
        <5>4. RowsPinned(seen, rows)
          BY <3>2, <5>2, <5>3 DEF RowsPinned
        <5>5. /\ lock' \in [torn : BOOLEAN, of : Seq(Specs), rows : Seq(RowSet), open : SUBSET Procs]
              /\ lock'.torn /\ lock'.rows = rows
          BY <5>1, <5>2, <5>3
        <5> QED
          BY <1>1, <5>4, <5>5 DEF LockOK
      <4> QED
        BY <4>1, <4>2
    <3> QED
      BY <3>4, <3>5, <3>6
  <2>3. p \notin Opened(lock) => lock' = lock
    BY <1>1 DEF LockFilled
  <2> QED
    BY <2>1, <2>2, <2>3
<1>5. jobs' \in [Procs -> JobSet] /\ \A q \in Procs : CommandInv(seen', jobs'[q])
  BY <1>1, EndIs
<1> QED
  BY <1>1, <1>4, <1>5, Together DEF workWorld

\* generate reads cluster.toml.
LEMMA GenerateReadTomlKeeps ==
  ASSUME WorkInv, NEW p \in Procs, GenerateReadToml(p) PROVE WorkInv'
<1>1. PICK inputs \in TomlReadings :
        jobs' = [jobs EXCEPT ![p] = [cmd |-> "generate", pc |-> "compute", inputs |-> inputs,
                                     rows |-> <<>>, todo |-> <<>>]]
  BY DEF GenerateReadToml
<1>2. UNCHANGED <<workFiles, workWorld>> /\ seen' = seen
  BY DEF GenerateReadToml
<1>3. PICK j : j = [cmd |-> "generate", pc |-> "compute", inputs |-> inputs, rows |-> <<>>, todo |-> <<>>]
  OBVIOUS
<1>4. j \in GenerateJobs
  <2>1. inputs \in Seq(Specs)
    BY Readings
  <2>2. <<>> \in Seq(RowSet) /\ <<>> \in Seq({"toml", "clusterTs", "capnp", "compose"})
    OBVIOUS
  <2> QED
    BY <1>3, <2>1, <2>2 DEF GenerateJobs
<1>5. j \in JobSet /\ CommandInv(seen', j)
  BY <1>4, NothingMore
<1> QED
  BY <1>1, <1>2, <1>3, <1>5, OnlyJob

\* generate computes what is to be written.
LEMMA ComputeKeeps ==
  ASSUME WorkInv, NEW p \in Procs, Compute(p) PROVE WorkInv'
<1> DEFINE F == {"toml", "clusterTs", "capnp", "compose"}
<1>1. jobs[p].pc = "compute" /\ UNCHANGED <<workFiles, workWorld>> /\ seen' = seen
  BY DEF Compute
<1>2. PICK j \in GenerateJobs : j = jobs[p]
  BY <1>1, JobOf
<1>3. PICK rows \in LockReadings, todo \in Seq(F) :
        \/ jobs' = [jobs EXCEPT ![p] = Idle]
        \/ jobs' = [jobs EXCEPT ![p] = [j EXCEPT !.pc = "write", !.rows = rows, !.todo = todo]]
  <2>1. PICK rows \in LockReadings :
          LET inputs == jobs[p].inputs
              body == [clusterTs |-> Of(inputs), capnp |-> Of(inputs), compose |-> ComposeOf(inputs, rows)]
              IfChanged(f) == IF files[f] # body[f] THEN <<f>> ELSE <<>>
          IN  \/ jobs' = [jobs EXCEPT ![p] = Idle]
              \/ jobs' = [jobs EXCEPT ![p] =
                     [jobs[p] EXCEPT !.pc = "write", !.rows = rows,
                                     !.todo = (IF toml.torn \/ toml.inputs # inputs THEN <<"toml">> ELSE <<>>)
                                               \o IfChanged("clusterTs") \o IfChanged("capnp") \o IfChanged("compose")]]
    BY DEF Compute, End
  <2> DEFINE body == [clusterTs |-> Of(jobs[p].inputs), capnp |-> Of(jobs[p].inputs), compose |-> ComposeOf(jobs[p].inputs, rows)]
             IfChanged(f) == IF files[f] # body[f] THEN <<f>> ELSE <<>>
             todo == (IF toml.torn \/ toml.inputs # jobs[p].inputs THEN <<"toml">> ELSE <<>>)
                        \o IfChanged("clusterTs") \o IfChanged("capnp") \o IfChanged("compose")
  <2>2. \/ jobs' = [jobs EXCEPT ![p] = Idle]
        \/ jobs' = [jobs EXCEPT ![p] = [jobs[p] EXCEPT !.pc = "write", !.rows = rows, !.todo = todo]]
    BY <2>1
  <2> HIDE DEF body
  <2>3. <<>> \in Seq(F) /\ \A f \in F : <<f>> \in Seq(F)
    <3> HIDE DEF F
    <3> QED
      OBVIOUS
  <2>4. \A f \in F : IfChanged(f) \in Seq(F)
    BY <2>3
  <2>5. (IF toml.torn \/ toml.inputs # jobs[p].inputs THEN <<"toml">> ELSE <<>>) \in Seq(F)
    <3>1. <<"toml">> \in Seq(F)
      BY <2>3
    <3> QED
      BY <2>3, <3>1
  <2> HIDE DEF IfChanged
  <2>6. IfChanged("clusterTs") \in Seq(F) /\ IfChanged("capnp") \in Seq(F) /\ IfChanged("compose") \in Seq(F)
    BY <2>4
  <2> HIDE DEF F
  <2>7. todo \in Seq(F)
    BY <2>5, <2>6, ConcatProperties
  <2> HIDE DEF todo
  <2> QED
    BY <1>2, <2>2, <2>7
<1>4. CASE jobs' = [jobs EXCEPT ![p] = Idle]
  <2>1. Idle \in JobSet /\ CommandInv(seen', Idle)
    BY NothingMore
  <2> QED
    BY <1>1, <1>4, <2>1, OnlyJob
<1>5. CASE jobs' = [jobs EXCEPT ![p] = [j EXCEPT !.pc = "write", !.rows = rows, !.todo = todo]]
  <2>1. PICK i : i = [j EXCEPT !.pc = "write", !.rows = rows, !.todo = todo]
    OBVIOUS
  <2>2. rows \in Seq(RowSet)
    BY Readings
  <2>3. i = [cmd |-> j.cmd, pc |-> "write", inputs |-> j.inputs, rows |-> rows, todo |-> todo]
    BY <2>1 DEF GenerateJobs
  <2>4. i \in GenerateJobs
    <3>1. j.cmd = "generate" /\ j.inputs \in Seq(Specs)
      BY DEF GenerateJobs
    <3> QED
      BY <2>2, <2>3, <3>1 DEF GenerateJobs
  <2>5. i \in JobSet /\ CommandInv(seen', i)
    BY <2>4, NothingMore
  <2> QED
    BY <1>1, <1>5, <2>1, <2>5, OnlyJob
<1> QED
  BY <1>3, <1>4, <1>5

\* The greatest of some indexes.
LEMMA GreatestOf ==
  ASSUME NEW n \in Nat, NEW S, S \subseteq 1..n, S # {}
  PROVE  \E a \in S : \A j \in S : j <= a
<1>1. PICK T : T = {n - i : i \in S}
  OBVIOUS
<1>2. T \subseteq Nat /\ T # {}
  <2>1. \A i \in S : i \in Nat /\ i <= n /\ n - i \in Nat
    OBVIOUS
  <2> QED
    BY <1>1, <2>1
<1>3. PICK t \in T : \A j \in T : t <= j
  BY <1>2, LeastOf
<1>4. PICK a \in S : t = n - a
  BY <1>1, <1>3
<1>5. \A j \in S : n - a <= n - j
  BY <1>1, <1>3, <1>4
<1>6. \A j \in S : j <= a
  BY <1>5
<1> QED
  BY <1>6

\* A reference to an image.
LEMMA RefIs ==
  ASSUME NEW o \in Known
  PROVE  /\ OciImageRef(o) \in Known /\ OciImageRef(o).id = o.id /\ OciImageRef(o).digest = o.digest
         /\ OciImageRef(o).tag # Absent => o.digest = Absent /\ o.tag # Absent
<1>1. Absent \in Words
  BY WorkConstants
<1> QED
  BY <1>1 DEF OciImageRef, Known

\* The pins that generate takes from the lockfile.
LEMMA PinsAre ==
  ASSUME NEW inputs \in Seq(Specs), NEW rows \in Seq(RowSet), NEW c, c = ParseOciPins(inputs, rows)
  PROVE  /\ c.bundles = Bundles /\ c.inputs = inputs
         /\ \A i \in DOMAIN inputs : c.oci[inputs[i].name] \in Known
         /\ \A i \in DOMAIN Bundles : c.ociBundles[Bundles[i].name] \in Known
<1> DEFINE of(n) == {k \in DOMAIN rows : rows[k].name = n}
           naming(b) == {k \in DOMAIN rows : b \in DOMAIN rows[k].ociBundles}
           Most(S) == CHOOSE k \in S : \A j \in S : j <= k
           oci(n) == IF of(n) = {} THEN NoImage ELSE rows[Most(of(n))].oci
           own(b) == IF naming(b) = {} THEN NoImage ELSE rows[Most(naming(b))].ociBundles[b]
<1>1. c = [bundles |-> Bundles, inputs |-> inputs,
           oci |-> [n \in {inputs[i].name : i \in DOMAIN inputs} |-> oci(n)],
           ociBundles |-> [b \in {Bundles[i].name : i \in DOMAIN Bundles} |-> own(b)]]
  BY DEF ParseOciPins
<1>2. NoImage \in Known
  BY WorkConstants
<1>3. DOMAIN rows = 1..Len(rows) /\ Len(rows) \in Nat
  OBVIOUS
<1>4. ASSUME NEW S, S \subseteq DOMAIN rows, S # {} PROVE Most(S) \in S
  BY <1>3, <1>4, GreatestOf
<1>5. ASSUME NEW n PROVE oci(n) \in Known
  <2>1. of(n) \subseteq DOMAIN rows
    OBVIOUS
  <2>2. CASE of(n) # {}
    <3>1. Most(of(n)) \in of(n)
      BY <1>4, <2>1, <2>2
    <3> HIDE DEF Most
    <3>2. rows[Most(of(n))] \in RowSet
      BY <3>1
    <3>3. rows[Most(of(n))].oci \in Known
      BY <3>2 DEF RowSet, RowFacts
    <3> QED
      BY <2>2, <3>3
  <2> QED
    BY <1>2, <2>2
<1>6. ASSUME NEW b PROVE own(b) \in Known
  <2>1. naming(b) \subseteq DOMAIN rows
    OBVIOUS
  <2>2. CASE naming(b) # {}
    <3>1. Most(naming(b)) \in naming(b)
      BY <1>4, <2>1, <2>2
    <3>2. PICK k : k = Most(naming(b))
      OBVIOUS
    <3> HIDE DEF Most
    <3>3. rows[k] \in RowSet /\ b \in DOMAIN rows[k].ociBundles
      BY <3>1, <3>2
    <3>4. rows[k].ociBundles \in UNION {[DOMAIN ParseBundleDeclarations(d) -> Known] : d \in AllDocs}
      BY <3>3 DEF RowSet, RowFacts
    <3>5. PICK d \in AllDocs : rows[k].ociBundles \in [DOMAIN ParseBundleDeclarations(d) -> Known]
      BY <3>4
    <3>6. rows[k].ociBundles[b] \in Known
      BY <3>3, <3>5
    <3> QED
      BY <2>2, <3>2, <3>6
  <2> QED
    BY <1>2, <2>2
<1> HIDE DEF oci, own
<1>7. c.bundles = Bundles /\ c.inputs = inputs
  BY <1>1
<1>8. \A i \in DOMAIN inputs : c.oci[inputs[i].name] = oci(inputs[i].name)
  BY <1>1
<1>9. \A i \in DOMAIN Bundles : c.ociBundles[Bundles[i].name] = own(Bundles[i].name)
  BY <1>1
<1> QED
  BY <1>5, <1>6, <1>7, <1>8, <1>9

\* The images of cluster.compose.yaml are ones that are spoken of.
LEMMA ComposeIs ==
  ASSUME NEW inputs \in Seq(Specs), NEW rows \in Seq(RowSet)
  PROVE  \A b \in DOMAIN ComposeOf(inputs, rows).images : ComposeOf(inputs, rows).images[b] \in Known
<1>1. PICK c : c = ParseOciPins(inputs, rows)
  OBVIOUS
<1>2. /\ c.bundles = Bundles /\ c.inputs = inputs
      /\ \A i \in DOMAIN inputs : c.oci[inputs[i].name] \in Known
      /\ \A i \in DOMAIN Bundles : c.ociBundles[Bundles[i].name] \in Known
  BY <1>1, PinsAre
<1>3. ASSUME NEW n \in BundleNames(c) PROVE ResolveBundleImage(c, BundleOf(c, n)) \in Known
  <2>1. PICK i \in DOMAIN Bundles : BundleOf(c, n) = Bundles[i]
    BY <1>2, <1>3 DEF BundleNames, BundleOf
  <2>2. PICK b : b = Bundles[i]
    OBVIOUS
  <2>3. b.image \in Known /\ c.ociBundles[b.name] \in Known /\ NoImage \in Known
    BY <1>2, <2>2, WorkConstants
  <2>4. OciImageRef(c.ociBundles[b.name]) \in Known
    BY <2>3, RefIs
  <2>5. PICK known : known = LinkedInputs(c, b.name)
    OBVIOUS
  <2>6. known \subseteq DOMAIN inputs
    BY <1>2, <2>5 DEF LinkedInputs
  <2>7. PICK k : k = CHOOSE x \in known : \A j \in known : x <= j
    OBVIOUS
  <2>8. known # {} => k \in DOMAIN inputs
    <3>1. known \subseteq Nat
      BY <2>6
    <3> QED
      BY <2>6, <2>7, <3>1, LeastOf
  <2>9. known # {} => OciImageRef(c.oci[inputs[k].name]) \in Known
    BY <1>2, <2>8, RefIs
  <2>10. \/ ResolveBundleImage(c, b) \in {b.image, OciImageRef(c.ociBundles[b.name])}
         \/ ResolveBundleImage(c, b) = IF known = {} THEN NoImage ELSE OciImageRef(c.oci[inputs[k].name])
    BY <1>2, <2>5, <2>7 DEF ResolveBundleImage
  <2> QED
    BY <2>1, <2>2, <2>3, <2>4, <2>9, <2>10
<1>4. ComposeOf(inputs, rows).images = [b \in BundleNames(c) |-> ResolveBundleImage(c, BundleOf(c, b))]
  BY <1>1 DEF ComposeOf
<1> QED
  BY <1>3, <1>4

\* generate writes one file.
LEMMA GenerateWriteKeeps ==
  ASSUME WorkInv, NEW p \in Procs, GenerateWrite(p) PROVE WorkInv'
<1>1. /\ jobs[p].pc = "write" /\ jobs[p].todo # <<>> /\ UNCHANGED <<lock, workWorld>> /\ seen' = seen
      /\ jobs' = [jobs EXCEPT ![p].todo = Tail(@)]
  BY DEF GenerateWrite
<1>2. PICK j \in GenerateJobs : j = jobs[p]
  BY <1>1, JobOf
<1>3. /\ j.cmd = "generate" /\ j.pc \in {"compute", "write"} /\ j.inputs \in Seq(Specs) /\ j.rows \in Seq(RowSet)
      /\ j.todo \in Seq({"toml", "clusterTs", "capnp", "compose"})
  BY DEF GenerateJobs
<1>4. PICK i : i = [j EXCEPT !.todo = Tail(@)]
  OBVIOUS
<1>5. i = [cmd |-> j.cmd, pc |-> j.pc, inputs |-> j.inputs, rows |-> j.rows, todo |-> Tail(j.todo)]
  BY <1>4 DEF GenerateJobs
<1>6. Tail(j.todo) \in Seq({"toml", "clusterTs", "capnp", "compose"})
  BY <1>1, <1>2, <1>3, HeadTailProperties
<1>7. i \in GenerateJobs
  BY <1>3, <1>5, <1>6 DEF GenerateJobs
<1>8. i \in JobSet /\ CommandInv(seen', i)
  BY <1>7, NothingMore
<1>9. jobs' = [jobs EXCEPT ![p] = i]
  <2>1. jobs \in [Procs -> JobSet]
    BY JobOf
  <2> QED
    BY <1>1, <1>2, <1>4, <2>1
<1>10. jobs' \in [Procs -> JobSet] /\ \A q \in Procs : CommandInv(seen', jobs'[q])
  BY <1>1, <1>8, <1>9, JobStep
<1>11. PICK f : f = Head(j.todo)
  OBVIOUS
<1>12. FilesOK(files)
  BY DEF WorkInv
<1>13. CASE f = "toml"
  <2>1. toml' = [torn |-> FALSE, inputs |-> j.inputs, open |-> {}] /\ files' = files
    BY <1>2, <1>11, <1>13 DEF GenerateWrite, Toml
  <2>2. TomlOK(toml')
    BY <1>3, <2>1 DEF TomlOK
  <2> QED
    BY <1>1, <1>10, <2>1, <2>2, Together DEF workWorld
<1>14. CASE f = "compose"
  <2>1. files' = [files EXCEPT !.compose = ComposeOf(j.inputs, j.rows)] /\ toml' = toml
    BY <1>2, <1>11, <1>14 DEF GenerateWrite
  <2>2. \A b \in DOMAIN ComposeOf(j.inputs, j.rows).images : ComposeOf(j.inputs, j.rows).images[b] \in Known
    BY <1>3, ComposeIs
  <2>3. "compose" \in DOMAIN files' /\ files'.compose = ComposeOf(j.inputs, j.rows)
    BY <1>12, <2>1 DEF FilesOK
  <2>4. FilesOK(files')
    BY <2>2, <2>3 DEF FilesOK
  <2> QED
    BY <1>1, <1>10, <2>1, <2>4, Together DEF workWorld
<1>15. CASE f # "toml" /\ f # "compose"
  <2>1. files' = [files EXCEPT ![f] = Of(j.inputs)] /\ toml' = toml
    BY <1>2, <1>11, <1>15 DEF GenerateWrite
  <2>2. "compose" \in DOMAIN files' /\ files'.compose = files.compose
    BY <1>12, <1>15, <2>1 DEF FilesOK
  <2>3. FilesOK(files')
    BY <1>12, <2>2 DEF FilesOK
  <2> QED
    BY <1>1, <1>10, <2>1, <2>3, Together DEF workWorld
<1> QED
  BY <1>13, <1>14, <1>15

\* A command ends, and nothing else changes.
LEMMA EndKeeps ==
  ASSUME WorkInv, NEW p \in Procs, End(p), seen' = seen, UNCHANGED <<workFiles, workWorld>> PROVE WorkInv'
<1>1. Idle \in JobSet /\ CommandInv(seen', Idle)
  BY NothingMore
<1> QED
  BY <1>1, OnlyJob DEF End

\* A command is killed, and its files are closed.
LEMMA KillKeeps ==
  ASSUME WorkInv, NEW p \in Procs, Kill(p) PROVE WorkInv'
<1>1. /\ End(p) /\ seen' = seen /\ UNCHANGED <<files, workWorld>>
      /\ toml' = [toml EXCEPT !.open = @ \ {p}]
      /\ lock' = IF lock = None THEN None ELSE [lock EXCEPT !.open = @ \ {p}]
  BY DEF Kill
<1>2. TomlOK(toml')
  BY <1>1 DEF WorkInv, TomlOK
<1>3. lock' = lock \/ LockOK(seen', lock')
  <2>1. CASE lock = None
    BY <1>1, <2>1
  <2>2. CASE lock # None
    <3>1. /\ lock \in [torn : BOOLEAN, of : Seq(Specs), rows : Seq(RowSet), open : SUBSET Procs]
          /\ RowsPinned(seen, lock.rows) /\ (lock.torn \/ Whole(lock))
      BY <2>2 DEF WorkInv, LockOK
    <3>2. lock' = [torn |-> lock.torn, of |-> lock.of, rows |-> lock.rows, open |-> lock.open \ {p}]
      BY <1>1, <2>2, <3>1
    <3>3. /\ lock' \in [torn : BOOLEAN, of : Seq(Specs), rows : Seq(RowSet), open : SUBSET Procs]
          /\ lock'.torn = lock.torn /\ lock'.of = lock.of /\ lock'.rows = lock.rows
      BY <3>1, <3>2
    <3> QED
      BY <1>1, <3>1, <3>3 DEF LockOK, Whole
  <2> QED
    BY <2>1, <2>2
<1>4. jobs' \in [Procs -> JobSet] /\ \A q \in Procs : CommandInv(seen', jobs'[q])
  BY <1>1, EndIs
<1> QED
  BY <1>1, <1>2, <1>3, <1>4, Together DEF workWorld

\* artifacts pull reads the lockfile.
LEMMA ArtifactsPullKeeps ==
  ASSUME WorkInv, NEW p \in Procs, ArtifactsPull(p) PROVE WorkInv'
<1>1. UNCHANGED <<workFiles, workWorld>> /\ seen' = seen
  BY DEF ArtifactsPull
<1>2. PICK rows \in LockReadings : \E chosen \in SUBSET DOMAIN rows :
        jobs' = [jobs EXCEPT ![p] = [cmd |-> "pull", pc |-> "pull",
                   todo |-> [k \in DOMAIN rows |-> IF k \in chosen THEN rows[k].oci ELSE NoImage]]]
  BY DEF ArtifactsPull
<1>3. PICK chosen \in SUBSET DOMAIN rows :
        jobs' = [jobs EXCEPT ![p] = [cmd |-> "pull", pc |-> "pull",
                   todo |-> [k \in DOMAIN rows |-> IF k \in chosen THEN rows[k].oci ELSE NoImage]]]
  BY <1>2
<1>4. rows \in Seq(RowSet) /\ RowsPinned(seen, rows)
  BY Readings
<1>5. DOMAIN rows = 1..Len(rows) /\ Len(rows) \in Nat
  BY <1>4
<1>6. PICK todo : todo = [k \in DOMAIN rows |-> IF k \in chosen THEN rows[k].oci ELSE NoImage]
  OBVIOUS
<1>7. ASSUME NEW k \in 1..Len(rows) PROVE todo[k] \in Known /\ ImagePinned(seen', todo[k])
  <2>1. rows[k] \in RowSet /\ RowPinned(seen, rows[k])
    BY <1>4 DEF RowsPinned
  <2>2. rows[k].oci \in Known /\ ImagePinned(seen', rows[k].oci)
    BY <1>1, <2>1 DEF RowSet, RowFacts, RowPinned
  <2>3. NoImage \in Known /\ ImagePinned(seen', NoImage)
    BY WorkConstants DEF ImagePinned, NoImage
  <2>4. todo[k] \in {rows[k].oci, NoImage}
    BY <1>5, <1>6
  <2> QED
    BY <2>2, <2>3, <2>4
<1>8. todo \in Seq(Known) /\ Len(todo) = Len(rows)
  <2>1. todo \in [1..Len(rows) -> Known]
    BY <1>5, <1>6, <1>7
  <2> QED
    BY <1>5, <2>1, SeqDef
<1>9. PICK j : j = [cmd |-> "pull", pc |-> "pull", todo |-> todo]
  OBVIOUS
<1>10. j \in PullJobs /\ j.todo = todo /\ j.cmd = "pull"
  BY <1>8, <1>9 DEF PullJobs
<1>11. j \notin ResolveJobs
  BY <1>10 DEF ResolveJobs
<1>12. j \in JobSet /\ CommandInv(seen', j)
  BY <1>7, <1>8, <1>10, <1>11 DEF JobSet, CommandInv
<1> QED
  BY <1>1, <1>3, <1>6, <1>9, <1>12, OnlyJob

\* One image is pulled or not.
LEMMA PullKeeps ==
  ASSUME WorkInv, NEW p \in Procs, Pull(p) PROVE WorkInv'
<1>1. /\ jobs[p].pc = "pull" /\ jobs[p].todo # <<>> /\ UNCHANGED <<workFiles, published, tags, running>> /\ seen' = seen
      /\ jobs' = [jobs EXCEPT ![p].todo = Tail(@)]
  BY DEF Pull
<1>2. PICK j \in PullJobs : j = jobs[p]
  BY <1>1, JobOf
<1>3. j.cmd = "pull" /\ j.pc = "pull" /\ j.todo \in Seq(Known) /\ j.todo # <<>>
  BY <1>1, <1>2 DEF PullJobs
<1>4. \A k \in 1..Len(j.todo) : ImagePinned(seen, j.todo[k])
  BY <1>2, JobOf DEF CommandInv
<1>5. /\ Tail(j.todo) \in Seq(Known) /\ Len(j.todo) \in Nat \ {0} /\ Len(Tail(j.todo)) = Len(j.todo) - 1
      /\ Head(j.todo) = j.todo[1] /\ Head(j.todo) \in Known
      /\ \A k \in 1..(Len(j.todo) - 1) : Tail(j.todo)[k] = j.todo[k + 1]
  <2>1. Len(j.todo) \in Nat \ {0}
    BY <1>3, EmptySeq
  <2> QED
    BY <1>3, <2>1
<1>6. PICK i : i = [j EXCEPT !.todo = Tail(@)]
  OBVIOUS
<1>7. i = [cmd |-> "pull", pc |-> "pull", todo |-> Tail(j.todo)]
  BY <1>3, <1>6 DEF PullJobs
<1>8. i \in PullJobs /\ i.cmd = "pull" /\ i.todo = Tail(j.todo)
  BY <1>5, <1>7 DEF PullJobs
<1>9. i \notin ResolveJobs
  BY <1>8 DEF ResolveJobs
<1>10. ASSUME NEW k \in 1..Len(i.todo) PROVE ImagePinned(seen', i.todo[k])
  <2>1. k \in 1..(Len(j.todo) - 1) /\ k + 1 \in 1..Len(j.todo)
    BY <1>5, <1>8
  <2> QED
    BY <1>1, <1>4, <1>5, <1>8, <2>1
<1>11. i \in JobSet /\ CommandInv(seen', i)
  BY <1>8, <1>9, <1>10 DEF JobSet, CommandInv
<1>12. jobs' = [jobs EXCEPT ![p] = i]
  <2>1. jobs \in [Procs -> JobSet]
    BY JobOf
  <2> QED
    BY <1>1, <1>2, <1>6, <2>1
<1>13. jobs' \in [Procs -> JobSet] /\ \A q \in Procs : CommandInv(seen', jobs'[q])
  BY <1>1, <1>11, <1>12, JobStep
<1>14. PICK o \in Known : o = Head(j.todo) /\ ImagePinned(seen, o)
  BY <1>4, <1>5
<1>15. PICK ref \in Known : /\ ref = OciImageRef(o) /\ ref.id = o.id /\ ref.digest = o.digest
                            /\ ref.tag # Absent => o.digest = Absent /\ o.tag # Absent
  BY RefIs
<1>16. ref.id \in ImageIds \cup {Absent} /\ ref.digest \in Words
  BY DEF Known
<1>17. StoreOK(seen, store) /\ tags \in [ImageIds -> Words]
  BY DEF WorkInv
<1>18. /\ store \in [digests : SUBSET ((ImageIds \cup {Absent}) \X Words), tags : [ImageIds -> Words]]
       /\ \A x \in ImageIds \cup {Absent}, d \in Words : <<x, d>> \in store.digests /\ d # Absent => <<x, d>> \in seen
       /\ \A x \in ImageIds : store.tags[x] # Absent => <<x, Absent>> \in seen
  BY <1>17 DEF StoreOK
<1>19. store' = store \/ StoreOK(seen', store')
  <2>1. CASE store' = store
    BY <2>1
  <2>2. CASE ref.id # Absent /\ ref.tag = Absent /\ store' = [store EXCEPT !.digests = @ \cup {<<ref.id, ref.digest>>}]
    <3>1. ref.digest # Absent => <<ref.id, ref.digest>> \in seen
      BY <1>14, <1>15, <2>2 DEF ImagePinned
    <3>2. store' = [digests |-> store.digests \cup {<<ref.id, ref.digest>>}, tags |-> store.tags]
      BY <1>18, <2>2
    <3>3. store'.digests = store.digests \cup {<<ref.id, ref.digest>>} /\ store'.tags = store.tags
      BY <3>2
    <3>4. store' \in [digests : SUBSET ((ImageIds \cup {Absent}) \X Words), tags : [ImageIds -> Words]]
      BY <1>16, <1>18, <3>2
    <3>5. \A x \in ImageIds \cup {Absent}, d \in Words : <<x, d>> \in store'.digests /\ d # Absent => <<x, d>> \in seen'
      BY <1>1, <1>18, <3>1, <3>3
    <3> QED
      BY <1>1, <1>18, <3>3, <3>4, <3>5 DEF StoreOK
  <2>3. CASE ref.id # Absent /\ ref.tag # Absent /\ store' = [store EXCEPT !.tags[ref.id] = tags[ref.id]]
    <3>1. <<ref.id, Absent>> \in seen
      BY <1>14, <1>15, <2>3 DEF ImagePinned
    <3>2. PICK new : new = [store.tags EXCEPT ![ref.id] = tags[ref.id]]
      OBVIOUS
    <3>3. store' = [digests |-> store.digests, tags |-> new]
      BY <1>18, <2>3, <3>2
    <3>4. ref.id \in ImageIds
      BY <1>16, <2>3
    <3>5. new \in [ImageIds -> Words]
      BY <1>17, <1>18, <3>2, <3>4
    <3>6. store'.digests = store.digests /\ store'.tags = new
      BY <3>3
    <3>7. store' \in [digests : SUBSET ((ImageIds \cup {Absent}) \X Words), tags : [ImageIds -> Words]]
      BY <1>18, <3>3, <3>5
    <3>8. \A x \in ImageIds : store'.tags[x] # Absent => <<x, Absent>> \in seen'
      BY <1>1, <1>18, <3>1, <3>2, <3>6
    <3> QED
      BY <1>1, <1>18, <3>6, <3>7, <3>8 DEF StoreOK
  <2>4. \/ store' = store
        \/ /\ ref.id # Absent
           /\ store' = IF ref.tag = Absent THEN [store EXCEPT !.digests = @ \cup {<<ref.id, ref.digest>>}]
                       ELSE [store EXCEPT !.tags[ref.id] = tags[ref.id]]
    BY <1>2, <1>14, <1>15 DEF Pull
  <2> QED
    BY <2>1, <2>2, <2>3, <2>4
<1> QED
  BY <1>1, <1>13, <1>19, Together DEF workFiles

\* What starts is what the runtime has.
LEMMA ClusterUpKeeps ==
  ASSUME WorkInv, NEW p \in Procs, ClusterUp(p) PROVE WorkInv'
<1>1. /\ files.compose # None /\ seen' = seen /\ UNCHANGED <<workFiles, published, tags, store, jobs>>
      /\ running' = [b \in DOMAIN files.compose.images |->
                      [image |-> files.compose.images[b], digest |-> Materialized(files.compose.images[b])]]
  BY DEF ClusterUp
<1>2. \A b \in DOMAIN files.compose.images : files.compose.images[b] \in Known
  BY <1>1 DEF WorkInv, FilesOK
<1>3. /\ \A x \in ImageIds \cup {Absent}, d \in Words : <<x, d>> \in store.digests /\ d # Absent => <<x, d>> \in seen
      /\ \A x \in ImageIds : store.tags[x] # Absent => <<x, Absent>> \in seen
  BY DEF WorkInv, StoreOK
<1>4. ASSUME NEW o \in Known, Materialized(o) # Absent
      PROVE  <<o.id, o.digest>> \in seen /\ o.digest \in {Absent, Materialized(o)}
  <2>1. PICK ref \in Known : /\ ref = OciImageRef(o) /\ ref.id = o.id /\ ref.digest = o.digest
                             /\ ref.tag # Absent => o.digest = Absent /\ o.tag # Absent
    BY RefIs
  <2>2. ref.id \in ImageIds \cup {Absent} /\ ref.digest \in Words
    BY DEF Known
  <2>3. Materialized(o) = CASE ref.id = Absent -> Absent
          [] ref.id # Absent /\ ref.tag = Absent ->
                 IF <<ref.id, ref.digest>> \in store.digests THEN ref.digest ELSE Absent
          [] OTHER -> store.tags[ref.id]
    BY <2>1 DEF Materialized
  <2>4. ref.id # Absent
    BY <1>4, <2>3
  <2>5. CASE ref.tag = Absent
    <3>1. <<ref.id, ref.digest>> \in store.digests /\ Materialized(o) = ref.digest
      BY <1>4, <2>3, <2>4, <2>5
    <3> QED
      BY <1>3, <1>4, <2>1, <2>2, <3>1
  <2>6. CASE ref.tag # Absent
    <3>1. Materialized(o) = store.tags[ref.id]
      BY <2>3, <2>4, <2>6
    <3> QED
      BY <1>3, <1>4, <2>1, <2>2, <2>4, <2>6, <3>1
  <2> QED
    BY <2>5, <2>6
<1>5. RunOK(seen', running')
  <2>1. ASSUME NEW b \in DOMAIN running', running'[b].digest # Absent
        PROVE  /\ <<running'[b].image.id, running'[b].image.digest>> \in seen'
               /\ running'[b].image.digest \in {Absent, running'[b].digest}
    <3>1. PICK o \in Known : o = files.compose.images[b]
      BY <1>1, <1>2, <2>1
    <3>2. running'[b].image = o /\ running'[b].digest = Materialized(o)
      BY <1>1, <2>1, <3>1
    <3> QED
      BY <1>1, <1>4, <2>1, <3>1, <3>2
  <2> QED
    BY <2>1 DEF RunOK
<1>6. jobs' \in [Procs -> JobSet] /\ \A q \in Procs : CommandInv(seen', jobs'[q])
  BY <1>1 DEF WorkInv
<1> QED
  BY <1>1, <1>5, <1>6, Together DEF workFiles

\* What changes neither commands nor what is known.
LEMMA WorldKeeps ==
  ASSUME WorkInv, jobs' = jobs, seen' = seen,
         toml' = toml \/ TomlOK(toml'), lock' = lock, files' = files, store' = store,
         running' = running \/ RunOK(seen', running'),
         tags' = tags \/ tags' \in [ImageIds -> Words],
         published' = published \/ published' \in [DOMAIN Documents -> AllDocs]
  PROVE  WorkInv'
<1>1. jobs' \in [Procs -> JobSet] /\ \A q \in Procs : CommandInv(seen', jobs'[q])
  BY DEF WorkInv
<1> QED
  BY <1>1, Together

\* Nothing runs any more.
LEMMA ClusterDownKeeps ==
  ASSUME WorkInv, NEW p \in Procs, ClusterDown(p) PROVE WorkInv'
<1>1. running' = None /\ seen' = seen /\ UNCHANGED <<workFiles, published, tags, store, jobs>>
  BY DEF ClusterDown
<1>2. RunOK(seen', running')
  BY <1>1 DEF RunOK
<1> QED
  BY <1>1, <1>2, WorldKeeps DEF workFiles

\* The build of the manifest writes a file that no pin depends on.
LEMMA BuildManifestKeeps ==
  ASSUME WorkInv, NEW p \in Procs, BuildManifest(p) PROVE WorkInv'
<1>1. UNCHANGED <<toml, lock, files, workWorld, jobs, seen>>
  BY DEF BuildManifest
<1> QED
  BY <1>1, WorldKeeps DEF workWorld

\* An author publishes another descriptor.
LEMMA RepublishKeeps ==
  ASSUME WorkInv, Republish PROVE WorkInv'
<1>1. UNCHANGED <<workFiles, tags, store, running, jobs, seen>>
  BY DEF Republish
<1>2. PICK n \in DOMAIN published : \E d \in ToSet(Documents[n]) : published' = [published EXCEPT ![n] = d]
  BY DEF Republish
<1>3. PICK d \in ToSet(Documents[n]) : published' = [published EXCEPT ![n] = d]
  BY <1>2
<1>4. published \in [DOMAIN Documents -> AllDocs]
  BY DEF WorkInv
<1>5. n \in DOMAIN Documents
  BY <1>4
<1>6. d \in AllDocs
  BY <1>5 DEF AllDocs
<1>7. published' \in [DOMAIN Documents -> AllDocs]
  BY <1>3, <1>4, <1>6
<1> QED
  BY <1>1, <1>7, WorldKeeps DEF workFiles

\* A tag is moved in the registry.
LEMMA RepushKeeps ==
  ASSUME WorkInv, Repush PROVE WorkInv'
<1>1. UNCHANGED <<workFiles, published, store, running, jobs, seen>>
  BY DEF Repush
<1>2. PICK id \in DOMAIN tags : tags' = [tags EXCEPT ![id] = IF tags[id] = "d1" THEN "d2" ELSE "d3"]
  BY DEF Repush, Images
<1>3. (IF tags[id] = "d1" THEN "d2" ELSE "d3") \in Words
  BY DEF Words
<1>4. tags' \in [ImageIds -> Words]
  BY <1>2, <1>3 DEF WorkInv
<1> QED
  BY <1>1, <1>4, WorldKeeps DEF workFiles

\* The operator changes or drops an input.
LEMMA EditTomlKeeps ==
  ASSUME WorkInv, EditToml PROVE WorkInv'
<1>1. UNCHANGED <<lock, files, workWorld, jobs, seen>>
  BY DEF EditToml
<1>2. toml.inputs \in Seq(Specs)
  BY DEF WorkInv, TomlOK
<1>3. \/ \E i \in DOMAIN toml.inputs, e \in SpecChanges : toml' = Toml([toml.inputs EXCEPT ![i] = Edited(@, e)])
      \/ \E i \in DOMAIN toml.inputs : toml' = Toml(RemoveAt(toml.inputs, i))
  BY DEF EditToml
<1>4. ASSUME NEW i \in DOMAIN toml.inputs, NEW e \in SpecChanges
      PROVE  [toml.inputs EXCEPT ![i] = Edited(@, e)] \in Seq(Specs)
  <2>1. PICK s \in Specs : s = Edited(toml.inputs[i], e)
    BY <1>2, ChangedSpec
  <2>2. [toml.inputs EXCEPT ![i] = s] \in Seq(Specs)
    BY <1>2
  <2> QED
    BY <2>1, <2>2
<1>5. ASSUME NEW i \in DOMAIN toml.inputs PROVE RemoveAt(toml.inputs, i) \in Seq(Specs)
  <2>1. PICK s \in Seq(Specs) : s = toml.inputs
    BY <1>2
  <2>2. i \in 1..Len(s) /\ Len(s) \in Nat
    BY <2>1
  <2>3. SubSeq(s, 1, i - 1) \in Seq(Specs) /\ SubSeq(s, i + 1, Len(s)) \in Seq(Specs)
    BY <2>2
  <2>4. RemoveAt(s, i) \in Seq(Specs)
    BY <2>3, ConcatProperties DEF RemoveAt
  <2> QED
    BY <2>1, <2>4
<1>6. TomlOK(toml')
  <2>1. \A s \in Seq(Specs) : TomlOK(Toml(s))
    BY DEF TomlOK, Toml
  <2> QED
    BY <1>3, <1>4, <1>5, <2>1
<1> QED
  BY <1>1, <1>6, WorldKeeps DEF workWorld

\* To begin with there is cluster.toml and nothing else.
LEMMA WorkInitially ==
  ASSUME WorkInit PROVE WorkInv
<1>1. TomlOK(toml)
  <2>1. PICK inputs \in Seq(Specs) : toml = [torn |-> FALSE, inputs |-> inputs, open |-> {}]
    BY WorkConstants DEF WorkInit, Toml
  <2> QED
    BY <2>1 DEF TomlOK
<1>2. LockOK(seen, lock) /\ RunOK(seen, running)
  BY DEF WorkInit, LockOK, RunOK
<1>3. FilesOK(files)
  BY DEF WorkInit, FilesOK
<1>4. StoreOK(seen, store)
  <2>1. store = [digests |-> {}, tags |-> [id \in ImageIds |-> Absent]]
    BY DEF WorkInit
  <2>2. [id \in ImageIds |-> Absent] \in [ImageIds -> Words]
    BY WorkConstants
  <2>3. store.digests = {} /\ store.tags = [id \in ImageIds |-> Absent]
    BY <2>1
  <2>4. store \in [digests : SUBSET ((ImageIds \cup {Absent}) \X Words), tags : [ImageIds -> Words]]
    BY <2>1, <2>2
  <2> QED
    BY <2>3, <2>4 DEF StoreOK
<1>5. tags \in [ImageIds -> Words]
  <2>1. "d1" \in Words
    BY DEF Words
  <2> QED
    BY <2>1 DEF WorkInit
<1>6. published \in [DOMAIN Documents -> AllDocs]
  <2>1. \A n \in DOMAIN Documents : Head(Documents[n]) \in AllDocs
    BY WorkConstants
  <2> QED
    BY <2>1 DEF WorkInit
<1>7. Idle \in JobSet /\ CommandInv(seen, Idle)
  BY NothingMore
<1>8. jobs \in [Procs -> JobSet] /\ \A p \in Procs : CommandInv(seen, jobs[p])
  BY <1>7 DEF WorkInit
<1> QED
  BY <1>1, <1>2, <1>3, <1>4, <1>5, <1>6, <1>8 DEF WorkInv

\* Every step keeps the invariant.
LEMMA WorkStep ==
  ASSUME WorkInv, [WorkNext]_workVars PROVE WorkInv'
<1>1. CASE UNCHANGED workVars
  <2>1. UNCHANGED <<toml, lock, files, store, running, tags, published, jobs, seen>>
    BY <1>1 DEF workVars, workFiles, workWorld
  <2> QED
    BY <2>1, WorldKeeps
<1>2. ASSUME NEW p \in Procs,
             \/ ResolveClusterInputs(p) \/ AddInput(p) \/ AddTruncate(p) \/ AddFill(p) \/ Fetch(p) \/ ProbeEach(p)
             \/ ProbePrimary(p) \/ NoProbe(p) \/ WriteLock(p) \/ AddTruncateLock(p) \/ AddFillLock(p)
      PROVE  WorkInv'
  BY <1>2, ResolveClusterInputsKeeps, AddInputKeeps, AddTruncateKeeps, AddFillKeeps, FetchKeeps, ProbeEachKeeps,
     ProbePrimaryKeeps, NoProbeKeeps, WriteLockKeeps, AddTruncateLockKeeps, AddFillLockKeeps
<1>3. ASSUME NEW p \in Procs, GenerateEnd(p) \/ PullEnd(p) \/ Kill(p) PROVE WorkInv'
  <2>1. GenerateEnd(p) \/ PullEnd(p) => End(p) /\ seen' = seen /\ UNCHANGED <<workFiles, workWorld>>
    BY DEF GenerateEnd, PullEnd
  <2> QED
    BY <1>3, <2>1, EndKeeps, KillKeeps
<1>4. ASSUME NEW p \in Procs,
             \/ GenerateReadToml(p) \/ Compute(p) \/ GenerateWrite(p) \/ BuildManifest(p) \/ ArtifactsPull(p)
             \/ Pull(p) \/ ClusterUp(p) \/ ClusterDown(p)
      PROVE  WorkInv'
  BY <1>4, GenerateReadTomlKeeps, ComputeKeeps, GenerateWriteKeeps, BuildManifestKeeps, ArtifactsPullKeeps, PullKeeps,
     ClusterUpKeeps, ClusterDownKeeps
<1>5. CASE Republish \/ Repush \/ EditToml
  BY <1>5, RepublishKeeps, RepushKeeps, EditTomlKeeps
<1> QED
  BY <1>1, <1>2, <1>3, <1>4, <1>5 DEF WorkNext

\* What follows from the invariant.
LEMMA WorkSafe ==
  ASSUME WorkInv PROVE PinsHold
<1>1. LockOK(seen, lock) /\ RunOK(seen, running)
  BY DEF WorkInv
<1>2. LockIsWhole
  <2> SUFFICES ASSUME lock # None, ~ lock.torn
               PROVE  [k \in DOMAIN lock.rows |-> lock.rows[k].name] = [k \in DOMAIN lock.of |-> lock.of[k].name]
    BY DEF LockIsWhole
  <2>1. lock.rows \in Seq(RowSet) /\ lock.of \in Seq(Specs) /\ Whole(lock)
    BY <1>1 DEF LockOK
  <2>2. DOMAIN lock.rows = 1..Len(lock.rows) /\ DOMAIN lock.of = 1..Len(lock.of)
    BY <2>1
  <2>3. DOMAIN lock.rows = DOMAIN lock.of /\ \A k \in DOMAIN lock.rows : lock.rows[k].name = lock.of[k].name
    BY <2>1, <2>2 DEF Whole
  <2> QED
    BY <2>3
<1>3. OwnImagePinned
  <2> SUFFICES ASSUME NEW k \in DOMAIN Rowed, Rowed[k].oci.id # Absent, Rowed[k].oci.tag # Absent
               PROVE  /\ <<Rowed[k].oci.id, Rowed[k].oci.digest>> \in seen
                      /\ Rowed[k].oci.digest # Absent \/ (Rowed[k].spec.reason /\ Rowed[k].unresolved # Absent)
    BY DEF OwnImagePinned
  <2>1. lock # None /\ Rowed = lock.rows
    BY DEF Rowed
  <2>2. lock.rows \in Seq(RowSet) /\ RowsPinned(seen, lock.rows)
    BY <1>1, <2>1 DEF LockOK
  <2>3. k \in 1..Len(lock.rows)
    BY <2>1, <2>2
  <2>4. RowPinned(seen, Rowed[k])
    BY <2>1, <2>2, <2>3 DEF RowsPinned
  <2> QED
    BY <2>4 DEF RowPinned, ImagePinned
<1>4. RunsWhatWasPinned
  BY <1>1 DEF RunOK, RunsWhatWasPinned
<1> QED
  BY <1>2, <1>3, <1>4 DEF PinsHold

\* Whatever terminals, upstreams, registry and operator do, and wherever a
\* command is killed: a resolution has rows for the inputs it has done, every row
\* in it, in the lockfile and in a pull is pinned by what was known, and the
\* container runtime has nothing else.
THEOREM WorkInvariant == WorkSpec => []WorkInv
  BY WorkInitially, WorkStep, PTL DEF WorkSpec

\* A lockfile that can be read is the whole of one resolution, an input's own
\* image is in it by a digest that was named, or by a tag with the operator's
\* reason, and what runs is what was pinned although tags move in between.
THEOREM WorkspacePinsHold == WorkSpec => []PinsHold
  BY WorkInvariant, WorkSafe, PTL

-----------------------------------------------------------------------------
(***************************************************************************)
(* Lists of lists.  What FlattenSeq computes is a recursive function over  *)
(* the lists that are joined: it exists, and its values are what they      *)
(* should be, because no first list is an exception.                       *)
(***************************************************************************)
Has(s, x) == \E a \in DOMAIN s : s[a] = x

Joins(ss, S, n, f) ==
  /\ f \in [1..n -> Seq(S)]
  /\ \A i \in 1..n : f[i] = IF i = 1 THEN ss[i] ELSE f[i - 1] \o ss[i]
  /\ \A i \in 1..n : \A x : Has(f[i], x) <=> \E k \in 1..i : Has(ss[k], x)

\* What the definition of FlattenSeq asks of a function.
Recurs(ss, h) ==
  /\ h = [i \in 1..Len(ss) |-> h[i]]
  /\ \A i \in 1..Len(ss) : h[i] = IF i = 1 THEN ss[i] ELSE h[i - 1] \o ss[i]

\* What two lists hold together.
LEMMA ConcatHolds ==
  ASSUME NEW S, NEW s \in Seq(S), NEW t \in Seq(S), NEW x
  PROVE  Has(s \o t, x) <=> Has(s, x) \/ Has(t, x)
<1>1. /\ s \o t \in Seq(S) /\ Len(s \o t) = Len(s) + Len(t) /\ Len(s) \in Nat /\ Len(t) \in Nat
      /\ DOMAIN s = 1..Len(s) /\ DOMAIN t = 1..Len(t) /\ DOMAIN (s \o t) = 1..(Len(s) + Len(t))
      /\ \A i \in 1..(Len(s) + Len(t)) : (s \o t)[i] = IF i <= Len(s) THEN s[i] ELSE t[i - Len(s)]
  BY ConcatProperties, LenProperties
<1>2. ASSUME NEW a \in DOMAIN (s \o t), (s \o t)[a] = x
      PROVE  (\E b \in DOMAIN s : s[b] = x) \/ (\E b \in DOMAIN t : t[b] = x)
  <2>1. CASE a <= Len(s)
    BY <1>1, <1>2, <2>1
  <2>2. CASE a > Len(s)
    <3>1. a - Len(s) \in 1..Len(t) /\ t[a - Len(s)] = x
      BY <1>1, <1>2, <2>2
    <3> QED
      BY <1>1, <3>1
  <2> QED
    BY <1>1, <2>1, <2>2
<1>3. ASSUME NEW a \in DOMAIN s, s[a] = x PROVE \E b \in DOMAIN (s \o t) : (s \o t)[b] = x
  <2>1. a \in DOMAIN (s \o t) /\ (s \o t)[a] = x
    BY <1>1, <1>3
  <2> QED
    BY <2>1
<1>4. ASSUME NEW a \in DOMAIN t, t[a] = x PROVE \E b \in DOMAIN (s \o t) : (s \o t)[b] = x
  <2>1. a + Len(s) \in DOMAIN (s \o t) /\ (s \o t)[a + Len(s)] = x
    BY <1>1, <1>4
  <2> QED
    BY <2>1
<1> QED
  BY <1>2, <1>3, <1>4 DEF Has

\* There is such a function for every number of lists.
LEMMA JoinsExist ==
  ASSUME NEW S, NEW ss \in Seq(Seq(S)), ss # <<>>
  PROVE  \E f : Joins(ss, S, Len(ss), f)
<1>1. Len(ss) \in Nat /\ Len(ss) >= 1 /\ \A k \in 1..Len(ss) : ss[k] \in Seq(S)
  BY EmptySeq, LenProperties, ElementOfSeq
<1>2. PICK Bad : Bad = {n \in 1..Len(ss) : ~ \E f : Joins(ss, S, n, f)}
  OBVIOUS
<1>3. SUFFICES ASSUME Bad # {} PROVE FALSE
  <2>1. Len(ss) \in 1..Len(ss)
    BY <1>1
  <2> QED
    BY <1>2, <2>1
<1>4. Bad \subseteq Nat
  BY <1>1, <1>2
<1>5. PICK n \in Bad : \A j \in Bad : n <= j
  BY <1>3, <1>4, LeastOf
<1>6. n \in 1..Len(ss) /\ n \in Nat /\ ~ \E f : Joins(ss, S, n, f)
  BY <1>1, <1>2
<1>7. CASE n = 1
  <2>1. PICK f : f = [i \in 1..1 |-> ss[1]]
    OBVIOUS
  <2>2. f \in [1..1 -> Seq(S)] /\ f[1] = ss[1] /\ \A i \in 1..1 : i = 1
    BY <1>1, <2>1
  <2>3. Joins(ss, S, 1, f)
    BY <2>2 DEF Joins
  <2> QED
    BY <1>6, <1>7, <2>3
<1>8. CASE n > 1
  <2>1. n - 1 \in 1..Len(ss) /\ n - 1 \in 1..(n - 1) /\ n - 1 \notin Bad
    BY <1>1, <1>5, <1>6, <1>8
  <2>2. PICK f : Joins(ss, S, n - 1, f)
    BY <1>2, <2>1
  <2>3. /\ f \in [1..(n - 1) -> Seq(S)]
        /\ \A i \in 1..(n - 1) : f[i] = IF i = 1 THEN ss[i] ELSE f[i - 1] \o ss[i]
        /\ \A i \in 1..(n - 1) : \A x : Has(f[i], x) <=> \E k \in 1..i : Has(ss[k], x)
    BY <2>2 DEF Joins
  <2>4. PICK last : last = f[n - 1] \o ss[n]
    OBVIOUS
  <2>5. f[n - 1] \in Seq(S) /\ ss[n] \in Seq(S)
    BY <1>1, <1>6, <2>1, <2>3
  <2>6. last \in Seq(S)
    BY <2>4, <2>5, ConcatProperties
  <2>7. PICK g : g = [i \in 1..n |-> IF i < n THEN f[i] ELSE last]
    OBVIOUS
  <2>8. \A i \in 1..n : i < n => i \in 1..(n - 1)
    BY <1>6
  <2>9. g \in [1..n -> Seq(S)]
    BY <2>3, <2>6, <2>7, <2>8
  <2>10. g[n] = last /\ \A i \in 1..(n - 1) : g[i] = f[i]
    BY <1>6, <2>7
  <2>11. ASSUME NEW i \in 1..n PROVE g[i] = IF i = 1 THEN ss[i] ELSE g[i - 1] \o ss[i]
    <3>1. CASE i < n
      <4>1. i \in 1..(n - 1) /\ (i # 1 => i - 1 \in 1..(n - 1))
        BY <1>6, <3>1
      <4>2. g[i] = f[i] /\ (i # 1 => g[i - 1] = f[i - 1])
        BY <2>10, <4>1
      <4>3. f[i] = IF i = 1 THEN ss[i] ELSE f[i - 1] \o ss[i]
        BY <2>3, <4>1
      <4> QED
        BY <4>2, <4>3
    <3>2. CASE i = n
      <4>1. n # 1 /\ g[n - 1] = f[n - 1] /\ g[n] = last
        BY <1>8, <2>1, <2>10
      <4>2. g[n] = g[n - 1] \o ss[n]
        BY <2>4, <4>1
      <4> QED
        BY <3>2, <4>1, <4>2
    <3> QED
      BY <1>6, <3>1, <3>2
  <2>12. ASSUME NEW i \in 1..n, NEW x PROVE Has(g[i], x) <=> \E k \in 1..i : Has(ss[k], x)
    <3>1. CASE i < n
      BY <2>3, <2>8, <2>10, <3>1
    <3>2. CASE i = n
      <4>1. Has(last, x) <=> Has(f[n - 1], x) \/ Has(ss[n], x)
        BY <2>4, <2>5, ConcatHolds
      <4>2. Has(f[n - 1], x) <=> \E k \in 1..(n - 1) : Has(ss[k], x)
        BY <2>1, <2>3
      <4>3. 1..n = (1..(n - 1)) \cup {n}
        BY <1>6, <1>8
      <4> QED
        BY <2>10, <3>2, <4>1, <4>2, <4>3
    <3> QED
      BY <1>6, <3>1, <3>2
  <2>13. Joins(ss, S, n, g)
    BY <2>9, <2>11, <2>12 DEF Joins
  <2> QED
    BY <1>6, <2>13
<1> QED
  BY <1>6, <1>7, <1>8

\* Only one function is what FlattenSeq chooses.
LEMMA JoinsUnique ==
  ASSUME NEW S, NEW ss \in Seq(Seq(S)), NEW f, Joins(ss, S, Len(ss), f), NEW h, Recurs(ss, h)
  PROVE  h = f
<1>1. Len(ss) \in Nat /\ f \in [1..Len(ss) -> Seq(S)]
  BY LenProperties DEF Joins
<1>2. PICK Bad : Bad = {n \in 1..Len(ss) : h[n] # f[n]}
  OBVIOUS
<1>4. ASSUME Bad # {} PROVE FALSE
  <2>0. Bad \subseteq Nat
    <3>1. 1..Len(ss) \subseteq Nat
      BY <1>1
    <3> QED
      BY <1>2, <3>1
  <2>1. PICK n \in Bad : \A j \in Bad : n <= j
    BY <1>4, <2>0, LeastOf
  <2>2. n \in 1..Len(ss) /\ h[n] # f[n]
    BY <1>2
  <2>3. f[n] = IF n = 1 THEN ss[n] ELSE f[n - 1] \o ss[n]
    BY <2>2 DEF Joins
  <2>4. n # 1 => n - 1 \in 1..Len(ss) /\ n - 1 \notin Bad
    BY <1>1, <2>1, <2>2
  <2>5. n # 1 => h[n - 1] = f[n - 1]
    BY <1>2, <2>4
  <2> QED
    BY <2>2, <2>3, <2>5 DEF Recurs
<1>5. \A n \in 1..Len(ss) : h[n] = f[n]
  BY <1>2, <1>4
<1>6. f = [i \in 1..Len(ss) |-> f[i]]
  BY <1>1
<1> QED
  BY <1>5, <1>6 DEF Recurs

\* FlattenSeq joins the lists one by one.
LEMMA FlattenJoins ==
  ASSUME NEW S, NEW ss \in Seq(Seq(S)), ss # <<>>
  PROVE  \E f : Joins(ss, S, Len(ss), f) /\ FlattenSeq(ss) = f[Len(ss)] /\ Len(ss) \in 1..Len(ss)
<1>1. Len(ss) # 0 /\ Len(ss) \in Nat
  BY EmptySeq, LenProperties
<1>2. PICK f : Joins(ss, S, Len(ss), f)
  BY JoinsExist
<1>3. f = [i \in 1..Len(ss) |-> IF i = 1 THEN ss[i] ELSE f[i - 1] \o ss[i]]
  BY <1>2 DEF Joins
<1>4. PICK h : h = CHOOSE g : g = [i \in 1..Len(ss) |-> IF i = 1 THEN ss[i] ELSE g[i - 1] \o ss[i]]
  OBVIOUS
<1>5. h = [i \in 1..Len(ss) |-> IF i = 1 THEN ss[i] ELSE h[i - 1] \o ss[i]]
  BY <1>3, <1>4
<1>6. Recurs(ss, h)
  BY <1>5 DEF Recurs
<1>7. h = f
  BY <1>2, <1>6, JoinsUnique
<1>8. FlattenSeq(ss) = h[Len(ss)]
  BY <1>1, <1>4 DEF FlattenSeq
<1> QED
  BY <1>1, <1>2, <1>7, <1>8

\* FlattenSeq gives a list of what the lists hold.
LEMMA FlattenIs ==
  ASSUME NEW S, NEW ss \in Seq(Seq(S))
  PROVE  /\ FlattenSeq(ss) \in Seq(S)
         /\ \A x : Has(FlattenSeq(ss), x) <=> \E k \in DOMAIN ss : Has(ss[k], x)
<1>1. DOMAIN ss = 1..Len(ss) /\ Len(ss) \in Nat
  BY LenProperties
<1>2. CASE ss = <<>>
  <2>1. Len(ss) = 0
    BY <1>2
  <2>2. FlattenSeq(ss) = ss
    BY <2>1 DEF FlattenSeq
  <2>3. FlattenSeq(ss) = <<>>
    BY <1>2, <2>2
  <2>4. DOMAIN ss = {} /\ DOMAIN FlattenSeq(ss) = {}
    BY <1>1, <2>1, <2>2
  <2>5. FlattenSeq(ss) \in Seq(S)
    BY <2>3
  <2> QED
    BY <2>4, <2>5 DEF Has
<1>3. CASE ss # <<>>
  <2>1. PICK f : Joins(ss, S, Len(ss), f) /\ FlattenSeq(ss) = f[Len(ss)] /\ Len(ss) \in 1..Len(ss)
    BY <1>3, FlattenJoins
  <2>2. /\ f \in [1..Len(ss) -> Seq(S)]
        /\ \A i \in 1..Len(ss) : \A x : Has(f[i], x) <=> \E k \in 1..i : Has(ss[k], x)
    BY <2>1 DEF Joins
  <2> QED
    BY <1>1, <2>1, <2>2
<1> QED
  BY <1>2, <1>3

-----------------------------------------------------------------------------
(***************************************************************************)
(* The matchmaker.  A place of the stack is open when its node is in       *)
(* progress and was put there last: everything above an open place is      *)
(* needed by its node (Descends), what its node needs is done or above it  *)
(* (Covered), and the parent of a node leads to the open place next below  *)
(* (Parented).  Nodes that are done can be started in the order in which   *)
(* they were (DoneOrdered).                                                *)
(***************************************************************************)
LatNodes == Nodes(decls)
IsLink(m, n) == \E k \in DOMAIN links : links[k].consumer = m /\ links[k].provider = n

Ranks == [LatNodes -> 1..Cardinality(LatNodes)]
Respects(r) == \A k \in DOMAIN links : r[links[k].provider] < r[links[k].consumer]
Below(m, n) == \A r \in Ranks : Respects(r) => r[m] < r[n]

Topmost(i) == \A j \in 1..Len(stack) : j > i => stack[j] # stack[i]
Open(i) == visit[stack[i]] = "in-progress" /\ Topmost(i)
DoneNodes == {n \in LatNodes : visit[n] = "done"}

LatTypes ==
  /\ \E m \in Matchings : decls = m.inputs /\ overrides = m.overrides
  /\ Len(links) \in Nat /\ DOMAIN links = 1..Len(links)
  /\ \A k \in DOMAIN links : links[k].consumer \in LatNodes /\ links[k].provider \in LatNodes
  /\ stack \in Seq(LatNodes) /\ visit \in [LatNodes -> {"unvisited", "in-progress", "done"}]
  /\ parent \in [LatNodes -> LatNodes \cup {NoNode}]
  /\ node \in LatNodes \cup {NoNode} /\ at \in Nat /\ path \in Seq(LatNodes)

OnStack == \A n \in LatNodes : visit[n] = "in-progress" => \E i \in 1..Len(stack) : stack[i] = n /\ Open(i)
Descends == \A i, j \in 1..Len(stack) : Open(i) /\ i < j => Below(stack[j], stack[i])
Covers(i, k) ==
  \/ visit[links[k].provider] = "done"
  \/ \E j \in 1..Len(stack) : j > i /\ stack[j] = links[k].provider
Covered ==
  \A i \in 1..Len(stack) : Open(i) =>
    \A k \in DOMAIN links : links[k].consumer = stack[i] /\ (stack[i] = node => k <= at) => Covers(i, k)
LeadsTo(j, i) == Open(i) /\ parent[stack[j]] = stack[i] /\ \A k \in 1..Len(stack) : i < k /\ k < j => ~ Open(k)
Parented ==
  \A j \in 1..Len(stack) : j > 1 /\ visit[stack[j]] # "done" /\ Topmost(j) =>
    \E i \in 1..Len(stack) : i < j /\ LeadsTo(j, i)
ParentLinks == \A n \in LatNodes : parent[n] # NoNode => IsLink(parent[n], n)
DoneOrdered ==
  \E r \in [LatNodes -> Nat] :
    /\ \A n \in DoneNodes : r[n] \in 1..Cardinality(DoneNodes)
    /\ \A k \in DOMAIN links : links[k].consumer \in DoneNodes =>
         links[k].provider \in DoneNodes /\ r[links[k].provider] < r[links[k].consumer]
NodeOpen ==
  node # NoNode =>
    \E i \in 1..Len(stack) : /\ Open(i) /\ stack[i] = node
                             /\ \A j \in 1..Len(stack) : j > i => visit[stack[j]] = "unvisited"

PathLinked == \A k \in 1..(Len(path) - 1) : IsLink(path[k], path[k + 1])
ClimbInv ==
  /\ at \in DOMAIN links /\ links[at].consumer = node /\ path # <<>> /\ path[Len(path)] = node /\ PathLinked
  /\ \E a, b \in 1..Len(stack) : /\ Open(a) /\ Open(b) /\ a <= b
                                 /\ stack[a] = links[at].provider /\ stack[b] = path[1]
CycleInv == path # <<>> /\ path[1] = path[Len(path)] /\ Len(path) > 1 /\ PathLinked
Met ==
  \A i \in ToSet(decls) : \A cap \in ToSet(i.requires) :
    \E k \in DOMAIN links :
      /\ links[k].consumer = i.name /\ links[k].capability = cap
      /\ links[k].provider \in CollectProviders(decls, cap) \ {i.name}
      /\ \/ CollectProviders(decls, cap) \ {i.name} = {links[k].provider}
         \/ cap \in DOMAIN overrides /\ links[k].provider = overrides[cap]

SearchInv == OnStack /\ Descends /\ Parented /\ ParentLinks /\ DoneOrdered
LatInv ==
  /\ LatTypes /\ SearchInv
  /\ verdict = "matching" => /\ stack = <<>> /\ node = NoNode
                             /\ \A n \in LatNodes : visit[n] = "unvisited" /\ parent[n] = NoNode
  /\ verdict = "searching" => Covered /\ NodeOpen
  /\ verdict = "climbing" => ClimbInv
  /\ verdict = "cycle" => CycleInv
  /\ verdict \in {"climbing", "cycle"} => \A r \in Ranks : ~ Respects(r)
  /\ verdict = "ok" => \A k \in DOMAIN links : links[k].consumer \in DoneNodes
  /\ verdict \in {"searching", "climbing", "cycle", "ok"} => Met

\* There are finitely many nodes.
LEMMA NodesFinite ==
  ASSUME LatTypes
  PROVE  /\ IsFiniteSet(LatNodes) /\ Cardinality(LatNodes) \in Nat /\ Cardinality(LatNodes) >= 1
         /\ NoNode \notin LatNodes
<1>1. PICK m \in Matchings : decls = m.inputs
  BY DEF LatTypes
<1>2. decls \in Seq(ToSet(decls)) /\ \A i \in ToSet(decls) : i.name # NoNode
  BY <1>1, LatticeAssumption
<1>3. DOMAIN decls = 1..Len(decls) /\ Len(decls) \in Nat
  BY <1>2, LenProperties
<1>4. IsFiniteSet(DOMAIN decls)
  BY <1>3, FS_Interval
<1>5. IsFiniteSet({decls[i].name : i \in DOMAIN decls})
  <2>1. PICK f : f = [i \in DOMAIN decls |-> decls[i].name]
    OBVIOUS
  <2>2. f \in Surjection(DOMAIN decls, {decls[i].name : i \in DOMAIN decls})
    BY <2>1 DEF Surjection
  <2> QED
    BY <1>4, <2>2, FS_Surjection
<1>6. IsFiniteSet(LatNodes)
  BY <1>5, FS_AddElement DEF LatNodes, Nodes
<1>7. Cardinality(LatNodes) \in Nat /\ Cardinality(LatNodes) # 0
  BY <1>6, FS_CardinalityType, FS_EmptySet DEF LatNodes, Nodes
<1>8. NoNode \notin LatNodes
  BY <1>2, LatticeAssumption DEF LatNodes, Nodes, ToSet
<1> QED
  BY <1>6, <1>7, <1>8

\* A link goes down, and going down twice is going down.
LEMMA BelowIs ==
  ASSUME LatTypes
  PROVE  /\ \A k \in DOMAIN links : Below(links[k].provider, links[k].consumer)
         /\ \A l, m, n \in LatNodes : Below(l, m) /\ Below(m, n) => Below(l, n)
<1>1. \A r \in Ranks : \A n \in LatNodes : r[n] \in Int
  BY NodesFinite DEF Ranks
<1>2. \A k \in DOMAIN links : Below(links[k].provider, links[k].consumer)
  BY DEF Below, Respects
<1>3. ASSUME NEW l \in LatNodes, NEW m \in LatNodes, NEW n \in LatNodes, Below(l, m), Below(m, n)
      PROVE  Below(l, n)
  BY <1>1, <1>3 DEF Below
<1> QED
  BY <1>2, <1>3

\* The first of some links.
LEMMA FirstIs ==
  ASSUME NEW S, S \subseteq Nat, S # {}
  PROVE  First(S) \in S /\ \A j \in S : First(S) <= j
<1>1. \E a \in S : \A j \in S : a <= j
  BY LeastOf
<1> QED
  BY <1>1 DEF First

LEMMA LatInitOK == LatInit => LatInv
<1> SUFFICES ASSUME LatInit PROVE LatInv
  OBVIOUS
<1>1. LatTypes /\ \A n \in LatNodes : visit[n] = "unvisited" /\ parent[n] = NoNode
  BY DEF LatInit, LatTypes, LatNodes
<1>2. Len(stack) = 0 /\ DOMAIN links = {} /\ stack = <<>> /\ node = NoNode /\ verdict = "matching"
  BY DEF LatInit
<1>3. 1..Len(stack) = {}
  BY <1>2
<1>4. OnStack /\ Descends /\ Parented /\ ParentLinks
  BY <1>1, <1>3 DEF OnStack, Descends, Parented, ParentLinks
<1>5. DoneOrdered
  <2>1. [n \in LatNodes |-> 0] \in [LatNodes -> Nat] /\ DoneNodes = {}
    BY <1>1 DEF DoneNodes
  <2> QED
    BY <1>2, <2>1 DEF DoneOrdered
<1> QED
  BY <1>1, <1>2, <1>4, <1>5 DEF LatInv, SearchInv

\* What the search knows of the stack stays as it is while the stack does.
LEMMA SameSearch ==
  ASSUME UNCHANGED <<decls, links, stack, visit, parent>>
  PROVE  /\ SearchInv' <=> SearchInv
         /\ \A i : Open(i)' <=> Open(i)
         /\ \A r : Respects(r)' <=> Respects(r)
         /\ LatNodes' = LatNodes /\ Ranks' = Ranks /\ DoneNodes' = DoneNodes
<1>1. LatNodes' = LatNodes /\ Ranks' = Ranks /\ DoneNodes' = DoneNodes
  BY DEF LatNodes, Ranks, DoneNodes
<1>2. \A i : Open(i)' <=> Open(i)
  BY DEF Open, Topmost
<1>3. \A r : Respects(r)' <=> Respects(r)
  BY DEF Respects
<1>4. \A m, n : (Below(m, n)' <=> Below(m, n)) /\ (IsLink(m, n)' <=> IsLink(m, n))
  BY <1>1, <1>3 DEF Below, IsLink
<1>5. OnStack' <=> OnStack
  BY <1>1, <1>2 DEF OnStack
<1>6. Descends' <=> Descends
  BY <1>2, <1>4 DEF Descends
<1>7. Parented' <=> Parented
  BY <1>2 DEF Parented, LeadsTo, Topmost
<1>8. ParentLinks' <=> ParentLinks
  BY <1>1, <1>4 DEF ParentLinks
<1>9. DoneOrdered' <=> DoneOrdered
  BY <1>1 DEF DoneOrdered
<1> QED
  BY <1>1, <1>2, <1>3, <1>5, <1>6, <1>7, <1>8, <1>9 DEF SearchInv

\* What the links say stays as it is while they do.
LEMMA SameLinks ==
  ASSUME UNCHANGED <<decls, overrides, links>>
  PROVE  /\ LatNodes' = LatNodes /\ Ranks' = Ranks /\ (Met' <=> Met)
         /\ \A r : Respects(r)' <=> Respects(r)
         /\ \A m, n : (Below(m, n)' <=> Below(m, n)) /\ (IsLink(m, n)' <=> IsLink(m, n))
<1>1. LatNodes' = LatNodes /\ Ranks' = Ranks
  BY DEF LatNodes, Ranks
<1>2. \A r : Respects(r)' <=> Respects(r)
  BY DEF Respects
<1>3. \A m, n : (Below(m, n)' <=> Below(m, n)) /\ (IsLink(m, n)' <=> IsLink(m, n))
  BY <1>1, <1>2 DEF Below, IsLink
<1>4. Met' <=> Met
  BY DEF Met
<1> QED
  BY <1>1, <1>2, <1>3, <1>4

\* detectCycle puts a consumer on the empty stack, or ends.
LEMMA StartKeeps ==
  ASSUME LatInv, DetectCycleStart PROVE LatInv'
<1> DEFINE waiting == {k \in DOMAIN links : visit[links[k].consumer] = "unvisited"}
<1>1. /\ verdict = "searching" /\ stack = <<>> /\ UNCHANGED <<decls, overrides, links, visit, parent, node, at, path>>
      /\ waiting = {} => verdict' = "ok" /\ stack' = stack
      /\ waiting # {} => stack' = <<links[First(waiting)].consumer>> /\ verdict' = verdict
  BY DEF DetectCycleStart
<1>2. LatTypes /\ SearchInv /\ Met /\ NodeOpen
  BY <1>1 DEF LatInv
<1>3. \A n \in LatNodes : visit[n] # "in-progress"
  BY <1>1, <1>2 DEF SearchInv, OnStack
<1>4. node = NoNode
  BY <1>1, <1>2 DEF NodeOpen
<1>5. Met' /\ LatNodes' = LatNodes
  BY <1>1, <1>2, SameLinks
<1>6. CASE waiting = {}
  <2>1. LatTypes' /\ SearchInv'
    BY <1>1, <1>2, <1>6, SameSearch DEF LatTypes
  <2>2. \A k \in DOMAIN links : links[k].consumer \in DoneNodes
    BY <1>2, <1>3, <1>6 DEF LatTypes, DoneNodes
  <2>3. \A k \in DOMAIN links' : links'[k].consumer \in DoneNodes'
    BY <1>1, <1>6, <2>2, SameSearch
  <2> QED
    BY <1>1, <1>5, <1>6, <2>1, <2>3 DEF LatInv
<1>7. CASE waiting # {}
  <2>1. waiting \subseteq Nat
    BY <1>2 DEF LatTypes
  <2>2. PICK c \in LatNodes : c = links[First(waiting)].consumer /\ visit[c] = "unvisited"
    <3>1. First(waiting) \in waiting
      BY <1>7, <2>1, FirstIs
    <3> QED
      BY <1>2, <3>1 DEF LatTypes
  <2>3. stack' = <<c>> /\ Len(stack') = 1 /\ stack'[1] = c /\ verdict' = "searching"
    BY <1>1, <1>7, <2>2
  <2>4. LatTypes'
    BY <1>1, <1>2, <1>5, <2>3 DEF LatTypes
  <2>5. \A i \in 1..Len(stack') : i = 1 /\ ~ Open(i)'
    BY <1>1, <2>2, <2>3 DEF Open
  <2>6. OnStack' /\ Descends' /\ Parented' /\ Covered' /\ NodeOpen'
    <3>1. OnStack'
      BY <1>1, <1>3, <1>5 DEF OnStack
    <3>2. Descends' /\ Covered'
      BY <2>5 DEF Descends, Covered
    <3>3. Parented'
      BY <2>5 DEF Parented
    <3>4. NodeOpen'
      BY <1>1, <1>4 DEF NodeOpen
    <3> QED
      BY <3>1, <3>2, <3>3, <3>4
  <2>7. ParentLinks' /\ DoneOrdered'
    <3>1. ParentLinks'
      BY <1>1, <1>2, <1>5, SameLinks DEF ParentLinks, SearchInv
    <3>2. DoneNodes' = DoneNodes
      BY <1>1, <1>5 DEF DoneNodes
    <3> QED
      BY <1>1, <1>2, <1>5, <3>1, <3>2 DEF DoneOrdered, SearchInv
  <2> QED
    BY <1>5, <2>3, <2>4, <2>6, <2>7 DEF LatInv, SearchInv
<1> QED
  BY <1>6, <1>7

\* A node is seen for the first time.
LEMMA VisitKeeps ==
  ASSUME LatInv, DetectCycleVisit PROVE LatInv'
<1>1. /\ verdict = "searching" /\ node = NoNode /\ stack # <<>> /\ visit[stack[Len(stack)]] = "unvisited"
      /\ visit' = [visit EXCEPT ![stack[Len(stack)]] = "in-progress"]
      /\ node' = stack[Len(stack)] /\ at' = 0
      /\ UNCHANGED <<decls, overrides, links, stack, parent, path, verdict>>
  BY DEF DetectCycleVisit, Last
<1>2. LatTypes /\ SearchInv /\ Met /\ Covered
  BY <1>1 DEF LatInv
<1>3. PICK L \in Nat : L = Len(stack) /\ L >= 1
  BY <1>1, <1>2, EmptySeq, LenProperties DEF LatTypes
<1>4. PICK top \in LatNodes : top = stack[L]
  BY <1>2, <1>3, ElementOfSeq DEF LatTypes
<1>5. /\ visit[top] = "unvisited" /\ visit'[top] = "in-progress" /\ node' = top
      /\ \A n \in LatNodes : n # top => visit'[n] = visit[n]
      /\ \A i \in 1..L : stack[i] \in LatNodes
  BY <1>1, <1>2, <1>3, <1>4, ElementOfSeq DEF LatTypes
<1>6. Met' /\ LatNodes' = LatNodes
  BY <1>1, <1>2, SameLinks
<1>7. \A i \in 1..L : Topmost(i)' <=> Topmost(i)
  BY <1>1 DEF Topmost
<1>8. \A i \in 1..L : Topmost(i) /\ i # L => stack[i] # top
  BY <1>3, <1>4 DEF Topmost
<1>9. Topmost(L)
  BY <1>3 DEF Topmost
<1>10. \A i \in 1..L : Open(i)' <=> (Open(i) \/ i = L)
  BY <1>1, <1>3, <1>4, <1>5, <1>7, <1>8, <1>9 DEF Open
<1>11. LatTypes'
  BY <1>1, <1>2, <1>4, <1>5, <1>6 DEF LatTypes
<1>12. OnStack'
  <2> SUFFICES ASSUME NEW n \in LatNodes, visit'[n] = "in-progress"
               PROVE  \E i \in 1..L : stack[i] = n /\ Open(i)'
    BY <1>1, <1>3, <1>6 DEF OnStack
  <2>1. CASE n = top
    BY <1>3, <1>4, <1>10, <2>1
  <2>2. CASE n # top
    BY <1>2, <1>3, <1>5, <1>10, <2>2 DEF SearchInv, OnStack
  <2> QED
    BY <2>1, <2>2
<1>13. Descends'
  <2> SUFFICES ASSUME NEW i \in 1..L, NEW j \in 1..L, Open(i)', i < j PROVE Below(stack[j], stack[i])
    BY <1>1, <1>3, SameLinks DEF Descends
  <2>1. Open(i)
    BY <1>3, <1>10
  <2> QED
    BY <1>2, <1>3, <2>1 DEF SearchInv, Descends
<1>14. Covered'
  <2> SUFFICES ASSUME NEW i \in 1..L, Open(i)', NEW k \in DOMAIN links, links[k].consumer = stack[i],
                      stack[i] = top => k <= 0
               PROVE  Covers(i, k)'
    BY <1>1, <1>3, <1>5 DEF Covered
  <2>1. k \in Nat /\ k >= 1
    BY <1>2 DEF LatTypes
  <2>2. stack[i] # top /\ Open(i)
    BY <1>4, <1>10, <2>1
  <2>3. Covers(i, k)
    <3>1. node \notin LatNodes /\ stack[i] # node
      BY <1>1, <1>2, <1>5, NodesFinite
    <3> QED
      BY <1>2, <1>3, <2>2, <3>1 DEF Covered
  <2>4. visit[links[k].provider] = "done" => visit'[links[k].provider] = "done"
    BY <1>2, <1>5 DEF LatTypes
  <2> QED
    BY <1>1, <2>3, <2>4 DEF Covers
<1>15. Parented'
  <2> SUFFICES ASSUME NEW j \in 1..L, j > 1, visit'[stack[j]] # "done", Topmost(j)
               PROVE  \E i \in 1..L : i < j /\ LeadsTo(j, i)'
    BY <1>1, <1>3, <1>7 DEF Parented
  <2>1. visit[stack[j]] # "done"
    BY <1>5
  <2>2. PICK i \in 1..L : i < j /\ LeadsTo(j, i)
    BY <1>2, <1>3, <2>1 DEF SearchInv, Parented
  <2>3. LeadsTo(j, i)'
    BY <1>1, <1>3, <1>10, <2>2 DEF LeadsTo
  <2> QED
    BY <2>2, <2>3
<1>16. ParentLinks'
  BY <1>1, <1>2, <1>6, SameLinks DEF ParentLinks, SearchInv
<1>17. DoneOrdered'
  <2>1. DoneNodes' = DoneNodes
    BY <1>5, <1>6 DEF DoneNodes
  <2> QED
    BY <1>1, <1>2, <1>6, <2>1 DEF DoneOrdered, SearchInv
<1>18. NodeOpen'
  BY <1>1, <1>3, <1>4, <1>5, <1>10 DEF NodeOpen
<1> QED
  BY <1>1, <1>6, <1>11, <1>12, <1>13, <1>14, <1>15, <1>16, <1>17, <1>18 DEF LatInv, SearchInv

\* The next provider of a node closes a circle, is pushed, or is done.
LEMMA EdgeKeeps ==
  ASSUME LatInv, DetectCycleEdge PROVE LatInv'
<1>1. /\ verdict = "searching" /\ node # NoNode /\ Edges # {} /\ at' = First(Edges)
      /\ UNCHANGED <<decls, overrides, links, visit, node>>
  BY DEF DetectCycleEdge
<1>2. LatTypes /\ SearchInv /\ Met /\ Covered /\ NodeOpen
  BY <1>1 DEF LatInv
<1>3. PICK k0 \in DOMAIN links :
        /\ k0 = First(Edges) /\ k0 \in Nat /\ links[k0].consumer = node
        /\ \A k \in DOMAIN links : links[k].consumer = node /\ k <= k0 => k <= at \/ k = k0
  <2>1. Edges \subseteq Nat
    BY <1>2 DEF Edges, LatTypes
  <2>2. First(Edges) \in Edges /\ \A j \in Edges : First(Edges) <= j
    BY <1>1, <2>1, FirstIs
  <2>3. First(Edges) \in Nat /\ at \in Nat /\ \A k \in DOMAIN links : k \in Nat
    <3>1. at \in Nat /\ \A k \in DOMAIN links : k \in Nat
      BY <1>2 DEF LatTypes
    <3>2. First(Edges) \in Nat
      BY <2>1, <2>2
    <3> QED
      BY <3>1, <3>2
  <2>4. ASSUME NEW k \in DOMAIN links, links[k].consumer = node, k <= First(Edges)
        PROVE  k <= at \/ k = First(Edges)
    <3>1. CASE k > at
      <4>1. k \in Edges
        BY <2>4, <3>1 DEF Edges
      <4> QED
        BY <2>2, <2>3, <2>4, <4>1
    <3> QED
      BY <2>3, <3>1
  <2> QED
    BY <2>2, <2>3, <2>4 DEF Edges
<1>4. PICK next \in LatNodes : next = links[k0].provider
  BY <1>2 DEF LatTypes
<1>5. \/ /\ visit[next] = "in-progress" /\ verdict' = "climbing" /\ path' = <<node>>
         /\ UNCHANGED <<stack, parent>>
      \/ /\ visit[next] = "unvisited" /\ parent' = [parent EXCEPT ![next] = node]
         /\ stack' = Append(stack, next) /\ UNCHANGED <<verdict, path>>
      \/ visit[next] = "done" /\ UNCHANGED <<verdict, path, stack, parent>>
  <2>1. visit[next] \in {"unvisited", "in-progress", "done"}
    BY <1>2 DEF LatTypes
  <2> QED
    BY <1>3, <1>4, <2>1 DEF DetectCycleEdge, Closes, ParentSet
<1>6. PICK L \in Nat : L = Len(stack) /\ \A i \in 1..L : stack[i] \in LatNodes
  BY <1>2, LenProperties, ElementOfSeq DEF LatTypes
<1>7. PICK i0 \in 1..L : Open(i0) /\ stack[i0] = node /\ \A j \in 1..L : j > i0 => visit[stack[j]] = "unvisited"
  BY <1>1, <1>2, <1>6 DEF NodeOpen
<1>8. at' = k0 /\ at' \in Nat /\ node \in LatNodes /\ Met' /\ LatNodes' = LatNodes
  BY <1>1, <1>2, <1>3, <1>6, <1>7, SameLinks
<1>9. CASE visit[next] = "in-progress"
  <2>1. verdict' = "climbing" /\ path' = <<node>> /\ UNCHANGED <<stack, parent>>
    BY <1>5, <1>9
  <2>2. SearchInv' /\ Ranks' = Ranks /\ (\A i : Open(i)' <=> Open(i)) /\ \A r : Respects(r)' <=> Respects(r)
    BY <1>1, <1>2, <2>1, SameSearch
  <2>3. LatTypes'
    BY <1>1, <1>2, <1>8, <2>1 DEF LatTypes
  <2>4. PICK a \in 1..L : stack[a] = next /\ Open(a)
    BY <1>2, <1>6, <1>9 DEF SearchInv, OnStack
  <2>5. a <= i0
    BY <1>6, <1>7, <1>9, <2>4
  <2>6. Len(path') = 1 /\ path'[1] = node /\ path' # <<>>
    BY <2>1
  <2>7. ClimbInv'
    <3>1. PathLinked'
      BY <2>6 DEF PathLinked
    <3>2. at' \in DOMAIN links' /\ links'[at'].consumer = node' /\ links'[at'].provider = next
      BY <1>1, <1>3, <1>4, <1>8
    <3>3. stack' = stack /\ Len(stack') = L /\ stack'[a] = next /\ stack'[i0] = node /\ Open(a)' /\ Open(i0)'
      BY <1>6, <1>7, <2>1, <2>2, <2>4
    <3>4. \E x, y \in 1..Len(stack') : /\ Open(x)' /\ Open(y)' /\ x <= y
                                       /\ stack'[x] = links'[at'].provider /\ stack'[y] = path'[1]
      BY <2>5, <2>6, <3>2, <3>3
    <3> QED
      BY <1>1, <2>6, <3>1, <3>2, <3>4 DEF ClimbInv
  <2>8. ASSUME NEW r \in Ranks, Respects(r) PROVE FALSE
    <3>1. r[next] \in Int /\ r[node] \in Int
      BY <1>4, <1>8, <1>2, NodesFinite DEF Ranks
    <3>2. r[next] < r[node]
      BY <1>3, <1>4, <2>8 DEF Respects
    <3>3. CASE a < i0
      <4>1. Below(node, next)
        BY <1>2, <1>6, <1>7, <2>4, <3>3 DEF SearchInv, Descends
      <4> QED
        BY <2>8, <3>1, <3>2, <4>1 DEF Below
    <3>4. CASE a = i0
      BY <1>7, <2>4, <3>1, <3>2, <3>4
    <3> QED
      BY <1>6, <2>5, <3>3, <3>4
  <2> QED
    BY <1>8, <2>1, <2>2, <2>3, <2>7, <2>8 DEF LatInv
<1>10. CASE visit[next] = "done"
  <2>1. UNCHANGED <<verdict, path, stack, parent>>
    BY <1>5, <1>10
  <2>2. SearchInv' /\ \A i : Open(i)' <=> Open(i)
    BY <1>1, <1>2, <2>1, SameSearch
  <2>3. LatTypes'
    BY <1>1, <1>2, <1>8, <2>1 DEF LatTypes
  <2>4. NodeOpen'
    BY <1>1, <1>2, <2>1, <2>2 DEF NodeOpen
  <2>5. Covered'
    <3> SUFFICES ASSUME NEW i \in 1..L, Open(i), NEW k \in DOMAIN links, links[k].consumer = stack[i],
                        stack[i] = node => k <= k0
                 PROVE  Covers(i, k)'
      BY <1>1, <1>6, <1>8, <2>1, <2>2 DEF Covered
    <3>1. CASE k = k0
      BY <1>1, <1>4, <1>10, <3>1 DEF Covers
    <3>2. CASE k # k0
      <4>1. Covers(i, k)
        BY <1>2, <1>3, <1>6, <3>2 DEF Covered
      <4> QED
        BY <1>1, <2>1, <4>1 DEF Covers
    <3> QED
      BY <3>1, <3>2
  <2> QED
    BY <1>1, <1>8, <2>1, <2>2, <2>3, <2>4, <2>5 DEF LatInv
<1>11. CASE visit[next] = "unvisited"
  <2>1. parent' = [parent EXCEPT ![next] = node] /\ stack' = Append(stack, next) /\ UNCHANGED <<verdict, path>>
    BY <1>5, <1>11
  <2>2. /\ stack' \in Seq(LatNodes) /\ Len(stack') = L + 1 /\ stack'[L + 1] = next
        /\ \A i \in 1..L : stack'[i] = stack[i]
    BY <1>2, <1>4, <1>6, <2>1, AppendProperties DEF LatTypes
  <2>3. /\ parent' \in [LatNodes -> LatNodes \cup {NoNode}] /\ parent'[next] = node
        /\ \A n \in LatNodes : n # next => parent'[n] = parent[n]
    BY <1>2, <1>4, <1>8, <2>1 DEF LatTypes
  <2>4. LatTypes'
    BY <1>1, <1>2, <1>8, <2>1, <2>2, <2>3 DEF LatTypes
  <2>5. \A i \in 1..L : Topmost(i)' <=> Topmost(i) /\ stack[i] # next
    <3> SUFFICES ASSUME NEW i \in 1..L PROVE Topmost(i)' <=> Topmost(i) /\ stack[i] # next
      OBVIOUS
    <3>1. 1..Len(stack') = (1..L) \cup {L + 1} /\ L + 1 > i
      BY <1>6, <2>2
    <3> QED
      BY <1>6, <2>2, <3>1 DEF Topmost
  <2>6. /\ \A i \in 1..L : Open(i)' <=> Open(i)
        /\ ~ Open(L + 1)'
    <3>1. \A i \in 1..L : Open(i)' <=> visit[stack[i]] = "in-progress" /\ Topmost(i)'
      BY <1>1, <2>2 DEF Open
    <3>2. \A i \in 1..L : Open(i)' <=> Open(i)
      BY <1>11, <2>5, <3>1 DEF Open
    <3>3. ~ Open(L + 1)'
      BY <1>1, <1>11, <2>2 DEF Open
    <3> QED
      BY <3>2, <3>3
  <2>7. OnStack'
    <3> SUFFICES ASSUME NEW n \in LatNodes, visit[n] = "in-progress"
                 PROVE  \E i \in 1..Len(stack') : stack'[i] = n /\ Open(i)'
      BY <1>1, <1>8 DEF OnStack
    <3>1. PICK i \in 1..L : stack[i] = n /\ Open(i)
      BY <1>2, <1>6 DEF SearchInv, OnStack
    <3>2. i \in 1..Len(stack') /\ stack'[i] = n /\ Open(i)'
      BY <1>6, <2>2, <2>6, <3>1
    <3> QED
      BY <3>2
  <2>8. Descends'
    <3> SUFFICES ASSUME NEW i \in 1..(L + 1), NEW j \in 1..(L + 1), Open(i)', i < j
                 PROVE  Below(stack'[j], stack'[i])
      BY <1>1, <2>2, SameLinks DEF Descends
    <3>1. i \in 1..L /\ Open(i) /\ stack'[i] = stack[i]
      BY <1>6, <2>2, <2>6
    <3>2. CASE j \in 1..L
      BY <1>2, <1>6, <2>2, <3>1, <3>2 DEF SearchInv, Descends
    <3>3. CASE j = L + 1
      <4>1. Below(next, node)
        BY <1>2, <1>3, <1>4, BelowIs
      <4>2. i <= i0
        BY <1>6, <1>7, <3>1 DEF Open
      <4>3. CASE i = i0
        BY <1>7, <2>2, <3>1, <3>3, <4>1, <4>3
      <4>4. CASE i < i0
        <5>1. Below(node, stack[i])
          BY <1>2, <1>6, <1>7, <3>1, <4>4 DEF SearchInv, Descends
        <5>2. Below(next, stack[i])
          BY <1>2, <1>6, <1>8, <3>1, <4>1, <5>1, BelowIs
        <5> QED
          BY <2>2, <3>1, <3>3, <5>2
      <4> QED
        BY <1>6, <4>2, <4>3, <4>4
    <3> QED
      BY <1>6, <3>2, <3>3
  <2>9. Covered'
    <3> SUFFICES ASSUME NEW i \in 1..(L + 1), Open(i)', NEW k \in DOMAIN links, links[k].consumer = stack'[i],
                        stack'[i] = node => k <= k0
                 PROVE  Covers(i, k)'
      BY <1>1, <1>8, <2>2 DEF Covered
    <3>1. i \in 1..L /\ Open(i) /\ stack'[i] = stack[i]
      BY <1>6, <2>2, <2>6
    <3>2. CASE k = k0
      <4>1. L + 1 \in 1..Len(stack') /\ L + 1 > i /\ stack'[L + 1] = links[k].provider
        BY <1>4, <1>6, <2>2, <3>1, <3>2
      <4> QED
        BY <1>1, <4>1 DEF Covers
    <3>3. CASE k # k0
      <4>1. Covers(i, k)
        BY <1>2, <1>3, <1>6, <3>1, <3>3 DEF Covered
      <4>2. \A j \in 1..L : j \in 1..Len(stack') /\ stack'[j] = stack[j]
        BY <1>6, <2>2
      <4> QED
        BY <1>1, <1>6, <4>1, <4>2 DEF Covers
    <3> QED
      BY <3>2, <3>3
  <2>10. Parented'
    <3> SUFFICES ASSUME NEW j \in 1..(L + 1), j > 1, visit[stack'[j]] # "done", Topmost(j)'
                 PROVE  \E i \in 1..(L + 1) : i < j /\ LeadsTo(j, i)'
      BY <1>1, <2>2 DEF Parented
    <3>1. CASE j \in 1..L
      <4>1. visit[stack[j]] # "done" /\ Topmost(j) /\ stack[j] # next /\ stack[j] \in LatNodes
        BY <1>6, <2>2, <2>5, <3>1
      <4>2. PICK i \in 1..L : i < j /\ LeadsTo(j, i)
        BY <1>2, <1>6, <3>1, <4>1 DEF SearchInv, Parented
      <4>3. parent'[stack'[j]] = stack'[i] /\ Open(i)'
        BY <2>2, <2>3, <2>6, <3>1, <4>1, <4>2 DEF LeadsTo
      <4>4. ASSUME NEW k \in 1..(L + 1), i < k, k < j PROVE ~ Open(k)'
        <5>1. k \in 1..L
          BY <1>6, <3>1, <4>4
        <5> QED
          BY <1>6, <2>6, <4>2, <4>4, <5>1 DEF LeadsTo
      <4>5. LeadsTo(j, i)'
        BY <2>2, <4>3, <4>4 DEF LeadsTo
      <4> QED
        BY <1>6, <4>2, <4>5
    <3>2. CASE j = L + 1
      <4>1. parent'[stack'[j]] = stack'[i0] /\ Open(i0)' /\ i0 < j
        BY <1>6, <1>7, <2>2, <2>3, <2>6, <3>2
      <4>2. ASSUME NEW k \in 1..(L + 1), i0 < k, k < j PROVE ~ Open(k)'
        <5>1. k \in 1..L /\ visit[stack[k]] = "unvisited"
          BY <1>6, <1>7, <3>2, <4>2
        <5> QED
          BY <2>6, <5>1 DEF Open
      <4>3. LeadsTo(j, i0)'
        BY <2>2, <4>1, <4>2 DEF LeadsTo
      <4> QED
        BY <1>6, <1>7, <4>1, <4>3
    <3> QED
      BY <1>6, <3>1, <3>2
  <2>11. ParentLinks'
    <3>1. IsLink(node, next)
      BY <1>3, <1>4 DEF IsLink
    <3>2. \A n \in LatNodes : parent'[n] # NoNode => IsLink(parent'[n], n)
      BY <1>2, <1>4, <2>3, <3>1 DEF SearchInv, ParentLinks
    <3> QED
      BY <1>1, <1>8, <3>2, SameLinks DEF ParentLinks
  <2>12. DoneOrdered'
    <3>1. DoneNodes' = DoneNodes
      BY <1>1, <1>8 DEF DoneNodes
    <3> QED
      BY <1>1, <1>2, <1>8, <3>1 DEF DoneOrdered, SearchInv
  <2>13. NodeOpen'
    <3>1. \A j \in 1..(L + 1) : j > i0 => visit[stack'[j]] = "unvisited"
      BY <1>6, <1>7, <1>11, <2>2
    <3>2. i0 \in 1..(L + 1) /\ Open(i0)' /\ stack'[i0] = node
      BY <1>6, <1>7, <2>2, <2>6
    <3> QED
      BY <1>1, <2>2, <3>1, <3>2 DEF NodeOpen
  <2> QED
    BY <1>1, <1>8, <2>1, <2>4, <2>7, <2>8, <2>9, <2>10, <2>11, <2>12, <2>13 DEF LatInv, SearchInv
<1> QED
  BY <1>5, <1>9, <1>10, <1>11

\* The edges of a node have been gone through.
LEMMA EdgesEndKeeps ==
  ASSUME LatInv, DetectCycleEdgesEnd PROVE LatInv'
<1>1. /\ verdict = "searching" /\ node # NoNode /\ Edges = {} /\ node' = NoNode
      /\ UNCHANGED <<decls, overrides, links, stack, visit, parent, at, path, verdict>>
  BY DEF DetectCycleEdgesEnd
<1>2. LatTypes /\ SearchInv /\ Met /\ Covered /\ NodeOpen
  BY <1>1 DEF LatInv
<1>3. SearchInv' /\ (\A i : Open(i)' <=> Open(i)) /\ Met' /\ LatNodes' = LatNodes
  BY <1>1, <1>2, SameSearch, SameLinks
<1>4. LatTypes'
  BY <1>1, <1>2, <1>3 DEF LatTypes
<1>5. NodeOpen'
  BY <1>1 DEF NodeOpen
<1>6. Covered'
  <2> SUFFICES ASSUME NEW i \in 1..Len(stack), Open(i), NEW k \in DOMAIN links, links[k].consumer = stack[i]
               PROVE  Covers(i, k)'
    BY <1>1, <1>3 DEF Covered
  <2>1. k \in Nat /\ at \in Nat
    BY <1>2 DEF LatTypes
  <2>2. stack[i] = node => k <= at
    BY <1>1, <2>1 DEF Edges
  <2>3. Covers(i, k)
    BY <1>2, <2>2 DEF Covered
  <2> QED
    BY <1>1, <2>3 DEF Covers
<1> QED
  BY <1>1, <1>3, <1>4, <1>5, <1>6 DEF LatInv

\* A node seen for the second time is done: what it needs is, since nothing
\* is above it.
LEMMA PopKeeps ==
  ASSUME LatInv, DetectCyclePop PROVE LatInv'
<1>1. /\ verdict = "searching" /\ node = NoNode /\ stack # <<>> /\ visit[stack[Len(stack)]] # "unvisited"
      /\ visit' = [visit EXCEPT ![stack[Len(stack)]] = "done"] /\ stack' = Front(stack)
      /\ UNCHANGED <<decls, overrides, links, parent, node, at, path, verdict>>
  BY DEF DetectCyclePop, Last
<1>2. LatTypes /\ SearchInv /\ Met /\ Covered
  BY <1>1 DEF LatInv
<1>3. PICK L \in Nat : L = Len(stack) /\ L >= 1
  BY <1>1, <1>2, EmptySeq, LenProperties DEF LatTypes
<1>4. PICK top \in LatNodes : top = stack[L]
  BY <1>2, <1>3, ElementOfSeq DEF LatTypes
<1>5. /\ visit[top] # "unvisited" /\ visit'[top] = "done"
      /\ \A n \in LatNodes : n # top => visit'[n] = visit[n]
      /\ \A i \in 1..L : stack[i] \in LatNodes
      /\ visit' \in [LatNodes -> {"unvisited", "in-progress", "done"}]
  BY <1>1, <1>2, <1>3, <1>4, ElementOfSeq DEF LatTypes
<1>6. Met' /\ LatNodes' = LatNodes
  BY <1>1, <1>2, SameLinks
<1>7. /\ stack' \in Seq(LatNodes) /\ Len(stack') = L - 1 /\ L - 1 \in Nat
      /\ \A i \in 1..(L - 1) : i \in 1..L /\ stack'[i] = stack[i]
  <2>1. /\ stack' \in Seq(LatNodes) /\ Len(stack') = IF 1 <= L - 1 THEN (L - 1) - 1 + 1 ELSE 0
        /\ \A i \in 1..((L - 1) - 1 + 1) : stack'[i] = stack[1 + i - 1]
    <3>1. L - 1 \in Int /\ 1 \in Int /\ \A i \in 1..(L - 1) : stack[i] \in LatNodes
      BY <1>3, <1>5
    <3>2. stack' = SubSeq(stack, 1, L - 1)
      BY <1>1, <1>3 DEF Front
    <3> QED
      BY <3>1, <3>2, SubSeqProperties
  <2>2. (L - 1) - 1 + 1 = L - 1 /\ \A i \in 1..(L - 1) : 1 + i - 1 = i /\ i \in 1..L
    BY <1>3
  <2>3. \A i \in 1..(L - 1) : stack'[i] = stack[i]
    BY <2>1, <2>2
  <2>4. Len(stack') = L - 1 /\ L - 1 \in Nat
    BY <1>3, <2>1
  <2> QED
    BY <2>1, <2>2, <2>3, <2>4
<1>8. \A i \in 1..(L - 1) : Topmost(i) <=> Topmost(i)' /\ stack[i] # top
  <2> SUFFICES ASSUME NEW i \in 1..(L - 1) PROVE Topmost(i) <=> Topmost(i)' /\ stack[i] # top
    OBVIOUS
  <2>1. 1..L = (1..(L - 1)) \cup {L} /\ L > i
    BY <1>3, <1>7
  <2>2. Topmost(i)' <=> \A j \in 1..(L - 1) : j > i => stack[j] # stack[i]
    BY <1>7 DEF Topmost
  <2>3. Topmost(i) <=> \A j \in (1..(L - 1)) \cup {L} : j > i => stack[j] # stack[i]
    BY <1>3, <2>1 DEF Topmost
  <2> QED
    BY <1>4, <2>1, <2>2, <2>3
<1>9. \A i \in 1..(L - 1) : Open(i)' <=> Open(i)
  <2> SUFFICES ASSUME NEW i \in 1..(L - 1) PROVE Open(i)' <=> Open(i)
    OBVIOUS
  <2>1. stack'[i] = stack[i] /\ stack[i] \in LatNodes
    BY <1>5, <1>7
  <2>2. CASE stack[i] = top
    BY <1>5, <1>8, <2>1, <2>2 DEF Open
  <2>3. CASE stack[i] # top
    BY <1>5, <1>8, <2>1, <2>3 DEF Open
  <2> QED
    BY <2>2, <2>3
<1>10. LatTypes'
  BY <1>1, <1>2, <1>5, <1>6, <1>7 DEF LatTypes
<1>11. OnStack'
  <2> SUFFICES ASSUME NEW n \in LatNodes, visit'[n] = "in-progress"
               PROVE  \E i \in 1..(L - 1) : stack'[i] = n /\ Open(i)'
    BY <1>6, <1>7 DEF OnStack
  <2>1. n # top /\ visit[n] = "in-progress"
    BY <1>5
  <2>2. PICK i \in 1..L : stack[i] = n /\ Open(i)
    BY <1>2, <1>3, <2>1 DEF SearchInv, OnStack
  <2>3. i \in 1..(L - 1)
    BY <1>3, <1>4, <2>1, <2>2
  <2> QED
    BY <1>7, <1>9, <2>2, <2>3
<1>12. Descends'
  <2> SUFFICES ASSUME NEW i \in 1..(L - 1), NEW j \in 1..(L - 1), Open(i)', i < j
               PROVE  Below(stack'[j], stack'[i])
    BY <1>1, <1>7, SameLinks DEF Descends
  <2>1. Open(i) /\ i \in 1..L /\ j \in 1..L /\ stack'[i] = stack[i] /\ stack'[j] = stack[j]
    BY <1>7, <1>9
  <2> QED
    BY <1>2, <1>3, <2>1 DEF SearchInv, Descends
<1>13. \A n \in LatNodes : visit[n] = "done" => visit'[n] = "done"
  BY <1>5
<1>14. Covered'
  <2> SUFFICES ASSUME NEW i \in 1..(L - 1), Open(i)', NEW k \in DOMAIN links, links[k].consumer = stack'[i]
               PROVE  Covers(i, k)'
    BY <1>1, <1>7 DEF Covered
  <2>1. Open(i) /\ i \in 1..L /\ stack'[i] = stack[i] /\ stack[i] \in LatNodes /\ links[k].provider \in LatNodes
    BY <1>2, <1>5, <1>7, <1>9 DEF LatTypes
  <2>2. stack[i] # node
    BY <1>1, <1>2, <2>1, NodesFinite
  <2>3. Covers(i, k)
    BY <1>2, <1>3, <2>1, <2>2 DEF Covered
  <2>4. CASE visit[links[k].provider] = "done"
    BY <1>1, <1>13, <2>1, <2>4 DEF Covers
  <2>5. CASE \E j \in 1..L : j > i /\ stack[j] = links[k].provider
    <3>1. PICK j \in 1..L : j > i /\ stack[j] = links[k].provider
      BY <2>5
    <3>2. CASE j = L
      BY <1>1, <1>4, <1>5, <3>1, <3>2 DEF Covers
    <3>3. CASE j # L
      <4>1. j \in 1..(L - 1) /\ stack'[j] = stack[j]
        BY <1>3, <1>7, <3>3
      <4> QED
        BY <1>1, <1>7, <3>1, <4>1 DEF Covers
    <3> QED
      BY <3>2, <3>3
  <2> QED
    BY <1>3, <2>3, <2>4, <2>5 DEF Covers
<1>15. Parented'
  <2> SUFFICES ASSUME NEW j \in 1..(L - 1), j > 1, visit'[stack'[j]] # "done", Topmost(j)'
               PROVE  \E i \in 1..(L - 1) : i < j /\ LeadsTo(j, i)'
    BY <1>7 DEF Parented
  <2>1. j \in 1..L /\ stack'[j] = stack[j] /\ stack[j] \in LatNodes /\ stack[j] # top
    BY <1>5, <1>7
  <2>2. visit[stack[j]] # "done" /\ Topmost(j)
    BY <1>5, <1>8, <2>1
  <2>3. PICK i \in 1..L : i < j /\ LeadsTo(j, i)
    BY <1>2, <1>3, <2>1, <2>2 DEF SearchInv, Parented
  <2>4. i \in 1..(L - 1)
    BY <1>7, <2>3
  <2>5. LeadsTo(j, i)'
    <3>1. Open(i)' /\ parent'[stack'[j]] = stack'[i]
      BY <1>1, <1>7, <1>9, <2>1, <2>3, <2>4 DEF LeadsTo
    <3>2. \A k \in 1..(L - 1) : i < k /\ k < j => ~ Open(k)'
      BY <1>3, <1>7, <1>9, <2>3 DEF LeadsTo
    <3> QED
      BY <1>7, <3>1, <3>2 DEF LeadsTo
  <2> QED
    BY <2>3, <2>4, <2>5
<1>16. ParentLinks'
  BY <1>1, <1>2, <1>6, SameLinks DEF ParentLinks, SearchInv
<1>17. NodeOpen'
  BY <1>1 DEF NodeOpen
<1>18. DoneOrdered'
  <2>1. PICK r \in [LatNodes -> Nat] :
          /\ \A n \in DoneNodes : r[n] \in 1..Cardinality(DoneNodes)
          /\ \A k \in DOMAIN links : links[k].consumer \in DoneNodes =>
               links[k].provider \in DoneNodes /\ r[links[k].provider] < r[links[k].consumer]
    BY <1>2 DEF SearchInv, DoneOrdered
  <2>2. CASE top \in DoneNodes
    <3>1. DoneNodes' = DoneNodes
      BY <1>5, <1>6, <2>2 DEF DoneNodes
    <3> QED
      BY <1>1, <1>2, <1>6, <3>1 DEF SearchInv, DoneOrdered
  <2>3. CASE top \notin DoneNodes
    <3>1. DoneNodes' = DoneNodes \cup {top}
      BY <1>4, <1>5, <1>6 DEF DoneNodes
    <3>2. IsFiniteSet(DoneNodes)
      BY <1>2, NodesFinite, FS_Subset DEF DoneNodes
    <3>3. PICK c \in Nat : c = Cardinality(DoneNodes) /\ Cardinality(DoneNodes') = c + 1
      BY <2>3, <3>1, <3>2, FS_AddElement, FS_CardinalityType
    <3>4. PICK q : q = [r EXCEPT ![top] = c + 1]
      OBVIOUS
    <3>5. q \in [LatNodes -> Nat] /\ q[top] = c + 1 /\ \A n \in LatNodes : n # top => q[n] = r[n]
      BY <1>4, <2>1, <3>3, <3>4
    <3>6. DoneNodes \subseteq LatNodes /\ \A n \in DoneNodes : n # top
      BY <2>3 DEF DoneNodes
    <3>7. \A n \in DoneNodes : q[n] = r[n] /\ q[n] \in 1..c
      BY <2>1, <3>3, <3>5, <3>6
    <3>8. \A n \in DoneNodes' : q[n] \in 1..(c + 1)
      BY <3>1, <3>3, <3>5, <3>7
    <3>9. ASSUME NEW k \in DOMAIN links, links[k].consumer \in DoneNodes'
          PROVE  links[k].provider \in DoneNodes' /\ q[links[k].provider] < q[links[k].consumer]
      <4>1. CASE links[k].consumer \in DoneNodes
        BY <2>1, <3>1, <3>7, <4>1
      <4>2. CASE links[k].consumer = top
        <5>1. Open(L)
          <6>1. visit[top] = "in-progress"
            <7>1. visit[top] \in {"unvisited", "in-progress", "done"}
              BY <1>2 DEF LatTypes
            <7> QED
              BY <1>5, <2>3, <7>1 DEF DoneNodes
          <6> QED
            BY <1>3, <1>4, <6>1 DEF Open, Topmost
        <5>2. stack[L] # node
          BY <1>1, <1>2, <1>4, NodesFinite
        <5>3. L \in 1..Len(stack)
          BY <1>3
        <5>4. Covers(L, k)
          BY <1>2, <1>4, <4>2, <5>1, <5>2, <5>3 DEF Covered
        <5>5. ~ \E j \in 1..Len(stack) : j > L /\ stack[j] = links[k].provider
          BY <1>3
        <5>6. links[k].provider \in DoneNodes
          BY <1>2, <5>4, <5>5 DEF Covers, DoneNodes, LatTypes
        <5> QED
          BY <3>1, <3>3, <3>5, <3>7, <4>2, <5>6
      <4> QED
        BY <3>1, <3>9, <4>1, <4>2
    <3>10. /\ q \in [LatNodes' -> Nat]
           /\ \A n \in DoneNodes' : q[n] \in 1..Cardinality(DoneNodes')
           /\ \A k \in DOMAIN links' : links'[k].consumer \in DoneNodes' =>
                links'[k].provider \in DoneNodes' /\ q[links'[k].provider] < q[links'[k].consumer]
      BY <1>1, <1>6, <3>3, <3>5, <3>8, <3>9
    <3> QED
      BY <3>10 DEF DoneOrdered
  <2> QED
    BY <2>2, <2>3
<1> QED
  BY <1>1, <1>6, <1>10, <1>11, <1>12, <1>14, <1>15, <1>16, <1>17, <1>18 DEF LatInv, SearchInv

\* A step from a node to its parent on the way to where the circle closes.
LEMMA WalkKeeps ==
  ASSUME LatInv, WalkParents PROVE LatInv'
<1>1. /\ verdict = "climbing" /\ UNCHANGED <<decls, overrides, links, stack, visit, parent, node, at>>
      /\ IF path[1] # links[at].provider /\ parent[path[1]] # NoNode
         THEN path' = <<parent[path[1]]>> \o path /\ verdict' = verdict
         ELSE path' = Append(path, links[at].provider) /\ verdict' = "cycle"
  BY DEF WalkParents
<1>2. LatTypes /\ SearchInv /\ Met /\ ClimbInv /\ \A r \in Ranks : ~ Respects(r)
  BY <1>1 DEF LatInv
<1>3. /\ SearchInv' /\ Met' /\ LatNodes' = LatNodes /\ (\A i : Open(i)' <=> Open(i))
      /\ \A r \in Ranks' : ~ Respects(r)'
      /\ \A m, n : IsLink(m, n)' <=> IsLink(m, n)
  BY <1>1, <1>2, SameSearch, SameLinks
<1>4. PICK next \in LatNodes : next = links[at].provider
  BY <1>2 DEF ClimbInv, LatTypes
<1>5. PICK P \in Nat : P = Len(path) /\ P >= 1 /\ \A k \in 1..P : path[k] \in LatNodes
  BY <1>2, EmptySeq, LenProperties, ElementOfSeq DEF ClimbInv, LatTypes
<1>6. PICK cur \in LatNodes : cur = path[1]
  BY <1>5
<1>7. /\ IsLink(node, next) /\ path[P] = node /\ path \in Seq(LatNodes)
      /\ \A k \in 1..(P - 1) : IsLink(path[k], path[k + 1])
  BY <1>2, <1>4, <1>5 DEF ClimbInv, PathLinked, IsLink, LatTypes
<1>8. PICK L \in Nat : L = Len(stack) /\ \A i \in 1..L : stack[i] \in LatNodes
  BY <1>2, LenProperties, ElementOfSeq DEF LatTypes
<1>9. PICK a \in 1..L, b \in 1..L : Open(a) /\ Open(b) /\ a <= b /\ stack[a] = next /\ stack[b] = cur
  BY <1>2, <1>4, <1>6, <1>8 DEF ClimbInv
<1>10. cur # next =>
         \E i \in 1..L : Open(i) /\ parent[cur] = stack[i] /\ a <= i
  <2> SUFFICES ASSUME cur # next PROVE \E i \in 1..L : Open(i) /\ parent[cur] = stack[i] /\ a <= i
    OBVIOUS
  <2>1. a < b /\ b > 1
    BY <1>8, <1>9
  <2>2. visit[stack[b]] # "done" /\ Topmost(b)
    BY <1>9 DEF Open
  <2>3. PICK i \in 1..L : i < b /\ LeadsTo(b, i)
    BY <1>2, <1>8, <2>1, <2>2 DEF SearchInv, Parented
  <2>4. a <= i
    BY <1>8, <1>9, <2>1, <2>3 DEF LeadsTo
  <2> QED
    BY <1>9, <2>3, <2>4 DEF LeadsTo
<1>11. NoNode \notin LatNodes
  BY <1>2, NodesFinite
<1>12. CASE cur # next
  <2>1. PICK i \in 1..L : Open(i) /\ parent[cur] = stack[i] /\ a <= i
    BY <1>10, <1>12
  <2>2. PICK up \in LatNodes : up = parent[cur] /\ up = stack[i] /\ up # NoNode /\ IsLink(up, cur)
    BY <1>2, <1>8, <1>11, <2>1 DEF SearchInv, ParentLinks
  <2>3. path' = <<up>> \o path /\ verdict' = "climbing"
    BY <1>1, <1>4, <1>6, <1>12, <2>2
  <2>4. <<up>> \in Seq(LatNodes) /\ Len(<<up>>) = 1 /\ <<up>>[1] = up
    BY <2>2
  <2>5. /\ path' \in Seq(LatNodes) /\ Len(path') = P + 1
        /\ \A k \in 1..(P + 1) : path'[k] = IF k <= 1 THEN up ELSE path[k - 1]
    <3>1. /\ path' \in Seq(LatNodes) /\ Len(path') = 1 + P
          /\ \A k \in 1..(1 + P) : path'[k] = IF k <= 1 THEN <<up>>[k] ELSE path[k - 1]
      BY <1>5, <1>7, <2>3, <2>4, ConcatProperties
    <3> QED
      BY <1>5, <2>4, <3>1
  <2>6. LatTypes'
    BY <1>1, <1>2, <1>3, <2>5 DEF LatTypes
  <2>7. path'[1] = up /\ path'[P + 1] = node /\ path' # <<>>
    BY <1>5, <1>7, <2>5
  <2>8. PathLinked'
    <3> SUFFICES ASSUME NEW k \in 1..P PROVE IsLink(path'[k], path'[k + 1])
      BY <1>3, <1>5, <2>5 DEF PathLinked
    <3>1. CASE k = 1
      <4>1. path'[1] = up /\ path'[1 + 1] = cur
        BY <1>5, <1>6, <2>5
      <4> QED
        BY <2>2, <3>1, <4>1
    <3>2. CASE k > 1
      <4>1. k - 1 \in 1..(P - 1) /\ (k - 1) + 1 = k
        BY <1>5, <3>2
      <4>2. path'[k] = path[k - 1] /\ path'[k + 1] = path[k]
        BY <1>5, <2>5, <3>2
      <4> QED
        BY <1>7, <4>1, <4>2
    <3> QED
      BY <1>5, <3>1, <3>2
  <2>9. ClimbInv'
    <3>1. at' \in DOMAIN links' /\ links'[at'].consumer = node' /\ links'[at'].provider = next
      BY <1>1, <1>2, <1>4 DEF ClimbInv
    <3>2. path' # <<>> /\ path'[Len(path')] = node'
      BY <1>1, <2>5, <2>7
    <3>3. \E x, y \in 1..Len(stack') : /\ Open(x)' /\ Open(y)' /\ x <= y
                                       /\ stack'[x] = links'[at'].provider /\ stack'[y] = path'[1]
      BY <1>1, <1>3, <1>8, <1>9, <2>1, <2>2, <2>7, <3>1
    <3> QED
      BY <2>8, <3>1, <3>2, <3>3 DEF ClimbInv
  <2> QED
    BY <1>3, <2>3, <2>6, <2>9 DEF LatInv
<1>13. CASE cur = next
  <2>1. path' = Append(path, next) /\ verdict' = "cycle"
    BY <1>1, <1>4, <1>6, <1>13
  <2>2. /\ path' \in Seq(LatNodes) /\ Len(path') = P + 1 /\ path'[P + 1] = next
        /\ \A k \in 1..P : path'[k] = path[k]
    BY <1>4, <1>5, <1>7, <2>1, AppendProperties
  <2>3. LatTypes'
    BY <1>1, <1>2, <1>3, <2>2 DEF LatTypes
  <2>4. PathLinked'
    <3> SUFFICES ASSUME NEW k \in 1..P PROVE IsLink(path'[k], path'[k + 1])
      BY <1>3, <1>5, <2>2 DEF PathLinked
    <3>1. CASE k = P
      BY <1>5, <1>7, <2>2, <3>1
    <3>2. CASE k # P
      <4>1. k \in 1..(P - 1) /\ k + 1 \in 1..P
        BY <1>5, <3>2
      <4> QED
        BY <1>7, <2>2, <4>1
    <3> QED
      BY <3>1, <3>2
  <2>5. CycleInv'
    <3>1. 1 \in 1..P /\ P + 1 > 1 /\ Len(<<>>) = 0
      BY <1>5
    <3>2. path'[1] = next /\ path'[Len(path')] = next /\ Len(path') > 1
      BY <1>6, <1>13, <2>2, <3>1
    <3>3. path' # <<>>
      BY <3>1, <3>2
    <3> QED
      BY <2>4, <3>2, <3>3 DEF CycleInv
  <2> QED
    BY <1>3, <2>1, <2>3, <2>5 DEF LatInv
<1> QED
  BY <1>12, <1>13

\* A requirement that is resolved has one provider, or the one that was chosen.
LEMMA ResolveRequireIs ==
  ASSUME NEW d, NEW o, NEW input, NEW cap
  PROVE  LET able == CollectProviders(d, cap) \ {input.name}
             out == ResolveRequire(d, o, input, cap)
         IN  /\ out.error \in {"none", "unsatisfied", "self-provided", "ambiguous", "bad-override"}
             /\ out.error = "none" =>
                  /\ out.provider \in able
                  /\ able = {out.provider} \/ (cap \in DOMAIN o /\ out.provider = o[cap])
<1>1. PICK able : able = CollectProviders(d, cap) \ {input.name}
  OBVIOUS
<1>2. PICK chosen : chosen = IF cap \in DOMAIN o THEN o[cap] ELSE NoNode
  OBVIOUS
<1>3. CASE able = {}
  BY <1>1, <1>3 DEF ResolveRequire
<1>4. CASE \E n \in able : able = {n}
  <2>1. ResolveRequire(d, o, input, cap) = [error |-> "none", provider |-> CHOOSE n \in able : TRUE]
    BY <1>1, <1>4 DEF ResolveRequire
  <2>2. able = {CHOOSE n \in able : TRUE}
    BY <1>4
  <2> QED
    BY <1>1, <2>1, <2>2
<1>5. CASE able # {} /\ ~ \E n \in able : able = {n}
  <2>1. chosen = NoNode => ResolveRequire(d, o, input, cap).error = "ambiguous"
    BY <1>1, <1>2, <1>5 DEF ResolveRequire
  <2>2. chosen # NoNode /\ chosen \notin able => ResolveRequire(d, o, input, cap).error = "bad-override"
    BY <1>1, <1>2, <1>5 DEF ResolveRequire
  <2>3. chosen # NoNode /\ chosen \in able =>
          ResolveRequire(d, o, input, cap) = [error |-> "none", provider |-> chosen]
    BY <1>1, <1>2, <1>5 DEF ResolveRequire
  <2> QED
    BY <1>1, <1>2, <2>1, <2>2, <2>3
<1> QED
  BY <1>3, <1>4, <1>5

\* The requirements are those of the inputs.
LEMMA RequirementsIs ==
  ASSUME LatTypes
  PROVE  /\ Len(Requirements(decls)) \in Nat /\ DOMAIN Requirements(decls) = 1..Len(Requirements(decls))
         /\ \A k \in DOMAIN Requirements(decls) : Requirements(decls)[k].input \in ToSet(decls)
         /\ \A i \in ToSet(decls) : \A cap \in ToSet(i.requires) :
              \E k \in DOMAIN Requirements(decls) :
                Requirements(decls)[k].input = i /\ Requirements(decls)[k].cap = cap
<1>1. PICK m \in Matchings : decls = m.inputs
  BY DEF LatTypes
<1>2. decls \in Seq(ToSet(decls)) /\ \A i \in ToSet(decls) : i.requires \in Seq(ToSet(i.requires))
  BY <1>1, LatticeAssumption
<1>3. DOMAIN decls = 1..Len(decls) /\ Len(decls) \in Nat /\ \A i \in DOMAIN decls : decls[i] \in ToSet(decls)
  BY <1>2, LenProperties DEF ToSet
<1>4. PICK S : S = [input : ToSet(decls), cap : UNION {ToSet(i.requires) : i \in ToSet(decls)}]
  OBVIOUS
<1>5. PICK ss : ss = [i \in DOMAIN decls |->
                       [k \in DOMAIN decls[i].requires |->
                         [input |-> decls[i], cap |-> decls[i].requires[k]]]]
  OBVIOUS
<1>6. ASSUME NEW i \in DOMAIN decls PROVE ss[i] \in Seq(S)
  <2>1. /\ decls[i].requires \in Seq(ToSet(decls[i].requires)) /\ Len(decls[i].requires) \in Nat
        /\ DOMAIN decls[i].requires = 1..Len(decls[i].requires)
    BY <1>2, <1>3, LenProperties
  <2>2. \A k \in DOMAIN decls[i].requires : decls[i].requires[k] \in UNION {ToSet(j.requires) : j \in ToSet(decls)}
    BY <1>3 DEF ToSet
  <2>3. ss[i] \in [1..Len(decls[i].requires) -> S]
    BY <1>3, <1>4, <1>5, <2>1, <2>2
  <2> QED
    BY <2>1, <2>3, IsASeq
<1>7. ss \in Seq(Seq(S))
  <2>1. ss \in [1..Len(decls) -> Seq(S)]
    BY <1>3, <1>5, <1>6
  <2> QED
    BY <1>3, <2>1, IsASeq
<1>8. PICK rs : rs = Requirements(decls)
  OBVIOUS
<1>9. rs = FlattenSeq(ss)
  BY <1>5, <1>8 DEF Requirements
<1>10. rs \in Seq(S) /\ \A x : Has(rs, x) <=> \E k \in DOMAIN ss : Has(ss[k], x)
  BY <1>7, <1>9, FlattenIs
<1>11. DOMAIN rs = 1..Len(rs) /\ Len(rs) \in Nat /\ \A k \in DOMAIN rs : rs[k] \in S
  BY <1>10, LenProperties, ElementOfSeq
<1>12. ASSUME NEW i \in ToSet(decls), NEW cap \in ToSet(i.requires)
       PROVE  \E k \in DOMAIN rs : rs[k].input = i /\ rs[k].cap = cap
  <2>1. PICK n \in DOMAIN decls : decls[n] = i
    BY DEF ToSet
  <2>2. PICK k \in DOMAIN i.requires : i.requires[k] = cap
    BY DEF ToSet
  <2>3. Has(ss[n], [input |-> i, cap |-> cap])
    BY <1>5, <2>1, <2>2 DEF Has
  <2>4. Has(rs, [input |-> i, cap |-> cap])
    BY <1>5, <1>10, <2>1, <2>3
  <2> QED
    BY <2>4 DEF Has
<1> QED
  BY <1>4, <1>8, <1>11, <1>12

\* resolveRequires binds every requirement before the search begins, or stops.
LEMMA ResolveRequiresKeeps ==
  ASSUME LatInv, ResolveRequires PROVE LatInv'
<1>1. PICK rs : rs = Requirements(decls)
  OBVIOUS
<1>2. PICK out : out = [k \in DOMAIN rs |-> ResolveRequire(decls, overrides, rs[k].input, rs[k].cap)]
  OBVIOUS
<1>3. PICK errors : errors = {k \in DOMAIN rs : out[k].error # "none"}
  OBVIOUS
<1>4. /\ verdict = "matching" /\ UNCHANGED <<decls, overrides, stack, visit, parent, node, at, path>>
      /\ \/ verdict' = "duplicate-input" /\ UNCHANGED links
         \/ /\ errors # {} /\ UNCHANGED links
            /\ verdict' = out[CHOOSE k \in errors : \A j \in errors : k <= j].error
         \/ /\ errors = {} /\ verdict' = "searching"
            /\ links' = [k \in DOMAIN rs |-> [consumer |-> rs[k].input.name,
                                              capability |-> rs[k].cap,
                                              provider |-> out[k].provider]]
  BY <1>1, <1>2, <1>3 DEF ResolveRequires
<1>5. /\ LatTypes /\ SearchInv /\ stack = <<>> /\ node = NoNode
      /\ \A n \in LatNodes : visit[n] = "unvisited" /\ parent[n] = NoNode
  BY <1>4 DEF LatInv
<1>6. /\ Len(rs) \in Nat /\ DOMAIN rs = 1..Len(rs)
      /\ \A k \in DOMAIN rs : rs[k].input \in ToSet(decls)
      /\ \A i \in ToSet(decls) : \A cap \in ToSet(i.requires) :
           \E k \in DOMAIN rs : rs[k].input = i /\ rs[k].cap = cap
  BY <1>1, <1>5, RequirementsIs
<1>7. ASSUME NEW k \in DOMAIN rs
      PROVE  /\ out[k].error \in {"none", "unsatisfied", "self-provided", "ambiguous", "bad-override"}
             /\ out[k].error = "none" =>
                  /\ out[k].provider \in CollectProviders(decls, rs[k].cap) \ {rs[k].input.name}
                  /\ \/ CollectProviders(decls, rs[k].cap) \ {rs[k].input.name} = {out[k].provider}
                     \/ rs[k].cap \in DOMAIN overrides /\ out[k].provider = overrides[rs[k].cap]
  BY <1>2, ResolveRequireIs
<1>8. CASE UNCHANGED links /\ verdict' \notin {"matching", "searching", "climbing", "cycle", "ok"}
  <2>1. LatTypes' /\ SearchInv'
    BY <1>4, <1>5, <1>8, SameSearch DEF LatTypes
  <2> QED
    BY <1>8, <2>1 DEF LatInv
<1>9. CASE errors # {} /\ UNCHANGED links /\ verdict' = out[CHOOSE k \in errors : \A j \in errors : k <= j].error
  <2>1. errors \subseteq DOMAIN rs /\ errors \subseteq Nat
    BY <1>3, <1>6
  <2>2. \E k \in errors : \A j \in errors : k <= j
    BY <1>9, <2>1, LeastOf
  <2>3. PICK k \in errors : verdict' = out[k].error
    BY <1>9, <2>2
  <2>4. out[k].error # "none" /\ k \in DOMAIN rs
    BY <1>3
  <2> QED
    BY <1>7, <1>8, <1>9, <2>3, <2>4
<1>10. CASE /\ errors = {} /\ verdict' = "searching"
            /\ links' = [k \in DOMAIN rs |-> [consumer |-> rs[k].input.name,
                                              capability |-> rs[k].cap,
                                              provider |-> out[k].provider]]
  <2>1. Len(links') = Len(rs) /\ DOMAIN links' = DOMAIN rs
    BY <1>6, <1>10
  <2>2. \A k \in DOMAIN rs : /\ links'[k].consumer = rs[k].input.name /\ links'[k].capability = rs[k].cap
                             /\ links'[k].provider = out[k].provider
    BY <1>10
  <2>3. \A k \in DOMAIN rs : out[k].error = "none"
    BY <1>3, <1>10
  <2>4. LatNodes' = LatNodes
    BY <1>4 DEF LatNodes
  <2>5. ASSUME NEW k \in DOMAIN links' PROVE links'[k].consumer \in LatNodes /\ links'[k].provider \in LatNodes
    <3>1. k \in DOMAIN rs /\ rs[k].input \in ToSet(decls)
      BY <1>6, <2>1
    <3>2. links'[k].consumer \in LatNodes
      BY <2>2, <3>1 DEF LatNodes, Nodes, ToSet
    <3>3. out[k].provider \in CollectProviders(decls, rs[k].cap)
      BY <1>7, <2>3, <3>1
    <3>4. out[k].provider \in LatNodes
      BY <3>3 DEF CollectProviders, LatNodes, Nodes
    <3> QED
      BY <2>2, <3>1, <3>2, <3>4
  <2>6. LatTypes'
    BY <1>4, <1>5, <1>6, <2>1, <2>4, <2>5 DEF LatTypes
  <2>7. Len(stack') = 0 /\ 1..Len(stack') = {}
    BY <1>4, <1>5
  <2>8. /\ \A n \in LatNodes' : visit'[n] = "unvisited" /\ parent'[n] = NoNode
        /\ node' = NoNode /\ DoneNodes' = {}
    BY <1>4, <1>5, <2>4 DEF DoneNodes
  <2>9. OnStack' /\ Descends' /\ Parented' /\ ParentLinks' /\ Covered' /\ NodeOpen'
    BY <2>7, <2>8 DEF OnStack, Descends, Parented, ParentLinks, Covered, NodeOpen
  <2>10. DoneOrdered'
    <3>1. [n \in LatNodes' |-> 0] \in [LatNodes' -> Nat]
      OBVIOUS
    <3> QED
      BY <2>8, <3>1 DEF DoneOrdered
  <2>11. Met'
    <3> SUFFICES ASSUME NEW i \in ToSet(decls), NEW cap \in ToSet(i.requires)
                 PROVE  \E k \in DOMAIN links' :
                          /\ links'[k].consumer = i.name /\ links'[k].capability = cap
                          /\ links'[k].provider \in CollectProviders(decls, cap) \ {i.name}
                          /\ \/ CollectProviders(decls, cap) \ {i.name} = {links'[k].provider}
                             \/ cap \in DOMAIN overrides /\ links'[k].provider = overrides[cap]
      BY <1>4 DEF Met
    <3>1. PICK k \in DOMAIN rs : rs[k].input = i /\ rs[k].cap = cap
      BY <1>6
    <3> QED
      BY <1>7, <2>1, <2>2, <2>3, <3>1
  <2> QED
    BY <1>10, <2>6, <2>9, <2>10, <2>11 DEF LatInv, SearchInv
<1> QED
  BY <1>4, <1>8, <1>9, <1>10

\* The search keeps what it knows of its stack: the state of the matchmaker,
\* whatever the inputs provide and require.
THEOREM LatInvariant == LatSpec => []LatInv
<1>1. LatInit => LatInv
  BY LatInitOK
<1>2. LatInv /\ [LatNext]_latVars => LatInv'
  <2> SUFFICES ASSUME LatInv, [LatNext]_latVars PROVE LatInv'
    OBVIOUS
  <2>1. CASE LatNext
    BY <2>1, ResolveRequiresKeeps, StartKeeps, VisitKeeps, EdgeKeeps, EdgesEndKeeps, PopKeeps, WalkKeeps
       DEF LatNext
  <2>2. CASE UNCHANGED latVars
    <3>1. UNCHANGED <<decls, overrides, links, stack, visit, parent, node, at, path, verdict>>
      BY <2>2 DEF latVars
    <3>2. /\ SearchInv' <=> SearchInv
          /\ Met' <=> Met
          /\ \A i : Open(i)' <=> Open(i)
          /\ \A m, n : IsLink(m, n)' <=> IsLink(m, n)
          /\ \A r : Respects(r)' <=> Respects(r)
          /\ LatNodes' = LatNodes /\ Ranks' = Ranks /\ DoneNodes' = DoneNodes
      BY <3>1, SameSearch, SameLinks
    <3>3. LatTypes' <=> LatTypes
      BY <3>1, <3>2 DEF LatTypes
    <3>4. (Covered' <=> Covered) /\ (NodeOpen' <=> NodeOpen)
      BY <3>1, <3>2 DEF Covered, Covers, NodeOpen
    <3>5. PathLinked' <=> PathLinked
      BY <3>1, <3>2 DEF PathLinked
    <3>6. (ClimbInv' <=> ClimbInv) /\ (CycleInv' <=> CycleInv)
      BY <3>1, <3>2, <3>5 DEF ClimbInv, CycleInv
    <3> QED
      BY <3>1, <3>2, <3>3, <3>4, <3>6 DEF LatInv
  <2> QED
    BY <2>1, <2>2
<1> QED
  BY <1>1, <1>2, PTL DEF LatSpec

\* resolveLattice reports a cycle when and only when there is no order to start
\* the inputs in, the cycle it names is one, and what it links is provided.
THEOREM LatticeOrderHolds == LatSpec => []OrderHolds
<1>1. ASSUME LatInv PROVE OrderHolds
  <2>1. LatTypes /\ SearchInv
    BY <1>1 DEF LatInv
  <2>2. DOMAIN links = 1..Len(links) /\ \A k \in DOMAIN links : links[k].consumer \in LatNodes
    BY <2>1 DEF LatTypes
  <2>3. CycleIffNoOrder
    <3>1. PICK N \in Nat : N = Cardinality(LatNodes) /\ N >= 1
      BY <2>1, NodesFinite
    <3>2. \A r \in Ranks : Respects(r) <=> \A l \in ToSet(links) : r[l.provider] < r[l.consumer]
      BY DEF Respects, ToSet
    <3>3. verdict = "cycle" => \A r \in Ranks : ~ Respects(r)
      BY <1>1 DEF LatInv
    <3>4. ASSUME verdict = "ok" PROVE \E q \in Ranks : Respects(q)
      <4>1. \A k \in DOMAIN links : links[k].consumer \in DoneNodes
        BY <1>1, <3>4 DEF LatInv
      <4>2. PICK r \in [LatNodes -> Nat] :
              /\ \A n \in DoneNodes : r[n] \in 1..Cardinality(DoneNodes)
              /\ \A k \in DOMAIN links : links[k].consumer \in DoneNodes =>
                   links[k].provider \in DoneNodes /\ r[links[k].provider] < r[links[k].consumer]
        BY <2>1 DEF SearchInv, DoneOrdered
      <4>3. DoneNodes \subseteq LatNodes /\ IsFiniteSet(LatNodes)
        BY <2>1, NodesFinite DEF DoneNodes
      <4>4. Cardinality(DoneNodes) \in Nat /\ Cardinality(DoneNodes) <= N
        BY <3>1, <4>3, FS_Subset, FS_CardinalityType
      <4>5. PICK q : q = [n \in LatNodes |-> IF n \in DoneNodes THEN r[n] ELSE 1]
        OBVIOUS
      <4>6. \A n \in DoneNodes : r[n] \in 1..N
        BY <3>1, <4>2, <4>4
      <4>7. q \in Ranks
        BY <3>1, <4>5, <4>6 DEF Ranks
      <4>8. Respects(q)
        BY <4>1, <4>2, <4>3, <4>5 DEF Respects
      <4> QED
        BY <4>7, <4>8
    <3> QED
      BY <3>2, <3>3, <3>4 DEF CycleIffNoOrder, Ranks, LatNodes
  <2>4. ReportedCycleIsReal
    <3> SUFFICES ASSUME verdict = "cycle"
                 PROVE  /\ path[1] = Last(path) /\ Len(path) > 1
                        /\ \A k \in 1..(Len(path) - 1) :
                             \E l \in ToSet(links) : l.consumer = path[k] /\ l.provider = path[k + 1]
      BY DEF ReportedCycleIsReal
    <3>1. path[1] = path[Len(path)] /\ Len(path) > 1 /\ PathLinked
      BY <1>1 DEF LatInv, CycleInv
    <3>2. \A k \in 1..(Len(path) - 1) : \E l \in ToSet(links) : l.consumer = path[k] /\ l.provider = path[k + 1]
      BY <3>1 DEF PathLinked, IsLink, ToSet
    <3> QED
      BY <3>1, <3>2 DEF Last
  <2>5. RequirementsAreMet
    <3>1. verdict = "ok" => Met
      BY <1>1 DEF LatInv
    <3>2. \A k \in DOMAIN links : links[k] \in ToSet(links)
      BY DEF ToSet
    <3> QED
      BY <3>1, <3>2 DEF RequirementsAreMet, Met
  <2> QED
    BY <2>3, <2>4, <2>5 DEF OrderHolds
<1> QED
  BY <1>1, LatInvariant, PTL

-----------------------------------------------------------------------------
(***************************************************************************)
(* Declarations.  Edits keep their shape, and what is accepted of a shape  *)
(* has what the parts of DeclarationsHold need: every name of a bundle, of *)
(* a wire and of a service means one thing.                                *)
(***************************************************************************)
DeployInv ==
  /\ WellFormed(cluster)
  /\ deployed # None => /\ WellFormed(deployed.cluster) /\ Accepted(deployed.cluster)
                        /\ deployed.containers = EmitCompose(deployed.cluster)

\* A list and its places.
LEMMA ListIs ==
  ASSUME NEW T, NEW s, IsList(s, T)
  PROVE  /\ s \in Seq(ToSet(s)) /\ Len(s) \in Nat /\ DOMAIN s = 1..Len(s)
         /\ \A i \in DOMAIN s : s[i] \in ToSet(s) /\ IsRecord(s[i], T)
<1>1. s \in Seq(ToSet(s)) /\ \A r \in ToSet(s) : IsRecord(r, T)
  BY DEF IsList
<1>2. Len(s) \in Nat /\ DOMAIN s = 1..Len(s)
  BY <1>1, LenProperties
<1>3. \A i \in DOMAIN s : s[i] \in ToSet(s)
  BY DEF ToSet
<1> QED
  BY <1>1, <1>2, <1>3

\* A list over some records is one of records.
LEMMA ListOf ==
  ASSUME NEW T, NEW S, NEW s \in Seq(S), \A r \in S : IsRecord(r, T)
  PROVE  IsList(s, T)
<1>1. Len(s) \in Nat /\ DOMAIN s = 1..Len(s) /\ \A i \in 1..Len(s) : s[i] \in S
  BY LenProperties, ElementOfSeq
<1>2. \A i \in 1..Len(s) : s[i] \in ToSet(s)
  BY <1>1 DEF ToSet
<1>3. s \in Seq(ToSet(s))
  <2>1. s = [i \in 1..Len(s) |-> s[i]]
    BY <1>1
  <2> QED
    BY <1>1, <1>2, <2>1
<1>4. ToSet(s) \subseteq S
  BY <1>1 DEF ToSet
<1> QED
  BY <1>3, <1>4 DEF IsList

\* A changed record is a record.
LEMMA ChangedRecord ==
  ASSUME NEW T, NEW r, IsRecord(r, T), NEW e, IsChange(e, T)
  PROVE  IsRecord(Changed(r, e), T)
BY DEF IsRecord, IsChange, Changed

\* A list with one record changed, or without one, is a list.
LEMMA ChangedList ==
  ASSUME NEW T, NEW s, IsList(s, T), NEW i \in DOMAIN s, NEW e, IsChange(e, T)
  PROVE  IsList([s EXCEPT ![i] = Changed(s[i], e)], T)
<1>1. /\ s \in Seq(ToSet(s)) /\ Len(s) \in Nat /\ DOMAIN s = 1..Len(s)
      /\ \A j \in DOMAIN s : s[j] \in ToSet(s) /\ IsRecord(s[j], T)
  BY ListIs
<1>2. PICK S : S = ToSet(s) \cup {Changed(s[i], e)}
  OBVIOUS
<1>3. \A r \in S : IsRecord(r, T)
  BY <1>1, <1>2, ChangedRecord DEF IsList
<1>4. PICK q : q = [s EXCEPT ![i] = Changed(s[i], e)]
  OBVIOUS
<1>5. q = [j \in 1..Len(s) |-> q[j]] /\ \A j \in 1..Len(s) : q[j] \in S
  BY <1>1, <1>2, <1>4
<1>6. q \in Seq(S)
  BY <1>1, <1>5
<1> QED
  BY <1>3, <1>4, <1>6, ListOf

LEMMA RemovedSeq ==
  ASSUME NEW S, NEW s \in Seq(S), NEW i \in DOMAIN s
  PROVE  RemoveAt(s, i) \in Seq(S)
<1>1. Len(s) \in Nat /\ i \in 1..Len(s) /\ \A j \in 1..Len(s) : s[j] \in S
  BY LenProperties, ElementOfSeq
<1>2. SubSeq(s, 1, i - 1) \in Seq(S)
  <2>1. 1 \in Int /\ i - 1 \in Int /\ \A j \in 1..(i - 1) : s[j] \in S
    BY <1>1
  <2> QED
    BY <2>1, SubSeqProperties
<1>3. SubSeq(s, i + 1, Len(s)) \in Seq(S)
  <2>1. i + 1 \in Int /\ Len(s) \in Int /\ \A j \in (i + 1)..Len(s) : s[j] \in S
    BY <1>1
  <2> QED
    BY <2>1, SubSeqProperties
<1> QED
  BY <1>2, <1>3, ConcatProperties DEF RemoveAt

LEMMA RemovedList ==
  ASSUME NEW T, NEW s, IsList(s, T), NEW i \in DOMAIN s
  PROVE  IsList(RemoveAt(s, i), T)
<1>1. s \in Seq(ToSet(s)) /\ \A r \in ToSet(s) : IsRecord(r, T)
  BY DEF IsList
<1> QED
  BY <1>1, RemovedSeq, ListOf

\* A cluster keeps its shape when one of its parts is replaced by a like one.
LEMMA PartReplaced ==
  ASSUME NEW c, WellFormed(c), NEW f \in DOMAIN c, NEW v, NEW d, d = [c EXCEPT ![f] = v],
         f = "bundles" => IsList(v, BundleFields), f = "wires" => IsList(v, WireFields),
         f = "inputs" => IsList(v, InputFields), f = "services" => IsList(v, ServiceFields),
         f = "tables" => v \in Seq(ToSet(v)) /\ \A t \in ToSet(v) : IsList(t, RowFields),
         f \in {"oci", "ociBundles"} => v \in [ClusterNames -> ImageRefs]
  PROVE  WellFormed(d)
<1>1. DOMAIN d = DOMAIN c /\ \A g \in DOMAIN c : d[g] = IF g = f THEN v ELSE c[g]
  OBVIOUS
<1>2. DOMAIN c = {"bundles", "wires", "inputs", "tables", "services", "oci", "ociBundles"}
  BY DEF WellFormed
<1>3. /\ d.bundles = IF f = "bundles" THEN v ELSE c.bundles
      /\ d.wires = IF f = "wires" THEN v ELSE c.wires
      /\ d.inputs = IF f = "inputs" THEN v ELSE c.inputs
      /\ d.tables = IF f = "tables" THEN v ELSE c.tables
      /\ d.services = IF f = "services" THEN v ELSE c.services
      /\ d.oci = IF f = "oci" THEN v ELSE c.oci
      /\ d.ociBundles = IF f = "ociBundles" THEN v ELSE c.ociBundles
  BY <1>1, <1>2
<1>4. IsList(d.bundles, BundleFields) /\ IsList(d.wires, WireFields)
  BY <1>3 DEF WellFormed
<1>5. IsList(d.inputs, InputFields) /\ IsList(d.services, ServiceFields)
  BY <1>3 DEF WellFormed
<1>6. d.tables \in Seq(ToSet(d.tables)) /\ \A t \in ToSet(d.tables) : IsList(t, RowFields)
  BY <1>3 DEF WellFormed
<1>7. d.oci \in [ClusterNames -> ImageRefs] /\ d.ociBundles \in [ClusterNames -> ImageRefs]
  BY <1>3 DEF WellFormed
<1> QED
  BY <1>1, <1>2, <1>4, <1>5, <1>6, <1>7 DEF WellFormed

\* Every edit keeps the shape.
LEMMA EditsKeep ==
  ASSUME WellFormed(cluster),
         ChangeBundle \/ ChangeWire \/ ChangeInput \/ ChangeRow \/ ChangeService \/ ChangeRest
  PROVE  WellFormed(cluster') /\ deployed' = deployed
<1>1. /\ DOMAIN cluster = {"bundles", "wires", "inputs", "tables", "services", "oci", "ociBundles"}
      /\ IsList(cluster.bundles, BundleFields) /\ IsList(cluster.wires, WireFields)
      /\ IsList(cluster.inputs, InputFields) /\ IsList(cluster.services, ServiceFields)
      /\ cluster.tables \in Seq(ToSet(cluster.tables))
      /\ \A t \in ToSet(cluster.tables) : IsList(t, RowFields)
      /\ cluster.oci \in [ClusterNames -> ImageRefs] /\ cluster.ociBundles \in [ClusterNames -> ImageRefs]
  BY DEF WellFormed
<1>2. deployed' = deployed
  BY DEF ChangeBundle, ChangeWire, ChangeInput, ChangeRow, ChangeService, ChangeRest, Edit
<1>3. ASSUME ChangeBundle PROVE WellFormed(cluster')
  <2>1. PICK i \in DOMAIN cluster.bundles, e \in BundleChanges :
          cluster' = [cluster EXCEPT !.bundles = [cluster.bundles EXCEPT ![i] = Changed(cluster.bundles[i], e)]]
    BY <1>3 DEF ChangeBundle
  <2>2. PICK v : v = [cluster.bundles EXCEPT ![i] = Changed(cluster.bundles[i], e)]
    OBVIOUS
  <2>3. IsList(v, BundleFields)
    BY <1>1, <2>2, ChangedList, ComposeAssumption
  <2>4. cluster' = [cluster EXCEPT !["bundles"] = v] /\ "bundles" \in DOMAIN cluster
    BY <1>1, <2>1, <2>2
  <2> QED
    BY <2>3, <2>4, PartReplaced
<1>4. ASSUME ChangeWire PROVE WellFormed(cluster')
  <2>1. PICK i \in DOMAIN cluster.wires, e \in WireChanges :
          cluster' = [cluster EXCEPT !.wires = [cluster.wires EXCEPT ![i] = Changed(cluster.wires[i], e)]]
    BY <1>4 DEF ChangeWire
  <2>2. PICK v : v = [cluster.wires EXCEPT ![i] = Changed(cluster.wires[i], e)]
    OBVIOUS
  <2>3. IsList(v, WireFields)
    BY <1>1, <2>2, ChangedList, ComposeAssumption
  <2>4. cluster' = [cluster EXCEPT !["wires"] = v] /\ "wires" \in DOMAIN cluster
    BY <1>1, <2>1, <2>2
  <2> QED
    BY <2>3, <2>4, PartReplaced
<1>5. ASSUME ChangeInput PROVE WellFormed(cluster')
  <2>1. PICK i \in DOMAIN cluster.inputs, e \in InputChanges :
          cluster' = [cluster EXCEPT !.inputs = [cluster.inputs EXCEPT ![i] = Changed(cluster.inputs[i], e)]]
    BY <1>5 DEF ChangeInput
  <2>2. PICK v : v = [cluster.inputs EXCEPT ![i] = Changed(cluster.inputs[i], e)]
    OBVIOUS
  <2>3. IsList(v, InputFields)
    BY <1>1, <2>2, ChangedList, ComposeAssumption
  <2>4. cluster' = [cluster EXCEPT !["inputs"] = v] /\ "inputs" \in DOMAIN cluster
    BY <1>1, <2>1, <2>2
  <2> QED
    BY <2>3, <2>4, PartReplaced
<1>6. ASSUME ChangeService PROVE WellFormed(cluster')
  <2>1. PICK i \in DOMAIN cluster.services, e \in ServiceChanges :
          cluster' = [cluster EXCEPT !.services = [cluster.services EXCEPT ![i] = Changed(cluster.services[i], e)]]
    BY <1>6 DEF ChangeService
  <2>2. PICK v : v = [cluster.services EXCEPT ![i] = Changed(cluster.services[i], e)]
    OBVIOUS
  <2>3. IsList(v, ServiceFields)
    BY <1>1, <2>2, ChangedList, ComposeAssumption
  <2>4. cluster' = [cluster EXCEPT !["services"] = v] /\ "services" \in DOMAIN cluster
    BY <1>1, <2>1, <2>2
  <2> QED
    BY <2>3, <2>4, PartReplaced
<1>7. ASSUME ChangeRow PROVE WellFormed(cluster')
  <2>1. PICK t \in DOMAIN cluster.tables : \E i \in DOMAIN cluster.tables[t] :
          \/ \E e \in RowChanges :
               cluster' = [cluster EXCEPT !.tables = [cluster.tables EXCEPT ![t] =
                             [cluster.tables[t] EXCEPT ![i] = Changed(cluster.tables[t][i], e)]]]
          \/ cluster' = [cluster EXCEPT !.tables = [cluster.tables EXCEPT ![t] = RemoveAt(cluster.tables[t], i)]]
    BY <1>7 DEF ChangeRow
  <2>2. IsList(cluster.tables[t], RowFields)
    BY <1>1, <2>1 DEF ToSet
  <2>3. PICK u : /\ cluster' = [cluster EXCEPT !.tables = [cluster.tables EXCEPT ![t] = u]]
                 /\ IsList(u, RowFields)
    <3>1. PICK i \in DOMAIN cluster.tables[t] :
            \/ \E e \in RowChanges :
                 cluster' = [cluster EXCEPT !.tables = [cluster.tables EXCEPT ![t] =
                               [cluster.tables[t] EXCEPT ![i] = Changed(cluster.tables[t][i], e)]]]
            \/ cluster' = [cluster EXCEPT !.tables = [cluster.tables EXCEPT ![t] = RemoveAt(cluster.tables[t], i)]]
      BY <2>1
    <3>2. IsList(RemoveAt(cluster.tables[t], i), RowFields)
      BY <2>2, RemovedList
    <3>3. \A e \in RowChanges :
            IsList([cluster.tables[t] EXCEPT ![i] = Changed(cluster.tables[t][i], e)], RowFields)
      BY <2>2, ChangedList, ComposeAssumption
    <3> QED
      BY <3>1, <3>2, <3>3
  <2>4. PICK v : v = [cluster.tables EXCEPT ![t] = u]
    OBVIOUS
  <2>5. v \in Seq(ToSet(v)) /\ \A x \in ToSet(v) : IsList(x, RowFields)
    <3>1. Len(cluster.tables) \in Nat /\ DOMAIN cluster.tables = 1..Len(cluster.tables)
      BY <1>1, LenProperties
    <3>2. DOMAIN v = 1..Len(cluster.tables) /\ v = [j \in 1..Len(cluster.tables) |-> v[j]]
      BY <2>4, <3>1
    <3>3. \A j \in 1..Len(cluster.tables) : v[j] \in ToSet(v)
      BY <3>2 DEF ToSet
    <3>4. v \in Seq(ToSet(v))
      BY <3>1, <3>2, <3>3
    <3>5. \A j \in 1..Len(cluster.tables) : v[j] = u \/ v[j] \in ToSet(cluster.tables)
      BY <2>4, <3>1 DEF ToSet
    <3>6. \A x \in ToSet(v) : IsList(x, RowFields)
      BY <1>1, <2>3, <3>2, <3>5 DEF ToSet
    <3> QED
      BY <3>4, <3>6
  <2>6. cluster' = [cluster EXCEPT !["tables"] = v] /\ "tables" \in DOMAIN cluster
    BY <1>1, <2>3, <2>4
  <2> QED
    BY <2>5, <2>6, PartReplaced
<1>8. ASSUME ChangeRest PROVE WellFormed(cluster')
  <2>1. \/ \E i \in DOMAIN cluster.inputs : cluster' = [cluster EXCEPT !.inputs = RemoveAt(cluster.inputs, i)]
        \/ cluster' = [cluster EXCEPT !.tables = <<>>]
        \/ \E n \in ClusterNames, e \in OciChanges :
             \/ cluster' = [cluster EXCEPT !.oci = [cluster.oci EXCEPT ![n] = e]]
             \/ cluster' = [cluster EXCEPT !.ociBundles = [cluster.ociBundles EXCEPT ![n] = e]]
    BY <1>8 DEF ChangeRest
  <2>2. ASSUME NEW i \in DOMAIN cluster.inputs, cluster' = [cluster EXCEPT !.inputs = RemoveAt(cluster.inputs, i)]
        PROVE  WellFormed(cluster')
    <3>1. IsList(RemoveAt(cluster.inputs, i), InputFields)
      BY <1>1, RemovedList
    <3>2. cluster' = [cluster EXCEPT !["inputs"] = RemoveAt(cluster.inputs, i)] /\ "inputs" \in DOMAIN cluster
      BY <1>1, <2>2
    <3> QED
      BY <3>1, <3>2, PartReplaced
  <2>3. ASSUME cluster' = [cluster EXCEPT !.tables = <<>>] PROVE WellFormed(cluster')
    <3>1. PICK v : v = <<>>
      OBVIOUS
    <3>2. v \in Seq(ToSet(v)) /\ \A x \in ToSet(v) : IsList(x, RowFields)
      BY <3>1 DEF ToSet
    <3>3. cluster' = [cluster EXCEPT !["tables"] = v] /\ "tables" \in DOMAIN cluster
      BY <1>1, <2>3, <3>1
    <3> QED
      BY <3>2, <3>3, PartReplaced
  <2>4. ASSUME NEW n \in ClusterNames, NEW e \in OciChanges,
               \/ cluster' = [cluster EXCEPT !.oci = [cluster.oci EXCEPT ![n] = e]]
               \/ cluster' = [cluster EXCEPT !.ociBundles = [cluster.ociBundles EXCEPT ![n] = e]]
        PROVE  WellFormed(cluster')
    <3>1. e \in ImageRefs
      BY ComposeAssumption
    <3>2. PICK v, w : v = [cluster.oci EXCEPT ![n] = e] /\ w = [cluster.ociBundles EXCEPT ![n] = e]
      OBVIOUS
    <3>3. v \in [ClusterNames -> ImageRefs] /\ w \in [ClusterNames -> ImageRefs]
      BY <1>1, <3>1, <3>2
    <3>4. \/ cluster' = [cluster EXCEPT !["oci"] = v]
          \/ cluster' = [cluster EXCEPT !["ociBundles"] = w]
      BY <2>4, <3>2
    <3>5. "oci" \in DOMAIN cluster /\ "ociBundles" \in DOMAIN cluster
      BY <1>1
    <3>6. CASE cluster' = [cluster EXCEPT !["oci"] = v]
      BY <3>3, <3>5, <3>6, PartReplaced
    <3>7. CASE cluster' = [cluster EXCEPT !["ociBundles"] = w]
      BY <3>3, <3>5, <3>7, PartReplaced
    <3> QED
      BY <3>4, <3>6, <3>7
  <2> QED
    BY <2>1, <2>2, <2>3, <2>4
<1> QED
  BY <1>2, <1>3, <1>4, <1>5, <1>6, <1>7, <1>8

\* The invariant of an operator's work: edits keep the shape of declarations,
\* and what is deployed was accepted and is what emit-compose makes of it.
THEOREM DeployInvariant == TopoSpec => []DeployInv
<1>1. TopoInit => DeployInv
  BY ComposeAssumption DEF TopoInit, DeployInv
<1>2. DeployInv /\ [TopoNext]_topoVars => DeployInv'
  <2> SUFFICES ASSUME DeployInv, [TopoNext]_topoVars PROVE DeployInv'
    OBVIOUS
  <2>1. WellFormed(cluster)
    BY DEF DeployInv
  <2>2. CASE ChangeBundle \/ ChangeWire \/ ChangeInput \/ ChangeRow \/ ChangeService \/ ChangeRest
    BY <2>1, <2>2, EditsKeep DEF DeployInv
  <2>3. CASE Deploy
    BY <2>1, <2>3 DEF Deploy, DeployInv
  <2>4. CASE UNCHANGED topoVars
    BY <2>4 DEF DeployInv, topoVars
  <2> QED
    BY <2>2, <2>3, <2>4 DEF TopoNext
<1> QED
  BY <1>1, <1>2, PTL DEF TopoSpec

\* In an accepted cluster the name of a bundle means that bundle, and a binding
\* the bundle that its only wire goes to.
LEMMA NamesMean ==
  ASSUME NEW c, WellFormed(c), Accepted(c)
  PROVE  /\ \A b \in ToSet(c.bundles) :
              BundleOf(c, b.name) = b /\ b.name \in BundleNames(c) /\ b.name # Absent
         /\ \A n \in BundleNames(c) : BundleOf(c, n) \in ToSet(c.bundles) /\ BundleOf(c, n).name = n
         /\ \A w \in ToSet(c.wires) : BindingToBundle(c, w.binding) = w.to /\ w.to \in BundleNames(c)
<1>1. /\ Len(c.bundles) \in Nat /\ DOMAIN c.bundles = 1..Len(c.bundles)
      /\ Len(c.wires) \in Nat /\ DOMAIN c.wires = 1..Len(c.wires)
  BY ListIs DEF WellFormed
<1>2. /\ \A i, j \in DOMAIN c.bundles : i < j => c.bundles[i].name # c.bundles[j].name
      /\ \A i, j \in DOMAIN c.wires : i < j => c.wires[i].binding # c.wires[j].binding
      /\ \A w \in ToSet(c.wires) : w.to \in BundleNames(c)
      /\ \A b \in ToSet(c.bundles) : b.name # Absent
  BY DEF Accepted, ParseTomlToCluster, FirstDuplicate, ValidateCluster
<1>3. \A i, j \in DOMAIN c.bundles : c.bundles[i].name = c.bundles[j].name => i = j
  BY <1>1, <1>2
<1>4. \A i, j \in DOMAIN c.wires : c.wires[i].binding = c.wires[j].binding => i = j
  BY <1>1, <1>2
<1>5. ASSUME NEW i \in DOMAIN c.bundles
      PROVE  BundleOf(c, c.bundles[i].name) = c.bundles[i] /\ c.bundles[i].name \in BundleNames(c)
  <2>1. (CHOOSE j \in DOMAIN c.bundles : c.bundles[j].name = c.bundles[i].name) = i
    BY <1>3
  <2> QED
    BY <2>1 DEF BundleOf, BundleNames
<1>6. \A b \in ToSet(c.bundles) : BundleOf(c, b.name) = b /\ b.name \in BundleNames(c)
  BY <1>5 DEF ToSet
<1>7. \A n \in BundleNames(c) : BundleOf(c, n) \in ToSet(c.bundles) /\ BundleOf(c, n).name = n
  BY <1>5 DEF BundleNames, ToSet
<1>8. ASSUME NEW w \in ToSet(c.wires) PROVE BindingToBundle(c, w.binding) = w.to
  <2>1. PICK of : of = {x \in ToSet(c.wires) : x.binding = w.binding}
    OBVIOUS
  <2>2. \A x \in of : x = w
    BY <1>4, <2>1 DEF ToSet
  <2>3. w \in of /\ (CHOOSE x \in of : TRUE) = w
    BY <2>1, <2>2
  <2> QED
    BY <2>1, <2>3 DEF BindingToBundle
<1> QED
  BY <1>2, <1>6, <1>7, <1>8

\* The rows of all tables.
LEMMA RowsAre ==
  ASSUME NEW c, WellFormed(c), Accepted(c)
  PROVE  /\ \A k \in DOMAIN Rows(c) : /\ Rows(c)[k].name \in ClusterNames /\ Rows(c)[k].name # Absent
                                      /\ Rows(c)[k] \in ToSet(Rows(c))
         /\ \A t \in ToSet(c.tables) : \A i \in DOMAIN t : \E k \in DOMAIN Rows(c) : Rows(c)[k] = t[i]
<1>1. PICK S : S = UNION {ToSet(t) : t \in ToSet(c.tables)}
  OBVIOUS
<1>2. /\ c.tables \in Seq(ToSet(c.tables)) /\ \A t \in ToSet(c.tables) : IsList(t, RowFields)
      /\ Len(c.tables) \in Nat /\ DOMAIN c.tables = 1..Len(c.tables)
      /\ \A i \in DOMAIN c.tables : c.tables[i] \in ToSet(c.tables)
  BY LenProperties DEF WellFormed, ToSet
<1>3. ASSUME NEW t \in ToSet(c.tables) PROVE t \in Seq(S)
  <2>1. t \in Seq(ToSet(t)) /\ Len(t) \in Nat /\ DOMAIN t = 1..Len(t) /\ \A i \in DOMAIN t : t[i] \in ToSet(t)
    BY <1>2, ListIs
  <2>2. \A i \in 1..Len(t) : t[i] \in S
    BY <1>1, <2>1
  <2>3. t = [i \in 1..Len(t) |-> t[i]]
    BY <2>1
  <2> QED
    BY <2>1, <2>2, <2>3
<1>4. c.tables \in Seq(Seq(S))
  <2>1. c.tables = [i \in 1..Len(c.tables) |-> c.tables[i]] /\ \A i \in 1..Len(c.tables) : c.tables[i] \in Seq(S)
    BY <1>2, <1>3
  <2> QED
    BY <1>2, <2>1
<1>5. PICK rs : rs = Rows(c)
  OBVIOUS
<1>6. rs \in Seq(S) /\ \A x : Has(rs, x) <=> \E k \in DOMAIN c.tables : Has(c.tables[k], x)
  BY <1>4, <1>5, FlattenIs DEF Rows
<1>7. ASSUME NEW k \in DOMAIN rs
      PROVE  rs[k].name \in ClusterNames /\ rs[k].name # Absent /\ rs[k] \in ToSet(rs)
  <2>1. Has(rs, rs[k]) /\ rs[k] \in ToSet(rs)
    BY DEF Has, ToSet
  <2>2. PICK n \in DOMAIN c.tables : Has(c.tables[n], rs[k])
    BY <1>6, <2>1
  <2>3. PICK i \in DOMAIN c.tables[n] : c.tables[n][i] = rs[k]
    BY <2>2 DEF Has
  <2>4. IsRecord(rs[k], RowFields)
    BY <1>2, <2>3, ListIs
  <2>5. rs[k].name \in ClusterNames
    BY <2>4 DEF IsRecord, RowFields
  <2>6. rs[k].name # Absent
    BY <2>3 DEF Accepted, CompileDispatchTable
  <2> QED
    BY <2>1, <2>5, <2>6
<1>8. ASSUME NEW t \in ToSet(c.tables), NEW i \in DOMAIN t PROVE \E k \in DOMAIN rs : rs[k] = t[i]
  <2>1. PICK n \in DOMAIN c.tables : c.tables[n] = t
    BY DEF ToSet
  <2>2. Has(c.tables[n], t[i])
    BY <2>1 DEF Has
  <2> QED
    BY <1>6, <2>2 DEF Has
<1> QED
  BY <1>5, <1>7, <1>8

\* Where containers come from.
LEMMA ContainersAre ==
  ASSUME NEW c, NEW k \in EmitCompose(c)
  PROVE  \E b \in ToSet(c.bundles) :
           /\ b.external /\ k.bundle = b.name /\ k.image = ResolveBundleImage(c, b) /\ k.env = Env(c, b)
           /\ k.tenant # Absent =>
                /\ b.perTenant /\ \E row \in PerTenantInstancesFor(c, b.name) : k.tenant = row.name
                /\ b.socket # NoSocket => k.socket = PerTenantSocketPath(b.socket, k.tenant)
<1>1. PICK b \in ToSet(c.bundles) : k \in ContainersOf(c, b)
  BY DEF EmitCompose
<1>2. ASSUME NEW tenant, k = BundleContainer(c, b, tenant)
      PROVE  /\ k.bundle = b.name /\ k.image = ResolveBundleImage(c, b) /\ k.env = Env(c, b) /\ k.tenant = tenant
             /\ tenant # Absent /\ b.socket # NoSocket => k.socket = PerTenantSocketPath(b.socket, tenant)
  BY <1>2 DEF BundleContainer
<1>3. PICK tenants : tenants = IF b.perTenant THEN PerTenantInstancesFor(c, b.name) ELSE {}
  OBVIOUS
<1>4. /\ b.external
      /\ \/ k = BundleContainer(c, b, Absent)
         \/ \E row \in tenants : k = BundleContainer(c, b, row.name)
  BY <1>1, <1>3 DEF ContainersOf
<1>5. CASE k = BundleContainer(c, b, Absent)
  BY <1>2, <1>4, <1>5
<1>6. CASE \E row \in tenants : k = BundleContainer(c, b, row.name)
  <2>1. PICK row \in tenants : k = BundleContainer(c, b, row.name)
    BY <1>6
  <2>2. b.perTenant /\ row \in PerTenantInstancesFor(c, b.name)
    BY <1>3
  <2> QED
    BY <1>2, <1>4, <2>1, <2>2
<1> QED
  BY <1>4, <1>5, <1>6

LEMMA RungsHold == DeployInv => RungsAgree
<1> SUFFICES ASSUME DeployInv, deployed # None, NEW c, c = deployed.cluster, NEW i \in ToSet(c.inputs)
             PROVE  Inv6Host(c, i) = ResolveTenancy(c, i) /\ Inv7Host(c, i) = ResolveTenancy(c, i)
  BY DEF RungsAgree
<1>1. Accepted(c)
  BY DEF DeployInv
<1>2. Inv6Host(c, i) # Absent
  BY <1>1 DEF Accepted, LintClean, Inv6
<1>3. Inv6Host(c, i) = ResolveTenancy(c, i)
  BY DEF Inv6Host, ResolveTenancy
<1>4. CASE i.workerdId # Absent
  BY <1>2, <1>4 DEF Inv6Host, Inv7Host, ResolveTenancy
<1>5. CASE i.workerdId = Absent
  BY <1>3, <1>5 DEF Inv7Host, ResolveTenancy
<1> QED
  BY <1>4, <1>5

LEMMA UntrustedHolds == DeployInv => UntrustedStaysOut
<1> SUFFICES ASSUME DeployInv, deployed # None, NEW c, c = deployed.cluster,
                    NEW b \in ToSet(c.bundles), NEW i \in Colocation(c, b.name)
             PROVE  /\ b.tier # "hypervisor" => ~ i.trusted
                    /\ b.tier = "hypervisor" /\ ~ i.trusted
                         => i.workerdId = Absent /\ i.shares = {} /\ i.name # b.name
  BY DEF UntrustedStaysOut
<1>1. Accepted(c) /\ WellFormed(c)
  BY DEF DeployInv
<1>2. i \in ToSet(c.inputs) /\ Inv6Host(c, i) = b.name
  BY DEF Colocation, Inv6Host, ResolveTenancy
<1>3. TierAligned(c, i)
  BY <1>1, <1>2 DEF Accepted, LintClean, Inv6
<1>4. BundleOf(c, b.name) = b /\ b.name \in BundleNames(c)
  BY <1>1, NamesMean
<1> QED
  BY <1>2, <1>3, <1>4 DEF TierAligned, IsPureRung3Fallback

\* What the router knows of a binding: the socket of its wire's bundle, or of
\* the only tenant of the binding there.
LEMMA HandleIs ==
  ASSUME NEW c, WellFormed(c), Accepted(c), NEW row, NEW s \in Handle(EmitCompose(c), row)
  PROVE  \E b \in ToSet(c.bundles), w \in ToSet(c.wires) :
           /\ w.binding = row.binding /\ w.to = b.name /\ BindingToBundle(c, row.binding) = b.name
           /\ b.external /\ b.socket # NoSocket /\ s = SocketForWire(c, w, b)
<1>1. PICK k \in EmitCompose(c) : \E e \in k.env : e.binding = row.binding /\ s = e.socket
  BY DEF Handle
<1>2. PICK e \in k.env : e.binding = row.binding /\ s = e.socket
  BY <1>1
<1>3. PICK from \in ToSet(c.bundles) : k.env = Env(c, from)
  BY ContainersAre
<1>4. PICK w \in ToSet(c.wires) :
        /\ e = [binding |-> w.binding, socket |-> SocketForWire(c, w, BundleOf(c, w.to))]
        /\ BundleOf(c, w.to).external /\ BundleOf(c, w.to).socket # NoSocket
  BY <1>2, <1>3 DEF Env
<1>5. w.binding = row.binding /\ s = SocketForWire(c, w, BundleOf(c, w.to))
  BY <1>2, <1>4
<1>6. /\ BundleOf(c, w.to) \in ToSet(c.bundles) /\ BundleOf(c, w.to).name = w.to
      /\ BindingToBundle(c, w.binding) = w.to
  BY NamesMean
<1> QED
  BY <1>4, <1>5, <1>6

\* The socket of a tenant is not that of its bundle, nor that of another tenant.
LEMMA SocketsApart ==
  ASSUME NEW socket \in Sockets, NEW t \in ClusterNames, NEW u \in ClusterNames
  PROVE  /\ PerTenantSocketPath(socket, t) # socket
         /\ PerTenantSocketPath(socket, t) = PerTenantSocketPath(socket, u) => t = u
<1>1. /\ TenantStem(socket.stem, t) # socket.stem
      /\ TenantStem(socket.stem, t) = TenantStem(socket.stem, u) => t = u
  BY ComposeAssumption DEF Sockets
<1>2. /\ PerTenantSocketPath(socket, t).stem = TenantStem(socket.stem, t)
      /\ PerTenantSocketPath(socket, u).stem = TenantStem(socket.stem, u)
  BY DEF PerTenantSocketPath, Sockets
<1> QED
  BY <1>1, <1>2

\* A row that a request matches is one of the table.
LEMMA MatchIs ==
  ASSUME NEW t, IsList(t, RowFields), NEW r, MatchTenant(t, r) # 0
  PROVE  /\ MatchTenant(t, r) \in DOMAIN t
         /\ \/ t[MatchTenant(t, r)].mode = "sni" /\ t[MatchTenant(t, r)].match = <<r.host>>
            \/ /\ t[MatchTenant(t, r)].mode = "path-prefix" /\ IsPrefix(t[MatchTenant(t, r)].match, r.path)
               /\ \A i \in DOMAIN t : t[i].mode = "sni" => t[i].match # <<r.host>>
<1>1. PICK sni : sni = {i \in DOMAIN t : t[i].mode = "sni" /\ t[i].match = <<r.host>>}
  OBVIOUS
<1>2. PICK prefix : prefix = {i \in DOMAIN t : t[i].mode = "path-prefix" /\ IsPrefix(t[i].match, r.path)}
  OBVIOUS
<1>3. MatchTenant(t, r) = CASE sni # {} -> CHOOSE i \in sni : \A j \in sni : i <= j
                            [] sni = {} /\ prefix # {} -> CHOOSE i \in prefix : \A j \in prefix : i <= j
                            [] OTHER -> 0
  BY <1>1, <1>2 DEF MatchTenant
<1>4. Len(t) \in Nat /\ DOMAIN t = 1..Len(t)
  BY ListIs
<1>5. sni \subseteq Nat /\ prefix \subseteq Nat
  BY <1>1, <1>2, <1>4
<1>6. CASE sni # {}
  <2>1. \E i \in sni : \A j \in sni : i <= j
    BY <1>5, <1>6, LeastOf
  <2>2. MatchTenant(t, r) \in sni
    BY <1>3, <1>6, <2>1
  <2> QED
    BY <1>1, <2>2
<1>7. CASE sni = {} /\ prefix # {}
  <2>1. \E i \in prefix : \A j \in prefix : i <= j
    BY <1>5, <1>7, LeastOf
  <2>2. MatchTenant(t, r) \in prefix
    BY <1>3, <1>7, <2>1
  <2> QED
    BY <1>1, <1>2, <1>7, <2>2
<1> QED
  BY <1>3, <1>6, <1>7

LEMMA TenantsHold == DeployInv => TenantsApart
<1> SUFFICES ASSUME DeployInv, deployed # None, NEW c, c = deployed.cluster,
                    NEW t \in ToSet(c.tables), NEW r \in Requests, MatchTenant(t, r) # 0,
                    NEW row, row = t[MatchTenant(t, r)], NEW k \in EmitCompose(c),
                    k.socket \in Handle(EmitCompose(c), row), k.bundle = BindingToBundle(c, row.binding),
                    k.tenant # Absent
             PROVE  k.tenant = row.name
  BY DEF TenantsApart, DeployInv
<1>1. Accepted(c) /\ WellFormed(c)
  BY DEF DeployInv
<1>2. PICK n \in DOMAIN Rows(c) : Rows(c)[n] = row
  <2>1. MatchTenant(t, r) \in DOMAIN t
    BY <1>1, MatchIs DEF WellFormed
  <2> QED
    BY <1>1, <2>1, RowsAre
<1>3. PICK b \in ToSet(c.bundles), w \in ToSet(c.wires) :
        /\ w.binding = row.binding /\ w.to = b.name /\ BindingToBundle(c, row.binding) = b.name
        /\ b.external /\ b.socket # NoSocket /\ k.socket = SocketForWire(c, w, b)
  BY <1>1, HandleIs
<1>4. PICK a \in ToSet(c.bundles) :
        /\ k.bundle = a.name /\ a.perTenant
        /\ \E x \in PerTenantInstancesFor(c, a.name) : k.tenant = x.name
        /\ a.socket # NoSocket => k.socket = PerTenantSocketPath(a.socket, k.tenant)
  BY ContainersAre
<1>5. a = b
  BY <1>1, <1>3, <1>4, NamesMean
<1>6. k.tenant \in ClusterNames /\ row.name \in ClusterNames /\ b.socket \in Sockets
  <2>1. PICK x \in ToSet(Rows(c)) : k.tenant = x.name
    BY <1>4 DEF PerTenantInstancesFor
  <2>2. x.name \in ClusterNames /\ row.name \in ClusterNames
    BY <1>1, <1>2, RowsAre DEF ToSet
  <2>3. IsRecord(b, BundleFields)
    BY <1>1 DEF WellFormed, IsList
  <2> QED
    BY <2>1, <2>2, <2>3 DEF IsRecord, BundleFields
<1>7. k.socket = PerTenantSocketPath(b.socket, k.tenant) /\ k.socket # b.socket
  BY <1>3, <1>4, <1>5, <1>6, SocketsApart
<1>8. PICK matched : matched = RowsOfBinding(c, w.binding)
  OBVIOUS
<1>9. n \in matched
  BY <1>2, <1>3, <1>8 DEF RowsOfBinding
<1>10. /\ \E x \in matched : matched = {x}
       /\ k.socket = PerTenantSocketPath(b.socket, Rows(c)[CHOOSE x \in matched : TRUE].name)
  BY <1>3, <1>7, <1>8 DEF SocketForWire
<1>11. (CHOOSE x \in matched : TRUE) = n
  BY <1>9, <1>10
<1> QED
  BY <1>2, <1>6, <1>7, <1>10, <1>11, SocketsApart

LEMMA SingleRowHolds == DeployInv => SingleRowIsServed
<1> SUFFICES ASSUME DeployInv, deployed # None, NEW c, c = deployed.cluster, NEW n \in DOMAIN Rows(c),
                    RowsOfBinding(c, Rows(c)[n].binding) = {n},
                    NEW s \in Handle(EmitCompose(c), Rows(c)[n])
             PROVE  \E x \in EmitCompose(c) : x.socket = s /\ x.bundle = BindingToBundle(c, Rows(c)[n].binding)
  BY DEF SingleRowIsServed, DeployInv
<1>1. Accepted(c) /\ WellFormed(c)
  BY DEF DeployInv
<1>2. PICK row : row = Rows(c)[n]
  OBVIOUS
<1>3. PICK b \in ToSet(c.bundles), w \in ToSet(c.wires) :
        /\ w.binding = row.binding /\ w.to = b.name /\ BindingToBundle(c, row.binding) = b.name
        /\ b.external /\ b.socket # NoSocket /\ s = SocketForWire(c, w, b)
  BY <1>1, <1>2, HandleIs
<1>4. row.name # Absent /\ row \in ToSet(Rows(c))
  BY <1>1, <1>2, RowsAre
<1>5. ContainersOf(c, b) \subseteq EmitCompose(c)
  BY DEF EmitCompose
<1>6. CASE b.perTenant
  <2>1. row \in PerTenantInstancesFor(c, b.name)
    BY <1>3, <1>4 DEF PerTenantInstancesFor
  <2>2. BundleContainer(c, b, row.name) \in ContainersOf(c, b)
    BY <1>3, <1>6, <2>1 DEF ContainersOf
  <2>3. /\ BundleContainer(c, b, row.name).socket = PerTenantSocketPath(b.socket, row.name)
        /\ BundleContainer(c, b, row.name).bundle = b.name
    BY <1>3, <1>4 DEF BundleContainer
  <2>4. PICK matched : matched = RowsOfBinding(c, w.binding)
    OBVIOUS
  <2>5. matched = {n} /\ (CHOOSE k \in matched : TRUE) = n
    BY <1>2, <1>3, <2>4
  <2>6. s = PerTenantSocketPath(b.socket, row.name)
    BY <1>2, <1>3, <1>6, <2>4, <2>5 DEF SocketForWire
  <2> QED
    BY <1>2, <1>3, <1>5, <2>2, <2>3, <2>6
<1>7. CASE ~ b.perTenant
  <2>1. BundleContainer(c, b, Absent) \in ContainersOf(c, b)
    BY <1>3, <1>7 DEF ContainersOf
  <2>2. BundleContainer(c, b, Absent).socket = b.socket /\ BundleContainer(c, b, Absent).bundle = b.name
    BY DEF BundleContainer
  <2>3. s = b.socket
    BY <1>3, <1>7 DEF SocketForWire
  <2> QED
    BY <1>2, <1>3, <1>5, <2>1, <2>2, <2>3
<1> QED
  BY <1>6, <1>7

\* A path and a segment list that begins it.
LEMMA PathSplits ==
  ASSUME NEW m \in Seq(STRING), NEW p \in Seq(STRING), IsPrefix(m, p)
  PROVE  /\ SubSeq(p, Len(m) + 1, Len(p)) = <<>> => p = m
         /\ p = m \o SubSeq(p, Len(m) + 1, Len(p))
<1>1. Len(m) \in Nat /\ Len(p) \in Nat /\ Len(m) <= Len(p)
  BY LenProperties DEF IsPrefix
<1>2. \A i \in 1..Len(m) : m[i] \in STRING /\ p[i] \in STRING
  BY <1>1, ElementOfSeq
<1>3. SubSeq(m, 1, Len(m)) = SubSeq(p, 1, Len(m))
  BY DEF IsPrefix
<1>4. \A i \in 1..Len(m) : m[i] = p[i]
  <2>1. /\ \A i \in 1..(Len(m) - 1 + 1) : SubSeq(m, 1, Len(m))[i] = m[1 + i - 1]
        /\ \A i \in 1..(Len(m) - 1 + 1) : SubSeq(p, 1, Len(m))[i] = p[1 + i - 1]
    <3>1. 1 \in Int /\ Len(m) \in Int
      BY <1>1
    <3> QED
      BY <1>2, <3>1, SubSeqProperties
  <2>2. Len(m) - 1 + 1 = Len(m) /\ \A i \in 1..Len(m) : 1 + i - 1 = i
    BY <1>1
  <2> QED
    BY <1>3, <2>1, <2>2
<1>5. PICK rest : rest = SubSeq(p, Len(m) + 1, Len(p))
  OBVIOUS
<1>6. /\ rest \in Seq(STRING) /\ Len(rest) = Len(p) - Len(m)
      /\ \A i \in 1..(Len(p) - Len(m)) : rest[i] = p[Len(m) + i]
  <2>1. /\ rest \in Seq(STRING) /\ Len(rest) = IF Len(m) + 1 <= Len(p) THEN Len(p) - (Len(m) + 1) + 1 ELSE 0
        /\ \A i \in 1..(Len(p) - (Len(m) + 1) + 1) : rest[i] = p[Len(m) + 1 + i - 1]
    <3>1. Len(m) + 1 \in Int /\ Len(p) \in Int /\ \A i \in (Len(m) + 1)..Len(p) : p[i] \in STRING
      BY <1>1, ElementOfSeq
    <3> QED
      BY <1>5, <3>1, SubSeqProperties
  <2>2. Len(p) - (Len(m) + 1) + 1 = Len(p) - Len(m) /\ \A i \in 1..(Len(p) - Len(m)) : Len(m) + 1 + i - 1 = Len(m) + i
    BY <1>1
  <2>3. Len(rest) = Len(p) - Len(m)
    BY <1>1, <2>1
  <2> QED
    BY <2>1, <2>2, <2>3
<1>7. p = m \o rest
  <2>1. /\ m \o rest \in Seq(STRING) /\ Len(m \o rest) = Len(m) + Len(rest)
        /\ \A i \in 1..(Len(m) + Len(rest)) : (m \o rest)[i] = IF i <= Len(m) THEN m[i] ELSE rest[i - Len(m)]
    BY <1>6, ConcatProperties
  <2>2. Len(m \o rest) = Len(p)
    BY <1>1, <1>6, <2>1
  <2>3. ASSUME NEW i \in 1..Len(p) PROVE p[i] = (m \o rest)[i]
    <3>1. CASE i <= Len(m)
      BY <1>1, <1>4, <1>6, <2>1, <3>1
    <3>2. CASE i > Len(m)
      <4>1. i - Len(m) \in 1..(Len(p) - Len(m)) /\ Len(m) + (i - Len(m)) = i
        BY <1>1, <3>2
      <4>2. (m \o rest)[i] = rest[i - Len(m)]
        BY <1>1, <1>6, <2>1, <3>2
      <4> QED
        BY <1>6, <4>1, <4>2
    <3>3. i <= Len(m) \/ i > Len(m)
      BY <1>1
    <3> QED
      BY <3>1, <3>2, <3>3
  <2> QED
    BY <2>1, <2>2, <2>3, SeqEqual
<1>8. rest = <<>> => p = m
  <2>1. rest = <<>> => Len(rest) = 0
    OBVIOUS
  <2>2. rest = <<>> => Len(p) = Len(m)
    BY <1>1, <1>6, <2>1
  <2> QED
    BY <1>4, <2>2, SeqEqual
<1> QED
  BY <1>5, <1>7, <1>8

LEMMA PathsHold == DeployInv => PathIsWhole
<1> SUFFICES ASSUME DeployInv, deployed # None, NEW c, c = deployed.cluster,
                    NEW t \in ToSet(c.tables), NEW r \in Requests, MatchTenant(t, r) # 0,
                    NEW row, row = t[MatchTenant(t, r)]
             PROVE  \/ row.mode = "sni" /\ row.match = <<r.host>> /\ StrippedPath(t, r) = r.path
                    \/ /\ row.mode = "path-prefix"
                       /\ r.path \in {row.match, row.match \o StrippedPath(t, r)}
                       /\ \A i \in DOMAIN t : t[i].mode = "sni" => t[i].match # <<r.host>>
  BY DEF PathIsWhole
<1>1. WellFormed(c) /\ IsList(t, RowFields)
  BY DEF DeployInv, WellFormed
<1>2. /\ MatchTenant(t, r) \in DOMAIN t
      /\ \/ row.mode = "sni" /\ row.match = <<r.host>>
         \/ /\ row.mode = "path-prefix" /\ IsPrefix(row.match, r.path)
            /\ \A i \in DOMAIN t : t[i].mode = "sni" => t[i].match # <<r.host>>
  BY <1>1, MatchIs
<1>3. row.match \in Seq(STRING) /\ r.path \in Seq(STRING)
  <2>1. IsRecord(row, RowFields)
    BY <1>1, <1>2, ListIs
  <2> QED
    BY <2>1, ComposeAssumption DEF IsRecord, RowFields
<1>4. CASE row.mode = "sni"
  BY <1>2, <1>4 DEF StrippedPath
<1>5. CASE row.mode = "path-prefix"
  <2>1. PICK rest : rest = SubSeq(r.path, Len(row.match) + 1, Len(r.path))
    OBVIOUS
  <2>2. StrippedPath(t, r) = IF rest = <<>> THEN Root ELSE rest
    BY <1>5, <2>1 DEF StrippedPath
  <2>3. IsPrefix(row.match, r.path) /\ \A i \in DOMAIN t : t[i].mode = "sni" => t[i].match # <<r.host>>
    BY <1>2, <1>5
  <2>4. (rest = <<>> => r.path = row.match) /\ r.path = row.match \o rest
    BY <1>3, <2>1, <2>3, PathSplits
  <2> QED
    BY <1>5, <2>2, <2>3, <2>4
<1> QED
  BY <1>2, <1>4, <1>5

LEMMA AuthorityHolds == DeployInv => AuthorityIsDeclared
<1> SUFFICES ASSUME DeployInv, deployed # None, NEW w \in Workers(deployed.cluster)
             PROVE  LET of == {b \in ToSet(deployed.cluster.bundles) : b.service = w.name}
                    IN  /\ ServiceKind(deployed.cluster, w.outbound) \in {"network", "external"}
                             => of # {} /\ \A b \in of : b.tier = "hypervisor" /\ b.rationale \notin Blank
                        /\ \A x \in w.bindings, b \in ToSet(deployed.cluster.bundles) :
                             x.name \in b.creds => \E o \in of : x.name \in o.creds
  BY Zenon DEF AuthorityIsDeclared
<1> DEFINE c == deployed.cluster
           of == {b \in ToSet(c.bundles) : b.service = w.name}
<1> SUFFICES /\ ServiceKind(c, w.outbound) \in {"network", "external"}
                  => of # {} /\ \A b \in of : b.tier = "hypervisor" /\ b.rationale \notin Blank
             /\ \A x \in w.bindings, b \in ToSet(c.bundles) :
                  x.name \in b.creds => \E o \in of : x.name \in o.creds
  OBVIOUS
<1>1. Accepted(c) /\ WellFormed(c)
  BY DEF DeployInv
<1>2. w \in ToSet(c.services) /\ \A s \in ToSet(c.services) : s.name # Absent
  <2>1. \A s \in ToSet(c.services) : IsRecord(s, ServiceFields)
    BY <1>1 DEF WellFormed, IsList
  <2> QED
    BY <2>1 DEF Workers, IsRecord, ServiceFields
<1>3. /\ \A b \in ToSet(c.bundles) : BundleOf(c, b.name) = b /\ b.name # Absent
      /\ Inv1(c, w) /\ Inv2(c, w) /\ Inv3(c)
  BY <1>1, NamesMean DEF Accepted, LintClean
<1>4. \A a, b \in of : a = b
  <2>1. \A i, j \in DOMAIN c.bundles :
          c.bundles[i].service = c.bundles[j].service /\ c.bundles[i].service # Absent => i = j
    BY <1>1 DEF Accepted, LintClean, ServiceToBundleIsUnique
  <2> QED
    BY <1>2, <2>1 DEF ToSet
<1>5. of = {} => ServiceToBundle(c, w.name) = Absent
  BY DEF ServiceToBundle
<1>6. \A b \in of : ServiceToBundle(c, w.name) = b.name
  BY <1>4 DEF ServiceToBundle
<1>7. ASSUME ServiceKind(c, w.outbound) \in {"network", "external"}
      PROVE  of # {} /\ \A b \in of : b.tier = "hypervisor" /\ b.rationale \notin Blank
  <2>1. w.outbound # Absent
    <3>1. ServiceKind(c, Absent) = Absent
      BY <1>2 DEF ServiceKind
    <3>2. Absent \notin {"network", "external"}
      BY DEF Absent
    <3> QED
      BY <1>7, <3>1, <3>2
  <2>2. TierForWorker(c, w) = "hypervisor"
    BY <1>3, <1>7, <2>1 DEF Inv1
  <2>3. ServiceToBundle(c, w.name) # Absent /\ BundleOf(c, ServiceToBundle(c, w.name)).tier = "hypervisor"
    BY <2>2 DEF TierForWorker
  <2>4. of # {}
    BY <1>5, <2>3
  <2>5. \A b \in of : b.tier = "hypervisor"
    BY <1>3, <1>6, <2>3
  <2>6. \A b \in of : b.rationale \notin Blank
    BY <1>3, <2>5 DEF Inv3
  <2> QED
    BY <2>4, <2>5, <2>6
<1>8. ASSUME NEW x \in w.bindings, NEW b \in ToSet(c.bundles), x.name \in b.creds
      PROVE  \E o \in of : x.name \in o.creds
  <2>1. b.name \in CredentialAllowList(c, x.name)
    BY <1>8 DEF CredentialAllowList
  <2>2. ServiceToBundle(c, w.name) \in CredentialAllowList(c, x.name)
    BY <1>3, <2>1 DEF Inv2
  <2>3. PICK o \in ToSet(c.bundles) : x.name \in o.creds /\ o.name = ServiceToBundle(c, w.name)
    BY <2>2 DEF CredentialAllowList
  <2>4. PICK a \in of : TRUE
    BY <1>3, <1>5, <2>3
  <2>5. a.name = o.name
    BY <1>6, <2>3, <2>4
  <2>6. a = o
    BY <1>3, <2>3, <2>4, <2>5
  <2> QED
    BY <2>3, <2>4, <2>6
<1> QED
  BY <1>7, <1>8

LEMMA ImagesHold == DeployInv => SilentMeansImage
<1> SUFFICES ASSUME DeployInv, deployed # None, NEW c, c = deployed.cluster, NEW k \in EmitCompose(c),
                    NEW b, b = BundleOf(c, k.bundle), Inv10Silent(c, b)
             PROVE  k.image.id # Absent /\ c.ociBundles[b.name].id \in {Absent, k.image.id}
  BY DEF SilentMeansImage, DeployInv
<1>1. Accepted(c) /\ WellFormed(c)
  BY DEF DeployInv
<1>2. b \in ToSet(c.bundles) /\ k.image = ResolveBundleImage(c, b)
  BY <1>1, ContainersAre, NamesMean
<1>3. \A i \in ImageRefs : OciImageRef(i).id = i.id
  BY DEF ImageRefs, OciImageRef
<1>4. c.ociBundles[b.name] \in ImageRefs
  <2>1. IsRecord(b, BundleFields)
    BY <1>1, <1>2 DEF WellFormed, IsList
  <2>2. b.name \in ClusterNames
    BY <2>1 DEF IsRecord, BundleFields
  <2> QED
    BY <1>1, <2>2 DEF WellFormed
<1>5. CASE b.image.id # Absent
  <2>1. k.image = b.image
    BY <1>2, <1>5 DEF ResolveBundleImage
  <2>2. c.ociBundles[b.name].id # Absent => b.image.id = c.ociBundles[b.name].id
    BY <1>5 DEF Inv10Silent, OwnOci
  <2> QED
    BY <1>5, <2>1, <2>2
<1>6. CASE b.image.id = Absent /\ c.ociBundles[b.name].id # Absent
  <2>1. k.image = OciImageRef(c.ociBundles[b.name])
    BY <1>2, <1>6 DEF ResolveBundleImage
  <2> QED
    BY <1>3, <1>4, <1>6, <2>1
<1>7. CASE b.image.id = Absent /\ c.ociBundles[b.name].id = Absent
  <2>1. PICK known : known = LinkedInputs(c, b.name)
    OBVIOUS
  <2>2. known # {}
    BY <1>7, <2>1 DEF Inv10Silent
  <2>3. Len(c.inputs) \in Nat /\ DOMAIN c.inputs = 1..Len(c.inputs)
    BY <1>1, ListIs DEF WellFormed
  <2>4. known \subseteq Nat
    BY <2>1, <2>3 DEF LinkedInputs
  <2>5. \E a \in known : \A j \in known : a <= j
    BY <2>2, <2>4, LeastOf
  <2>6. PICK a \in known : k.image = OciImageRef(c.oci[c.inputs[a].name])
    BY <1>2, <1>7, <2>1, <2>2, <2>5 DEF ResolveBundleImage
  <2>7. a \in DOMAIN c.inputs /\ c.oci[c.inputs[a].name].id # Absent
    BY <2>1 DEF LinkedInputs
  <2>8. c.oci[c.inputs[a].name] \in ImageRefs
    <3>1. IsRecord(c.inputs[a], InputFields)
      BY <1>1, <2>7, ListIs DEF WellFormed
    <3>2. c.inputs[a].name \in ClusterNames
      BY <3>1 DEF IsRecord, InputFields
    <3> QED
      BY <1>1, <3>2 DEF WellFormed
  <2> QED
    BY <1>3, <1>7, <2>6, <2>7, <2>8
<1> QED
  BY <1>5, <1>6, <1>7

\* What lint-bundle-isolation lets through, the emitted composition and the
\* dispatch at run time keep, whatever is declared and however it is edited.
THEOREM ComposeDeclarationsHold == TopoSpec => []DeclarationsHold
<1>1. DeployInv => DeclarationsHold
  BY RungsHold, UntrustedHolds, TenantsHold, SingleRowHolds, PathsHold, AuthorityHolds, ImagesHold
     DEF DeclarationsHold
<1> QED
  BY <1>1, DeployInvariant, PTL
-----------------------------------------------------------------------------
(***************************************************************************)
(* What generate and build-manifest write.  A generation that nobody else  *)
(* joins, halves = {p}, leaves alone what already is as it would write it, *)
(* and so everything is, when nothing is left to do.  The manifest is the  *)
(* overlay of the lockfile's rows, and a row is overlaid by no later one,  *)
(* because the names they are given differ.                                *)
(***************************************************************************)

\* The files that are generated together, what a command would have in them, and
\* what it still has to write.
Outputs == {"clusterTs", "capnp", "compose"}
Body(inputs, rows) ==
  [clusterTs |-> Of(inputs), capnp |-> Of(inputs), compose |-> ComposeOf(inputs, rows)]
Written(j) == \A f \in Outputs : Has(j.todo, f) \/ files[f] = Body(j.inputs, j.rows)[f]

\* Files of one generation, or of none.
OfOne(f) ==
  /\ f.clusterTs = f.capnp /\ (f.compose = None <=> f.capnp = None)
  /\ f.compose # None => f.compose.inputs = f.capnp.inputs

WriteInv ==
  /\ DOMAIN files = Outputs
  /\ halves = {} => OfOne(files) /\ \A q \in Procs : jobs[q].pc # "write"
  /\ \A p \in Procs : halves = {p} /\ jobs[p].pc = "write" =>
       Written(jobs[p]) /\ \A q \in Procs : jobs[q].pc = "write" => q = p

\* A manifest is what was made of rows of a lockfile, and was let through.
Manifested(rows) ==
  OverlayLockfileBackends(Shells, FlattenSeq([k \in DOMAIN rows |-> rows[k].backends]))
BuiltInv ==
  built # None => /\ built.rows \in Seq(RowSet) /\ built.backends = Manifested(built.rows)
                  /\ BuildValidate(built.backends)

GenInv == WriteInv /\ BuiltInv

\* Whoever does not write leaves the files as they are.
LEMMA NobodyWrites ==
  ASSUME WriteInv, files' = files, halves' = halves,
         \A q \in Procs : jobs'[q] = jobs[q] \/ jobs'[q].pc # "write"
  PROVE  WriteInv'
<1>1. DOMAIN files' = Outputs
  BY DEF WriteInv
<1>2. ASSUME halves' = {} PROVE OfOne(files') /\ \A q \in Procs : jobs'[q].pc # "write"
  BY <1>2 DEF WriteInv
<1>3. ASSUME NEW p \in Procs, halves' = {p}, jobs'[p].pc = "write"
      PROVE  Written(jobs[p])' /\ \A q \in Procs : jobs'[q].pc = "write" => q = p
  <2>1. jobs'[p] = jobs[p] /\ jobs[p].pc = "write" /\ halves = {p}
    BY <1>3
  <2>2. Written(jobs[p]) /\ \A q \in Procs : jobs[q].pc = "write" => q = p
    BY <2>1 DEF WriteInv
  <2>3. \A q \in Procs : jobs'[q].pc = "write" => q = p
    <3> SUFFICES ASSUME NEW q \in Procs, jobs'[q].pc = "write" PROVE q = p
      OBVIOUS
    <3>1. jobs'[q] = jobs[q]
      OBVIOUS
    <3> QED
      BY <2>2, <3>1
  <2>4. Written(jobs[p])'
    BY <2>1, <2>2 DEF Written
  <2> QED
    BY <2>3, <2>4
<1> QED
  BY <1>1, <1>2, <1>3 DEF WriteInv

\* A command that goes on to something else.
LEMMA JobMovesOn ==
  ASSUME WorkInv, WriteInv, NEW p \in Procs, NEW j, jobs' = [jobs EXCEPT ![p] = j], j.pc # "write",
         files' = files, halves' = halves
  PROVE  WriteInv'
<1>1. jobs \in [Procs -> JobSet]
  BY DEF WorkInv
<1>2. \A q \in Procs : jobs'[q] = jobs[q] \/ jobs'[q].pc # "write"
  BY <1>1
<1> QED
  BY <1>2, NobodyWrites

\* Every command is somewhere.
LEMMA HasPc ==
  ASSUME NEW j \in JobSet PROVE "pc" \in DOMAIN j
<1>1. CASE j = Idle
  BY <1>1 DEF Idle
<1>2. CASE j # Idle
  BY <1>2 DEF JobSet, ResolveJobs, GenerateJobs, PullJobs
<1> QED
  BY <1>1, <1>2

\* The steps of a resolution do not write what is generated.
LEMMA ResolutionWritesNothing ==
  ASSUME WorkInv, WriteInv, NEW p \in Procs,
         \/ ResolveClusterInputs(p) \/ AddInput(p) \/ AddTruncate(p) \/ AddFill(p) \/ Fetch(p) \/ ProbeEach(p)
         \/ ProbePrimary(p) \/ NoProbe(p) \/ WriteLock(p) \/ AddTruncateLock(p) \/ AddFillLock(p)
  PROVE  WriteInv'
<1>1. jobs \in [Procs -> JobSet] /\ jobs[p] \in JobSet /\ "pc" \in DOMAIN jobs[p] /\ Idle.pc = "idle"
  BY JobOf, HasPc DEF Idle
<1>2. files' = files /\ halves' = halves
  BY DEF ResolveClusterInputs, AddInput, AddTruncate, AddFill, Fetch, ProbeEach, ProbePrimary, NoProbe, WriteLock,
         AddTruncateLock, AddFillLock, workFiles
<1>3. FailedInput(jobs[p]).pc # "write"
  BY <1>1 DEF FailedInput
<1>4. ASSUME NEW pc, Goto(p, pc), pc # "write" PROVE WriteInv'
  <2>1. PICK j : j = [jobs[p] EXCEPT !.pc = pc]
    OBVIOUS
  <2>2. jobs' = [jobs EXCEPT ![p] = j] /\ j.pc # "write"
    BY <1>1, <1>4, <2>1 DEF Goto
  <2> QED
    BY <1>2, <2>2, JobMovesOn
<1>5. ASSUME End(p) PROVE WriteInv'
  <2>1. jobs' = [jobs EXCEPT ![p] = Idle] /\ Idle.pc # "write"
    BY <1>1, <1>5 DEF End
  <2> QED
    BY <1>2, <2>1, JobMovesOn
<1>6. \A oci, u : Resolved(jobs[p], oci, u).pc # "write"
  BY <1>1 DEF Resolved
<1>7. CASE ResolveClusterInputs(p)
  <2>1. PICK inputs : jobs' = [jobs EXCEPT ![p] = IF inputs = <<>> THEN Idle ELSE Resolving(inputs, "resolve")]
    BY <1>7 DEF ResolveClusterInputs
  <2>2. PICK j : j = IF inputs = <<>> THEN Idle ELSE Resolving(inputs, "resolve")
    OBVIOUS
  <2>3. Resolving(inputs, "resolve").pc = "fetch"
    BY DEF Resolving
  <2>4. j.pc # "write" /\ jobs' = [jobs EXCEPT ![p] = j]
    BY <1>1, <2>1, <2>2, <2>3
  <2> QED
    BY <1>2, <2>4, JobMovesOn
<1>8. CASE AddInput(p)
  <2>1. PICK inputs, spec :
          jobs' = [jobs EXCEPT ![p] = [Resolving(Append(inputs, spec), "add") EXCEPT !.pc = "truncate"]]
    BY <1>8 DEF AddInput
  <2>2. [Resolving(Append(inputs, spec), "add") EXCEPT !.pc = "truncate"].pc # "write"
    BY DEF Resolving
  <2> QED
    BY <1>2, <2>1, <2>2, JobMovesOn
<1>9. CASE Fetch(p)
  <2>1. \/ jobs' = [jobs EXCEPT ![p] = FailedInput(jobs[p])]
        \/ \E doc : jobs' = [jobs EXCEPT ![p] = [jobs[p] EXCEPT !.pc = "probe", !.doc = doc, !.at = 1,
                                                             !.all = ParsePackagesOci(doc)]]
    BY <1>9 DEF Fetch
  <2>2. \A doc : [jobs[p] EXCEPT !.pc = "probe", !.doc = doc, !.at = 1, !.all = ParsePackagesOci(doc)].pc # "write"
    BY <1>1
  <2> QED
    BY <1>2, <1>3, <2>1, <2>2, JobMovesOn
<1>10. CASE ProbeEach(p)
  <2>1. jobs[p].pc = "probe"
    BY <1>10 DEF ProbeEach
  <2>2. PICK k, d : jobs' = [jobs EXCEPT ![p].at = k + 1, ![p].all[k].digest = d]
    BY <1>10 DEF ProbeEach
  <2>3. PICK j : j = [jobs[p] EXCEPT !.at = k + 1, !.all[k].digest = d]
    OBVIOUS
  <2>4. jobs' = [jobs EXCEPT ![p] = j] /\ j.pc # "write"
    BY <1>1, <2>1, <2>2, <2>3
  <2> QED
    BY <1>2, <2>4, JobMovesOn
<1>11. CASE ProbePrimary(p)
  <2>1. PICK a : a \in Answers /\ LET image == PrimaryOf(jobs[p])
                                     here == HeadAnswer(a, image)
                                     state == ProbeOciDigest(here)
                                 IN  jobs' = [jobs EXCEPT ![p] =
          CASE state = "present" -> Resolved(jobs[p], [image EXCEPT !.digest = here.digest], Absent)
            [] state # "present" /\ UnpinnedIsAcknowledged(jobs[p]) -> Resolved(jobs[p], image, state)
            [] OTHER -> FailedInput(jobs[p])]
    BY <1>11 DEF ProbePrimary
  <2> DEFINE image == PrimaryOf(jobs[p])
             here == HeadAnswer(a, image)
             state == ProbeOciDigest(here)
  <2>2. PICK j : j = CASE state = "present" -> Resolved(jobs[p], [image EXCEPT !.digest = here.digest], Absent)
                       [] state # "present" /\ UnpinnedIsAcknowledged(jobs[p]) -> Resolved(jobs[p], image, state)
                       [] OTHER -> FailedInput(jobs[p])
    OBVIOUS
  <2>3. jobs' = [jobs EXCEPT ![p] = j]
    BY <2>1, <2>2
  <2>4. j.pc # "write"
    BY <1>3, <1>6, <2>2
  <2> QED
    BY <1>2, <2>3, <2>4, JobMovesOn
<1>12. CASE NoProbe(p)
  <2>1. jobs' = [jobs EXCEPT ![p] = Resolved(jobs[p], PrimaryOf(jobs[p]), Absent)]
    BY <1>12 DEF NoProbe
  <2> QED
    BY <1>2, <1>6, <2>1, JobMovesOn
<1>13. CASE AddTruncate(p) \/ AddFill(p) \/ AddTruncateLock(p)
  <2>1. Goto(p, "fill") \/ Goto(p, "fetch") \/ Goto(p, "fill lock")
    BY <1>13 DEF AddTruncate, AddFill, AddTruncateLock
  <2> QED
    BY <1>4, <2>1
<1>14. CASE WriteLock(p) \/ AddFillLock(p)
  <2>1. End(p)
    BY <1>14 DEF WriteLock, AddFillLock
  <2> QED
    BY <1>5, <2>1
<1> QED
  BY <1>7, <1>8, <1>9, <1>10, <1>11, <1>12, <1>13, <1>14

\* Nor do the others, apart from generate.
LEMMA OthersWriteNothing ==
  ASSUME WorkInv, WriteInv, NEW p \in Procs,
         \/ GenerateReadToml(p) \/ BuildManifest(p) \/ ArtifactsPull(p) \/ Pull(p) \/ PullEnd(p)
         \/ ClusterUp(p) \/ ClusterDown(p) \/ Kill(p)
  PROVE  WriteInv'
<1>1. jobs \in [Procs -> JobSet] /\ jobs[p] \in JobSet /\ "pc" \in DOMAIN jobs[p] /\ Idle.pc = "idle"
  BY JobOf, HasPc DEF Idle
<1>2. files' = files /\ halves' = halves
  BY DEF GenerateReadToml, BuildManifest, ArtifactsPull, Pull, PullEnd, ClusterUp, ClusterDown, Kill, workFiles
<1>3. CASE GenerateReadToml(p)
  <2>1. PICK inputs : jobs' = [jobs EXCEPT ![p] = [cmd |-> "generate", pc |-> "compute", inputs |-> inputs,
                                                    rows |-> <<>>, todo |-> <<>>]]
    BY <1>3 DEF GenerateReadToml
  <2>2. PICK j : j = [cmd |-> "generate", pc |-> "compute", inputs |-> inputs, rows |-> <<>>, todo |-> <<>>]
    OBVIOUS
  <2>3. jobs' = [jobs EXCEPT ![p] = j] /\ j.pc # "write"
    BY <2>1, <2>2
  <2> QED
    BY <1>2, <2>3, JobMovesOn
<1>4. CASE ArtifactsPull(p)
  <2>1. PICK images : jobs' = [jobs EXCEPT ![p] = [cmd |-> "pull", pc |-> "pull", todo |-> images]]
    BY <1>4 DEF ArtifactsPull
  <2>2. PICK j : j = [cmd |-> "pull", pc |-> "pull", todo |-> images]
    OBVIOUS
  <2>3. jobs' = [jobs EXCEPT ![p] = j] /\ j.pc # "write"
    BY <2>1, <2>2
  <2> QED
    BY <1>2, <2>3, JobMovesOn
<1>5. CASE Pull(p)
  <2>1. jobs[p].pc = "pull" /\ jobs' = [jobs EXCEPT ![p].todo = Tail(@)]
    BY <1>5 DEF Pull
  <2>2. PICK j : j = [jobs[p] EXCEPT !.todo = Tail(@)]
    OBVIOUS
  <2>3. jobs' = [jobs EXCEPT ![p] = j] /\ j.pc # "write"
    BY <1>1, <2>1, <2>2
  <2> QED
    BY <1>2, <2>3, JobMovesOn
<1>6. CASE PullEnd(p) \/ Kill(p)
  <2>1. jobs' = [jobs EXCEPT ![p] = Idle] /\ Idle.pc # "write"
    BY <1>1, <1>6 DEF PullEnd, Kill, End
  <2> QED
    BY <1>2, <2>1, JobMovesOn
<1>7. CASE BuildManifest(p) \/ ClusterUp(p) \/ ClusterDown(p)
  <2>1. jobs' = jobs
    BY <1>7 DEF BuildManifest, ClusterUp, ClusterDown
  <2> QED
    BY <1>2, <2>1, NobodyWrites
<1> QED
  BY <1>3, <1>4, <1>5, <1>6, <1>7

\* Three lists, each of one thing or of none.
LEMMA InTurn ==
  ASSUME NEW F, NEW h \in Seq(F), NEW s \in Seq(F), NEW t \in Seq(F), NEW u \in Seq(F), NEW x
  PROVE  /\ h \o s \o t \o u \in Seq(F)
         /\ Has(h \o s \o t \o u, x) <=> Has(h, x) \/ Has(s, x) \/ Has(t, x) \/ Has(u, x)
<1>1. PICK a \in Seq(F) : a = h \o s
  BY ConcatProperties
<1>2. PICK b \in Seq(F) : b = a \o t
  BY ConcatProperties
<1>3. b \o u \in Seq(F) /\ h \o s \o t \o u = b \o u
  BY <1>1, <1>2, ConcatProperties
<1>4. Has(b \o u, x) <=> Has(b, x) \/ Has(u, x)
  BY ConcatHolds
<1>5. Has(a \o t, x) <=> Has(a, x) \/ Has(t, x)
  BY ConcatHolds
<1>6. Has(h \o s, x) <=> Has(h, x) \/ Has(s, x)
  BY ConcatHolds
<1> QED
  BY <1>1, <1>2, <1>3, <1>4, <1>5, <1>6

\* A generation knows what it has to write.
LEMMA ComputeWrites ==
  ASSUME WorkInv, WriteInv, NEW p \in Procs, Compute(p) PROVE WriteInv'
<1> DEFINE F == {"toml", "clusterTs", "capnp", "compose"}
<1>1. /\ jobs[p].pc = "compute" /\ files' = files
      /\ jobs \in [Procs -> JobSet] /\ jobs[p] \in GenerateJobs /\ Idle.pc = "idle"
  BY JobOf DEF Compute, workFiles, Idle
<1>2. PICK rows :
        \/ jobs' = [jobs EXCEPT ![p] = Idle] /\ halves' = halves
        \/ /\ halves' = {p} \cup {q \in Procs : jobs[q].pc = "write"}
           /\ LET inputs == jobs[p].inputs
                  body == [clusterTs |-> Of(inputs), capnp |-> Of(inputs), compose |-> ComposeOf(inputs, rows)]
                  IfChanged(f) == IF files[f] # body[f] THEN <<f>> ELSE <<>>
              IN  jobs' = [jobs EXCEPT ![p] =
                     [jobs[p] EXCEPT !.pc = "write", !.rows = rows,
                                     !.todo = (IF toml.torn \/ toml.inputs # inputs THEN <<"toml">> ELSE <<>>)
                                               \o IfChanged("clusterTs") \o IfChanged("capnp") \o IfChanged("compose")]]
  BY DEF Compute, End
<1>3. CASE jobs' = [jobs EXCEPT ![p] = Idle] /\ halves' = halves
  <2>1. Idle.pc # "write"
    BY <1>1
  <2> QED
    BY <1>1, <1>3, <2>1, JobMovesOn
<1>4. CASE ~ (jobs' = [jobs EXCEPT ![p] = Idle] /\ halves' = halves)
  <2> DEFINE body == Body(jobs[p].inputs, rows)
             IfChanged(f) == IF files[f] # body[f] THEN <<f>> ELSE <<>>
             first == IF toml.torn \/ toml.inputs # jobs[p].inputs THEN <<"toml">> ELSE <<>>
             todo == first \o IfChanged("clusterTs") \o IfChanged("capnp") \o IfChanged("compose")
  <2>1. /\ halves' = {p} \cup {q \in Procs : jobs[q].pc = "write"}
        /\ jobs' = [jobs EXCEPT ![p] = [jobs[p] EXCEPT !.pc = "write", !.rows = rows, !.todo = todo]]
    BY <1>2, <1>4 DEF Body
  <2>2. PICK j : j = [jobs[p] EXCEPT !.pc = "write", !.rows = rows, !.todo = todo]
    OBVIOUS
  <2> HIDE DEF body
  <2>3. \A f \in F : /\ IfChanged(f) \in Seq(F) /\ (files[f] # body[f] => Has(IfChanged(f), f))
    <3> SUFFICES ASSUME NEW f \in F
                 PROVE  IfChanged(f) \in Seq(F) /\ (files[f] # body[f] => Has(IfChanged(f), f))
      OBVIOUS
    <3>1. <<f>> \in Seq(F) /\ <<>> \in Seq(F) /\ 1 \in DOMAIN <<f>> /\ <<f>>[1] = f
      <4> HIDE DEF F
      <4> QED
        OBVIOUS
    <3> QED
      BY <3>1 DEF Has
  <2>4. first \in Seq(F)
    <3>1. \A f \in F : <<f>> \in Seq(F)
      <4> HIDE DEF F
      <4> QED
        OBVIOUS
    <3>2. <<"toml">> \in Seq(F) /\ <<>> \in Seq(F)
      BY <3>1
    <3> QED
      BY <3>2
  <2>5. /\ IfChanged("clusterTs") \in Seq(F)
        /\ files["clusterTs"] # body["clusterTs"] => Has(IfChanged("clusterTs"), "clusterTs")
        /\ IfChanged("capnp") \in Seq(F) /\ (files["capnp"] # body["capnp"] => Has(IfChanged("capnp"), "capnp"))
        /\ IfChanged("compose") \in Seq(F)
        /\ files["compose"] # body["compose"] => Has(IfChanged("compose"), "compose")
    BY <2>3
  <2> HIDE DEF F, first, IfChanged
  <2>6. ASSUME NEW f \in Outputs PROVE Has(todo, f) \/ files[f] = body[f]
    <3>1. Has(todo, f) <=> \/ Has(first, f) \/ Has(IfChanged("clusterTs"), f)
                           \/ Has(IfChanged("capnp"), f) \/ Has(IfChanged("compose"), f)
      BY <2>4, <2>5, InTurn
    <3>2. f = "clusterTs" \/ f = "capnp" \/ f = "compose"
      BY DEF Outputs
    <3> QED
      BY <2>5, <3>1, <3>2
  <2> HIDE DEF todo
  <2>7. /\ j.pc = "write" /\ j.rows = rows /\ j.todo = todo /\ j.inputs = jobs[p].inputs
    BY <1>1, <2>2 DEF GenerateJobs
  <2>8. jobs' = [jobs EXCEPT ![p] = j] /\ jobs'[p] = j /\ \A q \in Procs : q # p => jobs'[q] = jobs[q]
    BY <1>1, <2>1, <2>2
  <2>9. Written(jobs[p])'
    <3>1. ASSUME NEW f \in Outputs PROVE Has(j.todo, f) \/ files'[f] = Body(j.inputs, j.rows)[f]
      BY <1>1, <2>6, <2>7 DEF body
    <3> QED
      BY <2>8, <3>1 DEF Written
  <2>10. ASSUME NEW r \in Procs, halves' = {r}, jobs'[r].pc = "write"
         PROVE  Written(jobs[r])' /\ \A q \in Procs : jobs'[q].pc = "write" => q = r
    <3>1. r = p /\ \A q \in Procs : jobs[q].pc = "write" => q = p
      BY <2>1, <2>10
    <3> QED
      BY <2>8, <2>9, <3>1
  <2>11. halves' # {} /\ DOMAIN files' = Outputs
    BY <1>1, <2>1 DEF WriteInv
  <2> QED
    BY <2>10, <2>11 DEF WriteInv
<1> QED
  BY <1>2, <1>3, <1>4

\* One file is written.
LEMMA GenerateWriteWrites ==
  ASSUME WorkInv, WriteInv, NEW p \in Procs, GenerateWrite(p) PROVE WriteInv'
<1>1. /\ jobs[p].pc = "write" /\ jobs[p].todo # <<>> /\ halves' = halves
      /\ jobs' = [jobs EXCEPT ![p].todo = Tail(@)]
      /\ jobs \in [Procs -> JobSet]
  BY JobOf DEF GenerateWrite
<1>2. PICK j \in GenerateJobs : j = jobs[p]
  BY <1>1, JobOf
<1>3. j.todo \in Seq({"toml", "clusterTs", "capnp", "compose"}) /\ j.todo # <<>>
  BY <1>1, <1>2 DEF GenerateJobs
<1>4. PICK i : i = [j EXCEPT !.todo = Tail(@)]
  OBVIOUS
<1>5. i.pc = "write" /\ i.inputs = j.inputs /\ i.rows = j.rows /\ i.todo = Tail(j.todo)
  BY <1>1, <1>2, <1>4 DEF GenerateJobs
<1>6. jobs'[p] = i /\ \A q \in Procs : q # p => jobs'[q] = jobs[q]
  BY <1>1, <1>2, <1>4
<1>7. PICK h : h = Head(j.todo)
  OBVIOUS
<1>8. h \in {"toml", "clusterTs", "capnp", "compose"} /\ \A f : Has(j.todo, f) => f = h \/ Has(i.todo, f)
  <2>1. /\ Len(j.todo) \in Nat \ {0} /\ DOMAIN j.todo = 1..Len(j.todo) /\ h = j.todo[1]
        /\ Tail(j.todo) \in Seq({"toml", "clusterTs", "capnp", "compose"}) /\ Len(Tail(j.todo)) = Len(j.todo) - 1
        /\ \A k \in 1..(Len(j.todo) - 1) : Tail(j.todo)[k] = j.todo[k + 1]
    <3>1. Len(j.todo) \in Nat \ {0} /\ DOMAIN j.todo = 1..Len(j.todo)
      BY <1>3, EmptySeq, LenProperties
    <3> QED
      BY <1>3, <1>7, <3>1, HeadTailProperties
  <2>2. h \in {"toml", "clusterTs", "capnp", "compose"}
    BY <1>3, <2>1, ElementOfSeq
  <2>3. DOMAIN Tail(j.todo) = 1..(Len(j.todo) - 1)
    BY <2>1, LenProperties
  <2>4. ASSUME NEW f, NEW a \in DOMAIN j.todo, j.todo[a] = f, f # h PROVE Has(i.todo, f)
    <3>1. a - 1 \in 1..(Len(j.todo) - 1) /\ (a - 1) + 1 = a
      BY <2>1, <2>4
    <3>2. Tail(j.todo)[a - 1] = f
      BY <2>1, <2>4, <3>1
    <3> QED
      BY <1>5, <2>3, <3>1, <3>2 DEF Has
  <2> QED
    BY <2>2, <2>4 DEF Has
<1>9. /\ DOMAIN files = Outputs /\ DOMAIN files' = Outputs
      /\ \A f \in Outputs : files'[f] = IF f = h THEN Body(j.inputs, j.rows)[f] ELSE files[f]
  <2>1. DOMAIN files = Outputs
    BY DEF WriteInv
  <2>2. CASE h = "toml"
    <3>1. files' = files
      BY <1>2, <1>7, <2>2 DEF GenerateWrite
    <3> QED
      BY <2>1, <2>2, <3>1 DEF Outputs
  <2>3. CASE h = "compose"
    <3>1. files' = [files EXCEPT !.compose = ComposeOf(j.inputs, j.rows)]
      BY <1>2, <1>7, <2>3 DEF GenerateWrite
    <3> QED
      BY <2>1, <2>3, <3>1 DEF Outputs, Body
  <2>4. CASE h \in {"clusterTs", "capnp"}
    <3>1. files' = [files EXCEPT ![h] = Of(j.inputs)]
      BY <1>2, <1>7, <2>4 DEF GenerateWrite
    <3> QED
      BY <2>1, <2>4, <3>1 DEF Outputs, Body
  <2> QED
    BY <1>8, <2>2, <2>3, <2>4
<1>10. halves' # {}
  BY <1>1 DEF WriteInv
<1>11. ASSUME NEW r \in Procs, halves' = {r}, jobs'[r].pc = "write"
       PROVE  Written(jobs[r])' /\ \A q \in Procs : jobs'[q].pc = "write" => q = r
  <2>1. jobs[r].pc = "write"
    BY <1>1, <1>6, <1>11
  <2>2. Written(jobs[r]) /\ \A q \in Procs : jobs[q].pc = "write" => q = r
    BY <1>1, <1>11, <2>1 DEF WriteInv
  <2>3. r = p
    BY <1>1, <2>2
  <2>4. ASSUME NEW f \in Outputs PROVE Has(i.todo, f) \/ files'[f] = Body(i.inputs, i.rows)[f]
    <3>1. Has(j.todo, f) \/ files[f] = Body(j.inputs, j.rows)[f]
      BY <1>2, <2>2, <2>3 DEF Written
    <3> QED
      BY <1>5, <1>8, <1>9, <3>1
  <2>5. Written(jobs[r])'
    BY <1>6, <2>3, <2>4 DEF Written
  <2> QED
    BY <1>1, <1>6, <2>2, <2>3, <2>5
<1> QED
  BY <1>9, <1>10, <1>11 DEF WriteInv

\* The bodies of one generation agree.
LEMMA BodyIsOfOne ==
  ASSUME NEW inputs, NEW rows, NEW f, DOMAIN f = Outputs, \A x \in Outputs : f[x] = Body(inputs, rows)[x]
  PROVE  OfOne(f)
<1>1. f.clusterTs = Of(inputs) /\ f.capnp = Of(inputs) /\ f.compose = ComposeOf(inputs, rows)
  BY DEF Outputs, Body
<1>2. Of(inputs) # None /\ Of(inputs).inputs = inputs
  <2>1. "inputs" \in DOMAIN Of(inputs) /\ "inputs" \notin DOMAIN None
    BY DEF Of, None
  <2> QED
    BY <2>1 DEF Of
<1>3. ComposeOf(inputs, rows) # None /\ ComposeOf(inputs, rows).inputs = inputs
  <2>1. "inputs" \in DOMAIN ComposeOf(inputs, rows) /\ "inputs" \notin DOMAIN None
    BY DEF ComposeOf, None
  <2> QED
    BY <2>1 DEF ComposeOf
<1> QED
  BY <1>1, <1>2, <1>3 DEF OfOne

\* Nothing is left to write.
LEMMA GenerateEndWrites ==
  ASSUME WorkInv, WriteInv, NEW p \in Procs, GenerateEnd(p) PROVE WriteInv'
<1>1. /\ jobs[p].pc = "write" /\ jobs[p].todo = <<>> /\ files' = files
      /\ jobs' = [jobs EXCEPT ![p] = Idle] /\ halves' = IF halves = {p} THEN {} ELSE halves
      /\ jobs \in [Procs -> JobSet] /\ Idle.pc = "idle"
  BY JobOf DEF GenerateEnd, End, workFiles, Idle
<1>2. CASE halves = {p}
  <2>1. Written(jobs[p]) /\ \A q \in Procs : jobs[q].pc = "write" => q = p
    BY <1>1, <1>2 DEF WriteInv
  <2>2. \A f : ~ Has(jobs[p].todo, f)
    BY <1>1 DEF Has
  <2>3. DOMAIN files = Outputs /\ \A f \in Outputs : files[f] = Body(jobs[p].inputs, jobs[p].rows)[f]
    BY <2>1, <2>2 DEF Written, WriteInv
  <2>4. OfOne(files') /\ DOMAIN files' = Outputs
    BY <1>1, <2>3, BodyIsOfOne
  <2>5. halves' = {} /\ \A q \in Procs : jobs'[q].pc # "write"
    BY <1>1, <1>2, <2>1
  <2>6. \A q \in Procs : halves' # {q}
    BY <2>5
  <2> QED
    BY <2>4, <2>5, <2>6 DEF WriteInv
<1>3. CASE halves # {p}
  <2>1. halves' = halves /\ Idle.pc # "write"
    BY <1>1, <1>3
  <2> QED
    BY <1>1, <2>1, JobMovesOn
<1> QED
  BY <1>2, <1>3

\* Every step keeps what is known of the files.
LEMMA WriteStep ==
  ASSUME WorkInv, WriteInv, [WorkNext]_workVars PROVE WriteInv'
<1>1. CASE UNCHANGED workVars \/ Republish \/ Repush \/ EditToml
  <2>1. files' = files /\ halves' = halves /\ jobs' = jobs
    BY <1>1 DEF workVars, workFiles, Republish, Repush, EditToml
  <2> QED
    BY <2>1, NobodyWrites
<1>2. ASSUME NEW p \in Procs,
             \/ ResolveClusterInputs(p) \/ AddInput(p) \/ AddTruncate(p) \/ AddFill(p) \/ Fetch(p) \/ ProbeEach(p)
             \/ ProbePrimary(p) \/ NoProbe(p) \/ WriteLock(p) \/ AddTruncateLock(p) \/ AddFillLock(p)
      PROVE  WriteInv'
  BY <1>2, ResolutionWritesNothing
<1>3. ASSUME NEW p \in Procs,
             \/ GenerateReadToml(p) \/ BuildManifest(p) \/ ArtifactsPull(p) \/ Pull(p) \/ PullEnd(p)
             \/ ClusterUp(p) \/ ClusterDown(p) \/ Kill(p)
      PROVE  WriteInv'
  BY <1>3, OthersWriteNothing
<1>4. ASSUME NEW p \in Procs, Compute(p) \/ GenerateWrite(p) \/ GenerateEnd(p) PROVE WriteInv'
  BY <1>4, ComputeWrites, GenerateWriteWrites, GenerateEndWrites
<1> QED
  BY <1>1, <1>2, <1>3, <1>4 DEF WorkNext

\* The manifest is built from what the lockfile is read as.
LEMMA BuiltStep ==
  ASSUME WorkInv, BuiltInv, [WorkNext]_workVars PROVE BuiltInv'
<1>1. CASE built' = built
  BY <1>1 DEF BuiltInv
<1>2. ASSUME NEW p \in Procs, BuildManifest(p), built' # built PROVE BuiltInv'
  <2>1. PICK rows \in LockReadings :
          LET generated == FlattenSeq([k \in DOMAIN rows |-> rows[k].backends])
              backends == OverlayLockfileBackends(Shells, generated)
          IN  built' = IF (\E k \in DOMAIN generated : RowIsRefused(generated[k])) \/ ~ BuildValidate(backends)
                       THEN built ELSE [rows |-> rows, backends |-> backends]
    BY <1>2 DEF BuildManifest
  <2>2. built' = [rows |-> rows, backends |-> Manifested(rows)] /\ BuildValidate(Manifested(rows))
    BY <1>2, <2>1 DEF Manifested
  <2>3. rows \in Seq(RowSet)
    BY Readings
  <2>4. built'.rows = rows /\ built'.backends = Manifested(rows)
    BY <2>2
  <2> QED
    BY <2>2, <2>3, <2>4 DEF BuiltInv
<1>3. built' = built \/ \E p \in Procs : BuildManifest(p)
  BY DEF WorkNext, ResolveClusterInputs, AddInput, AddTruncate, AddFill, Fetch, ProbeEach, ProbePrimary, NoProbe,
         WriteLock, AddTruncateLock, AddFillLock, GenerateReadToml, Compute, GenerateWrite, GenerateEnd, ArtifactsPull,
         Pull, PullEnd, ClusterUp, ClusterDown, Kill, Republish, Repush, EditToml, workVars, workFiles
<1> QED
  BY <1>1, <1>2, <1>3

\* Whatever terminals, upstreams and operator do: a generation that had the files
\* for itself leaves them all as it would write them, and the manifest of the
\* router is what was made of the rows of a lockfile and was let through.
THEOREM GenInvariant == WorkSpec => []GenInv
<1>1. WorkInit => GenInv
  <2> SUFFICES ASSUME WorkInit PROVE GenInv
    OBVIOUS
  <2>1. files = [clusterTs |-> None, capnp |-> None, compose |-> None] /\ halves = {} /\ built = None
    BY DEF WorkInit
  <2>2. DOMAIN files = Outputs /\ OfOne(files)
    BY <2>1 DEF Outputs, OfOne
  <2>3. \A q \in Procs : jobs[q].pc = "idle"
    BY DEF WorkInit, Idle
  <2> QED
    BY <2>1, <2>2, <2>3 DEF GenInv, WriteInv, BuiltInv
<1>2. WorkInv /\ GenInv /\ [WorkNext]_workVars => GenInv'
  BY WriteStep, BuiltStep DEF GenInv
<1> QED
  BY <1>1, <1>2, WorkInvariant, PTL DEF WorkSpec

\* What the build accepts, the router accepts: that of backends with one prefix
\* all have claims follows though only some pair of them is looked at.
LEMMA BuildIsBoot ==
  ASSUME NEW S, NEW bs \in Seq(S), BuildValidate(bs)
  PROVE  Validate(bs)
<1>1. DOMAIN bs = 1..Len(bs) /\ Len(bs) \in Nat
  BY LenProperties
<1>2. ASSUME NEW i \in DOMAIN bs
      PROVE  /\ bs[i].dynamic => bs[i].prefix # <<>> \/ bs[i].claims # {}
             /\ bs[i].prefix # <<>> /\ {j \in 1..(i - 1) : bs[j].prefix = bs[i].prefix} # {}
                   => bs[i].claims # {} /\ \E j \in 1..(i - 1) : bs[j].prefix = bs[i].prefix /\ bs[j].claims # {}
             /\ \A t \in bs[i].asserted : IsPrefix(bs[i].prefix, t)
             /\ \A j \in 1..(i - 1) : bs[j].asserted \cap bs[i].asserted = {}
  BY DEF BuildValidate
<1>3. ASSUME NEW i \in DOMAIN bs, NEW j \in DOMAIN bs, i < j, bs[i].prefix = bs[j].prefix, bs[i].prefix # <<>>
      PROVE  bs[i].claims # {} /\ bs[j].claims # {}
  <2>1. i \in 1..(j - 1) /\ j \in Nat /\ i \in Nat
    BY <1>1, <1>3
  <2>2. bs[j].claims # {}
    BY <1>2, <1>3, <2>1
  <2>3. PICK Equal : Equal = {k \in 1..Len(bs) : bs[k].prefix = bs[i].prefix}
    OBVIOUS
  <2>4. Equal \subseteq Nat /\ i \in Equal /\ j \in Equal
    BY <1>1, <1>3, <2>3
  <2>5. PICK a \in Equal : \A k \in Equal : a <= k
    BY <2>4, LeastOf
  <2>6. CASE i # a
    <3>1. a \in 1..(i - 1) /\ bs[a].prefix = bs[i].prefix
      BY <2>1, <2>3, <2>4, <2>5, <2>6
    <3> QED
      BY <1>2, <1>3, <2>2, <3>1
  <2>7. CASE i = a
    <3>1. PICK Later : Later = Equal \ {i}
      OBVIOUS
    <3>0. i # j
      BY <1>3, <2>1
    <3>2. Later \subseteq Nat /\ j \in Later
      BY <2>4, <3>0, <3>1
    <3>3. PICK c \in Later : \A k \in Later : c <= k
      BY <3>2, LeastOf
    <3>4. c \in 1..Len(bs) /\ c # i /\ bs[c].prefix = bs[i].prefix /\ c \in Nat /\ i <= c
      BY <2>3, <2>4, <2>5, <2>7, <3>1, <3>3
    <3>5. i \in 1..(c - 1)
      BY <1>1, <1>3, <3>4
    <3>6. PICK k \in 1..(c - 1) : bs[k].prefix = bs[c].prefix /\ bs[k].claims # {}
      BY <1>1, <1>2, <1>3, <3>4, <3>5
    <3>7. k \in Equal
      BY <1>1, <2>3, <3>4, <3>6
    <3>8. k \notin Later
      BY <3>3, <3>4, <3>6
    <3>9. k = i
      BY <3>1, <3>7, <3>8
    <3> QED
      BY <2>2, <3>6, <3>9
  <2> QED
    BY <2>6, <2>7
<1>4. ASSUME NEW i \in DOMAIN bs, NEW j \in DOMAIN bs, i < j
      PROVE  PrefixesApart(bs[i], bs[j]) /\ NamesApart(bs[i], bs[j])
  <2>1. i \in 1..(j - 1)
    BY <1>1, <1>4
  <2>2. bs[i].asserted \cap bs[j].asserted = {}
    BY <1>2, <2>1
  <2> QED
    BY <1>3, <1>4, <2>2 DEF PrefixesApart, NamesApart
<1> QED
  BY <1>2, <1>4 DEF Validate, DynamicIsRouted

-----------------------------------------------------------------------------
\* The overlay puts a backend in, and leaves those of other names where they are.
LEMMA OverlayOneIs ==
  ASSUME NEW B, NEW s \in Seq(B), NEW b \in B
  PROVE  /\ OverlayOne(s, b) \in Seq(B) /\ Has(OverlayOne(s, b), b)
         /\ \A x : Has(s, x) /\ x.name # b.name => Has(OverlayOne(s, b), x)
<1>1. DOMAIN s = 1..Len(s) /\ Len(s) \in Nat /\ \A i \in 1..Len(s) : s[i] \in B
  BY LenProperties, ElementOfSeq
<1>2. PICK At : At = {i \in DOMAIN s : s[i].name = b.name}
  OBVIOUS
<1>3. PICK t : t = OverlayOne(s, b)
  OBVIOUS
<1>4. CASE At = {}
  <2>1. t = Append(s, b)
    BY <1>2, <1>3, <1>4 DEF OverlayOne
  <2>2. t \in Seq(B) /\ Len(t) = Len(s) + 1 /\ t[Len(s) + 1] = b /\ \A i \in 1..Len(s) : t[i] = s[i]
    BY <2>1, AppendProperties
  <2>3. DOMAIN t = 1..(Len(s) + 1)
    BY <2>2, LenProperties
  <2>4. DOMAIN s \subseteq DOMAIN t /\ Len(s) + 1 \in DOMAIN t
    BY <1>1, <2>3
  <2>5. Has(t, b) /\ \A x : Has(s, x) => Has(t, x)
    BY <1>1, <2>2, <2>4 DEF Has
  <2> QED
    BY <1>3, <2>2, <2>5
<1>5. CASE At # {}
  <2>1. PICK a : a = CHOOSE i \in At : \A j \in At : j <= i
    OBVIOUS
  <2>2. a \in At
    <3>1. At \subseteq 1..Len(s)
      BY <1>1, <1>2
    <3>2. \E i \in At : \A j \in At : j <= i
      BY <1>1, <1>5, <3>1, GreatestOf
    <3> QED
      BY <2>1, <3>2
  <2>3. t = [s EXCEPT ![a] = b]
    BY <1>2, <1>3, <1>5, <2>1 DEF OverlayOne
  <2>4. a \in 1..Len(s) /\ s[a].name = b.name
    BY <1>1, <1>2, <2>2
  <2>5. t \in [1..Len(s) -> B] /\ DOMAIN t = DOMAIN s /\ t[a] = b /\ \A i \in DOMAIN s : i # a => t[i] = s[i]
    BY <1>1, <2>3, <2>4
  <2>6. t \in Seq(B)
    BY <1>1, <2>5, SeqDef
  <2>7. Has(t, b)
    BY <1>1, <2>4, <2>5 DEF Has
  <2>8. ASSUME NEW x, Has(s, x), x.name # b.name PROVE Has(t, x)
    <3>1. PICK i \in DOMAIN s : s[i] = x
      BY <2>8 DEF Has
    <3>2. i # a
      BY <2>4, <2>8, <3>1
    <3> QED
      BY <2>5, <3>1, <3>2 DEF Has
  <2> QED
    BY <1>3, <2>6, <2>7, <2>8
<1> QED
  BY <1>4, <1>5

\* The loop over the rows, as a function from the rows done to what it has then. It
\* exists and is the only one, because no first row is an exception.
Unlooped(shells) == [backends |-> shells, given |-> <<>>]
Loops(shells, rows, n, f) ==
  /\ f = [i \in 0..n |-> f[i]]
  /\ \A i \in 0..n : f[i] = IF i = 0 THEN Unlooped(shells) ELSE OverlayRow(f[i - 1], rows[i])

LEMMA LoopsExist ==
  ASSUME NEW shells, NEW rows, NEW m \in Nat
  PROVE  \E f : Loops(shells, rows, m, f)
<1>1. PICK Bad : Bad = {n \in Nat : ~ \E f : Loops(shells, rows, n, f)}
  OBVIOUS
<1>2. SUFFICES ASSUME Bad # {} PROVE FALSE
  BY <1>1
<1>3. Bad \subseteq Nat
  BY <1>1
<1>4. PICK n \in Bad : \A j \in Bad : n <= j
  BY <1>2, <1>3, LeastOf
<1>5. n \in Nat /\ ~ \E f : Loops(shells, rows, n, f)
  BY <1>1
<1>6. CASE n = 0
  <2>1. PICK f : f = [i \in 0..0 |-> Unlooped(shells)]
    OBVIOUS
  <2>2. f = [i \in 0..0 |-> f[i]] /\ \A i \in 0..0 : i = 0 /\ f[i] = Unlooped(shells)
    BY <2>1
  <2>3. Loops(shells, rows, 0, f)
    BY <2>2 DEF Loops
  <2> QED
    BY <1>5, <1>6, <2>3
<1>7. CASE n > 0
  <2>1. n - 1 \in Nat /\ n - 1 \in 0..(n - 1) /\ n - 1 \notin Bad
    BY <1>4, <1>5, <1>7
  <2>2. PICK f : Loops(shells, rows, n - 1, f)
    BY <1>1, <2>1
  <2>3. \A i \in 0..(n - 1) : f[i] = IF i = 0 THEN Unlooped(shells) ELSE OverlayRow(f[i - 1], rows[i])
    BY <2>2 DEF Loops
  <2>4. PICK last : last = OverlayRow(f[n - 1], rows[n])
    OBVIOUS
  <2>5. PICK g : g = [i \in 0..n |-> IF i < n THEN f[i] ELSE last]
    OBVIOUS
  <2>6. g = [i \in 0..n |-> g[i]] /\ g[n] = last /\ \A i \in 0..(n - 1) : g[i] = f[i]
    BY <1>5, <2>5
  <2>7. ASSUME NEW i \in 0..n PROVE g[i] = IF i = 0 THEN Unlooped(shells) ELSE OverlayRow(g[i - 1], rows[i])
    <3>1. CASE i < n
      <4>1. i \in 0..(n - 1) /\ (i # 0 => i - 1 \in 0..(n - 1))
        BY <1>5, <3>1
      <4>2. g[i] = f[i] /\ (i # 0 => g[i - 1] = f[i - 1])
        BY <2>6, <4>1
      <4>3. f[i] = IF i = 0 THEN Unlooped(shells) ELSE OverlayRow(f[i - 1], rows[i])
        BY <2>3, <4>1
      <4> QED
        BY <4>2, <4>3
    <3>2. CASE i = n
      <4>1. n # 0 /\ g[n - 1] = f[n - 1] /\ g[n] = last
        BY <1>7, <2>1, <2>6
      <4>2. g[n] = OverlayRow(g[n - 1], rows[n])
        BY <2>4, <4>1
      <4> QED
        BY <3>2, <4>1, <4>2
    <3> QED
      BY <1>5, <3>1, <3>2
  <2>8. Loops(shells, rows, n, g)
    BY <2>6, <2>7 DEF Loops
  <2> QED
    BY <1>5, <2>8
<1> QED
  BY <1>5, <1>6, <1>7

\* The overlay is what the loop has in the end.
LEMMA OverlayLoops ==
  ASSUME NEW shells, NEW G, NEW rows \in Seq(G)
  PROVE  \E f : Loops(shells, rows, Len(rows), f) /\ OverlayLockfileBackends(shells, rows) = f[Len(rows)].backends
<1>1. Len(rows) \in Nat
  BY LenProperties
<1>2. PICK f : Loops(shells, rows, Len(rows), f)
  BY <1>1, LoopsExist
<1>3. f = [i \in 0..Len(rows) |-> IF i = 0 THEN Unlooped(shells) ELSE OverlayRow(f[i - 1], rows[i])]
  BY <1>2 DEF Loops
<1>4. PICK h : h = CHOOSE g : g = [i \in 0..Len(rows) |->
                                     IF i = 0 THEN Unlooped(shells) ELSE OverlayRow(g[i - 1], rows[i])]
  OBVIOUS
<1>5. h = [i \in 0..Len(rows) |-> IF i = 0 THEN Unlooped(shells) ELSE OverlayRow(h[i - 1], rows[i])]
  BY <1>3, <1>4
<1>6. Loops(shells, rows, Len(rows), h)
  BY <1>5 DEF Loops
<1>7. OverlayLockfileBackends(shells, rows) = h[Len(rows)].backends
  BY <1>4 DEF OverlayLockfileBackends, Unlooped
<1> QED
  BY <1>6, <1>7

-----------------------------------------------------------------------------
\* What a row may become, the name that it is given, and what the loop knows of the
\* names that it gave.
Named(row, n) == [BackendFromGeneratedRow(row) EXCEPT !.name = n]
Given(f, rows, k) == NameOf(f[k - 1].given, rows[k])
KnowsGiven(f, rows, i) ==
  /\ \A k \in 1..i : Given(f, rows, k) \in DOMAIN f[i].given
  /\ \A n \in DOMAIN f[i].given : \E k \in 1..i : n = Given(f, rows, k) /\ f[i].given[n] = rows[k].input

LEMMA NamedIs ==
  ASSUME NEW row, NEW n
  PROVE  /\ Named(row, n).name = n /\ Named(row, n).claims = row.claims
         /\ Named(row, n).prefix = row.prefix /\ Named(row, n).strip = row.strip
  BY DEF Named, BackendFromGeneratedRow

\* A step of the loop.
StepsTo(f, rows, i, name) ==
  /\ f[i].backends = OverlayOne(f[i - 1].backends, Named(rows[i], name))
  /\ f[i].given = [n \in DOMAIN f[i - 1].given \cup {name} |->
                     IF n = name THEN rows[i].input ELSE f[i - 1].given[n]]
LEMMA LoopStep ==
  ASSUME NEW shells, NEW rows, NEW m \in Nat, NEW f, Loops(shells, rows, m, f), NEW i \in 1..m
  PROVE  i - 1 \in 0..m /\ StepsTo(f, rows, i, Given(f, rows, i))
<1>1. i \in 0..m /\ i # 0 /\ i - 1 \in 0..m
  OBVIOUS
<1>2. f[i] = OverlayRow(f[i - 1], rows[i])
  BY <1>1 DEF Loops
<1>3. PICK done, row : done = f[i - 1] /\ row = rows[i]
  OBVIOUS
<1>4. /\ OverlayRow(done, row).backends = OverlayOne(done.backends, Named(row, NameOf(done.given, row)))
      /\ OverlayRow(done, row).given = [n \in DOMAIN done.given \cup {NameOf(done.given, row)} |->
                                          IF n = NameOf(done.given, row) THEN row.input ELSE done.given[n]]
  BY DEF OverlayRow, Named
<1> QED
  BY <1>1, <1>2, <1>3, <1>4 DEF Given, StepsTo

\* The loop knows every name that it gave, and a row that has it.
LEMMA LoopKnows ==
  ASSUME NEW shells, NEW rows, NEW m \in Nat, NEW f, Loops(shells, rows, m, f), NEW i \in 0..m
  PROVE  KnowsGiven(f, rows, i)
<1>1. PICK Bad : Bad = {n \in 0..m : ~ KnowsGiven(f, rows, n)}
  OBVIOUS
<1>2. SUFFICES ASSUME Bad # {} PROVE FALSE
  BY <1>1
<1>3. Bad \subseteq Nat
  BY <1>1
<1>4. PICK n \in Bad : \A j \in Bad : n <= j
  BY <1>2, <1>3, LeastOf
<1>5. n \in 0..m /\ n \in Nat /\ ~ KnowsGiven(f, rows, n)
  BY <1>1
<1>6. n # 0
  <2>1. f[0] = Unlooped(shells)
    <3>1. 0 \in 0..m
      OBVIOUS
    <3> QED
      BY <3>1 DEF Loops
  <2>2. DOMAIN f[0].given = {}
    BY <2>1 DEF Unlooped
  <2>3. KnowsGiven(f, rows, 0)
    BY <2>2 DEF KnowsGiven
  <2> QED
    BY <1>5, <2>3
<1>7. n \in 1..m /\ n - 1 \in 0..m /\ n - 1 \notin Bad
  BY <1>4, <1>5, <1>6
<1>8. KnowsGiven(f, rows, n - 1)
  BY <1>1, <1>7
<1>9. PICK name, old, new : name = Given(f, rows, n) /\ old = f[n - 1].given /\ new = f[n].given
  OBVIOUS
<1>10. new = [x \in DOMAIN old \cup {name} |-> IF x = name THEN rows[n].input ELSE old[x]]
  <2>1. StepsTo(f, rows, n, Given(f, rows, n))
    BY <1>7, LoopStep
  <2> QED
    BY <1>9, <2>1 DEF StepsTo
<1>11. /\ \A k \in 1..(n - 1) : Given(f, rows, k) \in DOMAIN old
       /\ \A x \in DOMAIN old : \E k \in 1..(n - 1) : x = Given(f, rows, k) /\ old[x] = rows[k].input
  BY <1>8, <1>9 DEF KnowsGiven
<1>12. \A k \in 1..n : k \in 1..(n - 1) \/ k = n
  BY <1>5
<1>13. \A k \in 1..n : Given(f, rows, k) \in DOMAIN new
  BY <1>9, <1>10, <1>11, <1>12
<1>14. ASSUME NEW x \in DOMAIN new PROVE \E k \in 1..n : x = Given(f, rows, k) /\ new[x] = rows[k].input
  <2>1. CASE x = name
    <3>1. n \in 1..n /\ x = Given(f, rows, n) /\ new[x] = rows[n].input
      BY <1>7, <1>9, <1>10, <2>1
    <3> QED
      BY <3>1
  <2>2. CASE x # name
    <3>1. x \in DOMAIN old /\ new[x] = old[x]
      BY <1>10, <2>2
    <3>2. PICK k \in 1..(n - 1) : x = Given(f, rows, k) /\ old[x] = rows[k].input
      BY <1>11, <3>1
    <3>3. k \in 1..n
      BY <1>5
    <3> QED
      BY <3>1, <3>2, <3>3
  <2> QED
    BY <2>1, <2>2
<1>15. KnowsGiven(f, rows, n)
  BY <1>9, <1>13, <1>14 DEF KnowsGiven
<1> QED
  BY <1>5, <1>15

\* The backends stay a list, and no name that was given once is overlaid later if
\* the names differ.
LEMMA LoopKeeps ==
  ASSUME NEW B, NEW shells \in Seq(B), NEW rows, NEW m \in Nat, NEW f, Loops(shells, rows, m, f),
         \A k \in 1..m : Named(rows[k], Given(f, rows, k)) \in B
  PROVE  /\ \A i \in 0..m : f[i].backends \in Seq(B)
         /\ (\A k, l \in 1..m : Given(f, rows, k) = Given(f, rows, l) => k = l)
               => \A k \in 1..m : Has(f[m].backends, Named(rows[k], Given(f, rows, k)))
<1>1. \A i \in 0..m : f[i].backends \in Seq(B)
  <2>1. PICK Bad : Bad = {n \in 0..m : f[n].backends \notin Seq(B)}
    OBVIOUS
  <2>2. SUFFICES ASSUME Bad # {} PROVE FALSE
    BY <2>1
  <2>3. Bad \subseteq Nat
    BY <2>1
  <2>4. PICK n \in Bad : \A j \in Bad : n <= j
    BY <2>2, <2>3, LeastOf
  <2>5. n \in 0..m /\ n \in Nat /\ f[n].backends \notin Seq(B)
    BY <2>1
  <2>6. n # 0
    <3>1. f[0] = Unlooped(shells)
      <4>1. 0 \in 0..m
        OBVIOUS
      <4> QED
        BY <4>1 DEF Loops
    <3>2. f[0].backends = shells
      BY <3>1 DEF Unlooped
    <3> QED
      BY <2>5, <3>2
  <2>7. n \in 1..m /\ n - 1 \in 0..m /\ n - 1 \notin Bad
    BY <2>4, <2>5, <2>6
  <2>8. f[n - 1].backends \in Seq(B) /\ Named(rows[n], Given(f, rows, n)) \in B
    BY <2>1, <2>7
  <2>9. f[n].backends = OverlayOne(f[n - 1].backends, Named(rows[n], Given(f, rows, n)))
    <3>1. StepsTo(f, rows, n, Given(f, rows, n))
      BY <2>7, LoopStep
    <3> QED
      BY <3>1 DEF StepsTo
  <2> QED
    BY <2>5, <2>8, <2>9, OverlayOneIs
<1>2. ASSUME \A k, l \in 1..m : Given(f, rows, k) = Given(f, rows, l) => k = l, NEW k \in 1..m,
             NEW b, b = Named(rows[k], Given(f, rows, k))
      PROVE  Has(f[m].backends, b)
  <2>1. PICK Bad : Bad = {n \in 0..m : k <= n /\ ~ Has(f[n].backends, b)}
    OBVIOUS
  <2>2. SUFFICES ASSUME Bad # {} PROVE FALSE
    <3>1. m \in 0..m /\ k <= m
      OBVIOUS
    <3> QED
      BY <2>1, <3>1
  <2>3. Bad \subseteq Nat
    BY <2>1
  <2>4. PICK n \in Bad : \A j \in Bad : n <= j
    BY <2>2, <2>3, LeastOf
  <2>5. k <= n /\ n \in 1..m /\ ~ Has(f[n].backends, b)
    BY <2>1
  <2>6. PICK s, c : s = f[n - 1].backends /\ c = Named(rows[n], Given(f, rows, n))
    OBVIOUS
  <2>7. f[n].backends = OverlayOne(s, c) /\ n - 1 \in 0..m
    <3>1. n - 1 \in 0..m /\ StepsTo(f, rows, n, Given(f, rows, n))
      BY <2>5, LoopStep
    <3> QED
      BY <2>6, <3>1 DEF StepsTo
  <2>8. s \in Seq(B) /\ c \in B
    BY <1>1, <2>5, <2>6, <2>7
  <2>9. Has(f[n].backends, c) /\ \A x : Has(s, x) /\ x.name # c.name => Has(f[n].backends, x)
    BY <2>7, <2>8, OverlayOneIs
  <2>10. k # n
    BY <1>2, <2>5, <2>6, <2>9
  <2>11. n - 1 \notin Bad /\ k <= n - 1
    BY <2>4, <2>5, <2>10
  <2>12. Has(s, b)
    BY <2>1, <2>6, <2>7, <2>11
  <2>13. b.name = Given(f, rows, k) /\ c.name = Given(f, rows, n)
    BY <1>2, <2>6, NamedIs
  <2>14. b.name # c.name
    BY <1>2, <2>5, <2>10, <2>13
  <2> QED
    BY <2>5, <2>9, <2>12, <2>14
<1> QED
  BY <1>1, <1>2

-----------------------------------------------------------------------------
\* Generated rows are told apart by their input and their name.
KeyApart(s) == \A a, b \in DOMAIN s : s[a].input = s[b].input /\ s[a].name = s[b].name => a = b
Offers == UNION {ToSet(r.backends) : r \in RowSet}
OffersGroup(b, g) == b.claims = g.names /\ b.prefix = g.prefix /\ b.strip = DeriveStripPrefix(g)

\* The rows that are generated for an input: its own, told apart, one per group.
LEMMA RowOffers ==
  ASSUME NEW r \in RowSet
  PROVE  /\ r.backends \in Seq(Offers) /\ KeyApart(r.backends)
         /\ \A i \in DOMAIN r.backends : r.backends[i].input = r.name
         /\ \A g \in ToSet(ParseServerJsonMeta(r.doc)) : \E i \in DOMAIN r.backends : OffersGroup(r.backends[i], g)
<1>1. r \in RowFacts /\ RowGood(r)
  BY DEF RowSet
<1>2. r.doc \in AllDocs /\ ~ MetaIsMalformed(r.doc)
  BY <1>1 DEF RowFacts, RowGood, DocGood
<1>3. PICK x \in Specs : x.name = r.name /\ r.backends = DeriveGeneratedBackends(x, r.doc)
  BY <1>1 DEF RowGood
<1>4. PICK groups : groups = ParseServerJsonMeta(r.doc)
  OBVIOUS
<1>5. groups \in Seq(Groups) /\ (groups # <<>> => r.doc.json /\ groups = r.doc.groups)
  BY <1>2, <1>4, WorkspaceAssumption DEF ParseServerJsonMeta
<1>6. DOMAIN groups = 1..Len(groups) /\ Len(groups) \in Nat
  BY <1>5, LenProperties
<1>7. \A n, p, s, c : /\ GeneratedRow(x, r.doc, n, p, s, c).input = x.name
                      /\ GeneratedRow(x, r.doc, n, p, s, c).name = n
                      /\ GeneratedRow(x, r.doc, n, p, s, c).prefix = p
                      /\ GeneratedRow(x, r.doc, n, p, s, c).strip = s
                      /\ GeneratedRow(x, r.doc, n, p, s, c).claims = c
  BY DEF GeneratedRow
<1>8. ASSUME NEW bs, bs = r.backends, NEW n \in Nat, DOMAIN bs = 1..n, bs = [i \in 1..n |-> bs[i]]
      PROVE  bs \in Seq(Offers)
  <2>1. ASSUME NEW i \in 1..n PROVE bs[i] \in Offers
    <3>1. bs[i] \in ToSet(r.backends)
      BY <1>8 DEF ToSet
    <3>2. ToSet(r.backends) \in {ToSet(q.backends) : q \in RowSet}
      OBVIOUS
    <3> QED
      BY <3>1, <3>2 DEF Offers
  <2>2. bs \in [1..n -> Offers]
    BY <1>8, <2>1
  <2> QED
    BY <2>2, SeqDef
<1>9. CASE IsArtifactOnly(r.doc)
  <2>1. r.backends = <<>> /\ groups = <<>>
    BY <1>3, <1>4, <1>9 DEF DeriveGeneratedBackends, IsArtifactOnly, ParseServerJsonMeta
  <2>2. DOMAIN r.backends = {} /\ DOMAIN groups = {}
    BY <1>6, <2>1
  <2> QED
    BY <1>4, <2>1, <2>2 DEF KeyApart, ToSet
<1>10. CASE ~ IsArtifactOnly(r.doc) /\ groups = <<>>
  <2>1. PICK one : one = GeneratedRow(x, r.doc, x.name, <<>>, <<>>, {})
    OBVIOUS
  <2>2. r.backends = <<one>>
    BY <1>3, <1>4, <1>10, <2>1 DEF DeriveGeneratedBackends
  <2>3. /\ DOMAIN r.backends = 1..1 /\ r.backends = [i \in 1..1 |-> r.backends[i]]
        /\ \A i \in 1..1 : i = 1 /\ r.backends[i] = one
    BY <2>2
  <2>4. r.backends \in Seq(Offers)
    BY <1>8, <2>3
  <2>5. one.input = r.name
    BY <1>3, <1>7, <2>1
  <2>6. DOMAIN groups = {}
    BY <1>6, <1>10
  <2> QED
    BY <1>4, <2>3, <2>4, <2>5, <2>6 DEF KeyApart, ToSet
<1>11. CASE ~ IsArtifactOnly(r.doc) /\ groups # <<>>
  <2>1. r.backends = [i \in DOMAIN groups |->
                        GeneratedRow(x, r.doc, groups[i].name, groups[i].prefix,
                                     DeriveStripPrefix(groups[i]), groups[i].names)]
    BY <1>3, <1>4, <1>11 DEF DeriveGeneratedBackends
  <2>2. PICK bs : bs = r.backends
    OBVIOUS
  <2>3. DOMAIN bs = DOMAIN groups /\ bs = [i \in 1..Len(groups) |-> bs[i]]
    BY <1>6, <2>1, <2>2
  <2>4. ASSUME NEW i \in DOMAIN groups
        PROVE  bs[i].input = r.name /\ bs[i].name = groups[i].name /\ OffersGroup(bs[i], groups[i])
    <3>1. bs[i] = GeneratedRow(x, r.doc, groups[i].name, groups[i].prefix, DeriveStripPrefix(groups[i]), groups[i].names)
      BY <2>1, <2>2
    <3> QED
      BY <1>3, <1>7, <3>1 DEF OffersGroup
  <2>5. bs \in Seq(Offers)
    BY <1>6, <1>8, <2>2, <2>3
  <2>6. \A i, j \in DOMAIN groups : i # j => groups[i].name # groups[j].name
    BY <1>2, <1>5, <1>11 DEF MetaIsMalformed
  <2>7. KeyApart(bs)
    <3>1. \A i \in DOMAIN bs : bs[i].name = groups[i].name
      BY <2>3, <2>4
    <3>2. \A i, j \in DOMAIN bs : bs[i].name = bs[j].name => i = j
      BY <2>3, <2>6, <3>1
    <3> QED
      BY <3>2 DEF KeyApart
  <2>8. \A g \in ToSet(groups) : \E i \in DOMAIN bs : OffersGroup(bs[i], g)
    BY <2>3, <2>4 DEF ToSet
  <2> QED
    BY <1>4, <2>2, <2>3, <2>4, <2>5, <2>7, <2>8
<1> QED
  BY <1>9, <1>10, <1>11

\* Lists of rows that have no input in common are told apart together.
LEMMA KeyConcat ==
  ASSUME NEW S, NEW s \in Seq(S), NEW t \in Seq(S), KeyApart(s), KeyApart(t),
         \A a \in DOMAIN s, b \in DOMAIN t : s[a].input # t[b].input
  PROVE  KeyApart(s \o t)
<1>1. PICK u : u = s \o t
  OBVIOUS
<1>2. /\ Len(s) \in Nat /\ Len(t) \in Nat
      /\ DOMAIN s = 1..Len(s) /\ DOMAIN t = 1..Len(t) /\ DOMAIN u = 1..(Len(s) + Len(t))
      /\ \A i \in 1..(Len(s) + Len(t)) : u[i] = IF i <= Len(s) THEN s[i] ELSE t[i - Len(s)]
  BY <1>1, ConcatProperties, LenProperties
<1>3. SUFFICES ASSUME NEW a \in DOMAIN u, NEW b \in DOMAIN u, u[a].input = u[b].input, u[a].name = u[b].name
               PROVE  a = b
  BY <1>1 DEF KeyApart
<1>4. ASSUME NEW i \in DOMAIN u
      PROVE  (i \in DOMAIN s /\ u[i] = s[i]) \/ (i - Len(s) \in DOMAIN t /\ u[i] = t[i - Len(s)])
  BY <1>2
<1>5. CASE a \in DOMAIN s /\ u[a] = s[a] /\ b \in DOMAIN s /\ u[b] = s[b]
  BY <1>3, <1>5 DEF KeyApart
<1>6. CASE a - Len(s) \in DOMAIN t /\ u[a] = t[a - Len(s)] /\ b - Len(s) \in DOMAIN t /\ u[b] = t[b - Len(s)]
  <2>1. a - Len(s) = b - Len(s)
    BY <1>3, <1>6 DEF KeyApart
  <2> QED
    BY <1>2, <2>1
<1>7. CASE a \in DOMAIN s /\ u[a] = s[a] /\ b - Len(s) \in DOMAIN t /\ u[b] = t[b - Len(s)]
  BY <1>3, <1>7
<1>8. CASE b \in DOMAIN s /\ u[b] = s[b] /\ a - Len(s) \in DOMAIN t /\ u[a] = t[a - Len(s)]
  BY <1>3, <1>8
<1> QED
  BY <1>4, <1>5, <1>6, <1>7, <1>8

\* All rows of a lockfile whose inputs have names of their own are told apart.
OffersOf(rows) == FlattenSeq([k \in DOMAIN rows |-> rows[k].backends])
LEMMA OffersAre ==
  ASSUME NEW rows \in Seq(RowSet)
  PROVE  /\ OffersOf(rows) \in Seq(Offers)
         /\ \A x : Has(OffersOf(rows), x) <=> \E k \in DOMAIN rows : Has(rows[k].backends, x)
         /\ (\A k, l \in DOMAIN rows : rows[k].name = rows[l].name => k = l) => KeyApart(OffersOf(rows))
<1>1. DOMAIN rows = 1..Len(rows) /\ Len(rows) \in Nat /\ \A k \in DOMAIN rows : rows[k] \in RowSet
  BY LenProperties, ElementOfSeq
<1>2. PICK ss : ss = [k \in DOMAIN rows |-> rows[k].backends]
  OBVIOUS
<1>3. DOMAIN ss = 1..Len(rows) /\ \A k \in 1..Len(rows) : ss[k] = rows[k].backends /\ ss[k] \in Seq(Offers)
  BY <1>1, <1>2, RowOffers
<1>4. ss \in [1..Len(rows) -> Seq(Offers)]
  BY <1>1, <1>2, <1>3
<1>5. ss \in Seq(Seq(Offers))
  BY <1>1, <1>4, SeqDef
<1>6. Len(ss) = Len(rows)
  BY <1>1, <1>3, <1>5, LenProperties
<1>7. FlattenSeq(ss) \in Seq(Offers) /\ \A x : Has(FlattenSeq(ss), x) <=> \E k \in DOMAIN ss : Has(ss[k], x)
  BY <1>5, FlattenIs
<1>8. \A x : (\E k \in DOMAIN ss : Has(ss[k], x)) <=> \E k \in DOMAIN rows : Has(rows[k].backends, x)
  BY <1>1, <1>3
<1>9. ASSUME \A k, l \in DOMAIN rows : rows[k].name = rows[l].name => k = l PROVE KeyApart(FlattenSeq(ss))
  <2>1. CASE ss = <<>>
    <3>1. Len(ss) = 0
      BY <2>1
    <3>2. FlattenSeq(ss) = ss
      BY <3>1 DEF FlattenSeq
    <3>3. DOMAIN FlattenSeq(ss) = {}
      BY <1>1, <1>3, <1>6, <3>1, <3>2
    <3> QED
      BY <3>3 DEF KeyApart
  <2>2. CASE ss # <<>>
    <3>1. PICK f : Joins(ss, Offers, Len(ss), f) /\ FlattenSeq(ss) = f[Len(ss)] /\ Len(ss) \in 1..Len(ss)
      BY <1>5, <2>2, FlattenJoins
    <3>2. /\ f \in [1..Len(rows) -> Seq(Offers)]
          /\ \A i \in 1..Len(rows) : f[i] = IF i = 1 THEN ss[i] ELSE f[i - 1] \o ss[i]
          /\ \A i \in 1..Len(rows) : \A x : Has(f[i], x) <=> \E k \in 1..i : Has(ss[k], x)
      BY <1>6, <3>1 DEF Joins
    <3>3. PICK Bad : Bad = {n \in 1..Len(rows) : ~ KeyApart(f[n])}
      OBVIOUS
    <3>4. ASSUME Bad # {} PROVE FALSE
      <4>1. Bad \subseteq Nat
        BY <1>1, <3>3
      <4>2. PICK n \in Bad : \A j \in Bad : n <= j
        BY <3>4, <4>1, LeastOf
      <4>3. n \in 1..Len(rows) /\ ~ KeyApart(f[n]) /\ n \in Nat
        BY <3>3, <4>1
      <4>4. ss[n] = rows[n].backends /\ ss[n] \in Seq(Offers) /\ KeyApart(ss[n])
        BY <1>1, <1>3, <4>3, RowOffers
      <4>5. n # 1
        BY <3>2, <4>3, <4>4
      <4>6. n - 1 \in 1..Len(rows) /\ n - 1 \notin Bad
        BY <1>1, <4>2, <4>3, <4>5
      <4>7. KeyApart(f[n - 1]) /\ f[n - 1] \in Seq(Offers) /\ f[n] = f[n - 1] \o ss[n]
        BY <3>2, <3>3, <4>3, <4>5, <4>6
      <4>8. ASSUME NEW a \in DOMAIN f[n - 1], NEW b \in DOMAIN ss[n] PROVE f[n - 1][a].input # ss[n][b].input
        <5>1. Has(f[n - 1], f[n - 1][a])
          BY DEF Has
        <5>2. PICK k \in 1..(n - 1) : Has(ss[k], f[n - 1][a])
          BY <3>2, <4>6, <5>1
        <5>3. k \in DOMAIN rows /\ n \in DOMAIN rows /\ k # n
          BY <1>1, <4>3
        <5>4. PICK c \in DOMAIN ss[k] : ss[k][c] = f[n - 1][a]
          BY <5>2 DEF Has
        <5>5. ss[k][c].input = rows[k].name /\ ss[n][b].input = rows[n].name
          BY <1>1, <1>3, <5>3, RowOffers
        <5> QED
          BY <1>9, <5>3, <5>4, <5>5
      <4>9. PICK s \in Seq(Offers), t \in Seq(Offers) : s = f[n - 1] /\ t = ss[n]
        BY <4>4, <4>7
      <4>10. KeyApart(s \o t)
        BY <4>4, <4>7, <4>8, <4>9, KeyConcat
      <4> QED
        BY <4>3, <4>7, <4>9, <4>10
    <3> QED
      BY <1>6, <3>1, <3>3, <3>4
  <2> QED
    BY <2>1, <2>2
<1> QED
  BY <1>2, <1>7, <1>8, <1>9 DEF OffersOf

\* And so the names that they are given differ: who keeps its name is the first to
\* have it.
LEMMA NamesDiffer ==
  ASSUME NEW s \in Seq(Offers), KeyApart(s), NEW shells, NEW f, Loops(shells, s, Len(s), f),
         \A a, b \in DOMAIN s : /\ QualifiedName(s[a]) # s[b].name
                                /\ QualifiedName(s[a]) = QualifiedName(s[b])
                                     => s[a].input = s[b].input /\ s[a].name = s[b].name
  PROVE  \A a, b \in 1..Len(s) : Given(f, s, a) = Given(f, s, b) => a = b
<1>1. DOMAIN s = 1..Len(s) /\ Len(s) \in Nat
  BY LenProperties
<1>2. ASSUME NEW i \in DOMAIN s
      PROVE  \/ Given(f, s, i) = QualifiedName(s[i])
             \/ /\ Given(f, s, i) = s[i].name
                /\ s[i].name \in DOMAIN f[i - 1].given => f[i - 1].given[s[i].name] = s[i].input
  BY DEF Given, NameOf
<1>3. ASSUME NEW a \in DOMAIN s, NEW b \in DOMAIN s, Given(f, s, a) = Given(f, s, b), a < b PROVE FALSE
  <2>1. QualifiedName(s[a]) # s[b].name /\ QualifiedName(s[b]) # s[a].name
    OBVIOUS
  <2>2. a # b /\ a \in 1..(b - 1) /\ b - 1 \in 0..Len(s)
    BY <1>1, <1>3
  <2>3. ASSUME Given(f, s, a) = QualifiedName(s[a]), Given(f, s, b) = QualifiedName(s[b]) PROVE FALSE
    BY <1>3, <2>2, <2>3 DEF KeyApart
  <2>4. CASE Given(f, s, b) = QualifiedName(s[b])
    BY <1>2, <1>3, <2>1, <2>3, <2>4
  <2>5. CASE /\ Given(f, s, b) = s[b].name
             /\ s[b].name \in DOMAIN f[b - 1].given => f[b - 1].given[s[b].name] = s[b].input
    <3>1. KnowsGiven(f, s, b - 1)
      BY <1>1, <2>2, LoopKnows
    <3>2. Given(f, s, a) \in DOMAIN f[b - 1].given
      BY <2>2, <3>1 DEF KnowsGiven
    <3>3. s[b].name \in DOMAIN f[b - 1].given /\ f[b - 1].given[s[b].name] = s[b].input
      BY <1>3, <2>5, <3>2
    <3>4. PICK k \in 1..(b - 1) : s[b].name = Given(f, s, k) /\ f[b - 1].given[s[b].name] = s[k].input
      BY <3>1, <3>3 DEF KnowsGiven
    <3>5. k \in DOMAIN s /\ k # b
      BY <1>1
    <3>6. s[k].name = s[b].name /\ s[k].input = s[b].input
      BY <1>2, <3>3, <3>4, <3>5
    <3> QED
      BY <3>5, <3>6 DEF KeyApart
  <2> QED
    BY <1>2, <2>4, <2>5
<1>4. \A a, b \in 1..Len(s) : a < b \/ b < a \/ a = b
  BY <1>1
<1> QED
  BY <1>1, <1>3, <1>4

-----------------------------------------------------------------------------
\* A manifest is a list, and has the backend of every row where names are apart.
LEMMA ManifestIs ==
  ASSUME NEW rows \in Seq(RowSet)
  PROVE  /\ \E B : Manifested(rows) \in Seq(B)
         /\ NamesAreApart(rows) =>
              \A k \in DOMAIN rows : \A i \in DOMAIN rows[k].backends : \E b \in ToSet(Manifested(rows)) :
                 LET r == rows[k].backends[i] IN b.claims = r.claims /\ b.prefix = r.prefix /\ b.strip = r.strip
<1>1. PICK s \in Seq(Offers) : s = OffersOf(rows)
  BY OffersAre
<1>2. DOMAIN s = 1..Len(s)
  BY LenProperties
<1>3. PICK f : Loops(Shells, s, Len(s), f) /\ OverlayLockfileBackends(Shells, s) = f[Len(s)].backends
  BY OverlayLoops
<1>4. PICK B : B = ToSet(Shells) \cup {Named(s[k], Given(f, s, k)) : k \in 1..Len(s)}
  OBVIOUS
<1>5. Shells \in Seq(B) /\ \A k \in 1..Len(s) : Named(s[k], Given(f, s, k)) \in B
  <2>1. Shells \in Seq(ToSet(Shells)) /\ ToSet(Shells) \subseteq B
    BY <1>4, WorkspaceAssumption
  <2>2. Shells \in Seq(B)
    BY <2>1, SeqDef
  <2> QED
    BY <1>4, <2>2
<1>6. Manifested(rows) = f[Len(s)].backends /\ Len(s) \in 0..Len(s) /\ Len(s) \in Nat
  BY <1>1, <1>3, LenProperties DEF Manifested, OffersOf
<1>7. /\ \A i \in 0..Len(s) : f[i].backends \in Seq(B)
      /\ (\A k, l \in 1..Len(s) : Given(f, s, k) = Given(f, s, l) => k = l)
            => \A k \in 1..Len(s) : Has(f[Len(s)].backends, Named(s[k], Given(f, s, k)))
  BY <1>3, <1>5, <1>6, LoopKeeps
<1>8. ASSUME NamesAreApart(rows), NEW k \in DOMAIN rows, NEW i \in DOMAIN rows[k].backends,
             NEW r, r = rows[k].backends[i]
      PROVE  \E b \in ToSet(Manifested(rows)) : b.claims = r.claims /\ b.prefix = r.prefix /\ b.strip = r.strip
  <2>1. \A m, l \in DOMAIN rows : rows[m].name = rows[l].name => m = l
    BY <1>8 DEF NamesAreApart
  <2>2. KeyApart(s) /\ \A x : Has(s, x) <=> \E m \in DOMAIN rows : Has(rows[m].backends, x)
    BY <1>1, <2>1, OffersAre
  <2>3. ASSUME NEW a \in DOMAIN s PROVE \E m \in DOMAIN rows : s[a] \in ToSet(rows[m].backends)
    <3>1. Has(s, s[a])
      BY DEF Has
    <3>2. PICK m \in DOMAIN rows : Has(rows[m].backends, s[a])
      BY <2>2, <3>1
    <3> QED
      BY <3>2 DEF Has, ToSet
  <2>4. ASSUME NEW a \in DOMAIN s, NEW b \in DOMAIN s
        PROVE  /\ QualifiedName(s[a]) # s[b].name
               /\ QualifiedName(s[a]) = QualifiedName(s[b]) => s[a].input = s[b].input /\ s[a].name = s[b].name
    <3>1. PICK m \in DOMAIN rows : s[a] \in ToSet(rows[m].backends)
      BY <2>3
    <3>2. PICK l \in DOMAIN rows : s[b] \in ToSet(rows[l].backends)
      BY <2>3
    <3> QED
      BY <1>8, <3>1, <3>2 DEF NamesAreApart
  <2>5. \A a, b \in 1..Len(s) : Given(f, s, a) = Given(f, s, b) => a = b
    BY <1>3, <2>2, <2>4, NamesDiffer
  <2>7. Has(rows[k].backends, r)
    BY <1>8 DEF Has
  <2>8. PICK a \in DOMAIN s : s[a] = r
    BY <2>2, <2>7 DEF Has
  <2>9. Has(Manifested(rows), Named(s[a], Given(f, s, a)))
    BY <1>2, <1>6, <1>7, <2>5
  <2>10. Named(s[a], Given(f, s, a)) \in ToSet(Manifested(rows))
    BY <2>9 DEF Has, ToSet
  <2> QED
    BY <2>8, <2>10, NamedIs
<1> QED
  BY <1>6, <1>7, <1>8

\* A tool of a group that is not mixed is handled under the name it is advertised
\* by, and gets back the name it has upstream.
LEMMA GroupRoutes ==
  ASSUME NEW g \in Groups, ~ IsMixed(g), NEW b, OffersGroup(b, g), NEW u \in g.names
  PROVE  HandlesProxy(b, {}, AdvertisedName(b, u)) /\ WireName(b, AdvertisedName(b, u)) = u
<1>1. g.prefix \in Seq(STRING) /\ u \in Seq(STRING)
  BY DEF Groups
<1>2. b.claims = g.names /\ b.prefix = g.prefix /\ b.strip = DeriveStripPrefix(g) /\ b.claims # {}
  BY DEF OffersGroup
<1>3. CASE IsPrefix(g.prefix, u)
  <2>1. u \notin Bare(g)
    BY <1>3 DEF Bare
  <2>2. Bare(g) = {}
    BY <2>1 DEF IsMixed
  <2>3. b.strip = <<>> /\ AdvertisedName(b, u) = u
    BY <1>2, <1>3, <2>2 DEF DeriveStripPrefix, AdvertisedName
  <2> QED
    BY <1>2, <2>3 DEF HandlesProxy, WireName
<1>4. CASE ~ IsPrefix(g.prefix, u)
  <2>1. g.prefix # <<>>
    <3>1. IsPrefix(<<>>, u)
      BY <1>1 DEF IsPrefix
    <3> QED
      BY <1>4, <3>1
  <2>2. u \in Bare(g)
    BY <1>4 DEF Bare
  <2>3. b.strip = g.prefix /\ AdvertisedName(b, u) = g.prefix \o u
    BY <1>2, <1>4, <2>1, <2>2 DEF DeriveStripPrefix, AdvertisedName
  <2>4. IsPrefix(g.prefix, g.prefix \o u) /\ DropPrefix(g.prefix, g.prefix \o u) = u
    BY <1>1, PrefixOfConcat
  <2> QED
    BY <1>2, <2>1, <2>3, <2>4 DEF HandlesProxy, WireName
<1> QED
  BY <1>3, <1>4

LEMMA GeneratedSafe == GenInv => GeneratedHold
<1> SUFFICES ASSUME GenInv PROVE GeneratedHold
  OBVIOUS
<1>1. GeneratedAgree
  BY DEF GenInv, WriteInv, OfOne, GeneratedAgree
<1>2. ASSUME built # None
      PROVE  built.rows \in Seq(RowSet) /\ built.backends = Manifested(built.rows) /\ BuildValidate(built.backends)
  BY <1>2 DEF GenInv, BuiltInv
<1>3. BuildMirrorsBoot
  BY <1>2, ManifestIs, BuildIsBoot DEF BuildMirrorsBoot
<1>4. EveryGroupSurvives
  <2> SUFFICES ASSUME built # None, NamesAreApart(built.rows), NEW k \in DOMAIN built.rows,
                      NEW r \in ToSet(built.rows[k].backends)
               PROVE  \E b \in ToSet(built.backends) : b.claims = r.claims /\ b.prefix = r.prefix
    BY DEF EveryGroupSurvives
  <2>1. PICK i \in DOMAIN built.rows[k].backends : r = built.rows[k].backends[i]
    BY DEF ToSet
  <2>2. \E b \in ToSet(Manifested(built.rows)) : b.claims = r.claims /\ b.prefix = r.prefix /\ b.strip = r.strip
    BY <1>2, <2>1, ManifestIs
  <2> QED
    BY <1>2, <2>2
<1>5. ClaimsAreRoutable
  <2> SUFFICES ASSUME built # None, NamesAreApart(built.rows), NEW k \in DOMAIN built.rows,
                      NEW g \in ToSet(ParseServerJsonMeta(built.rows[k].doc))
               PROVE  \E b \in ToSet(built.backends) :
                         /\ b.claims = g.names
                         /\ \A u \in g.names : /\ HandlesProxy(b, {}, AdvertisedName(b, u))
                                               /\ WireName(b, AdvertisedName(b, u)) = u
    BY DEF ClaimsAreRoutable
  <2>1. built.rows[k] \in RowSet
    BY <1>2, ElementOfSeq, LenProperties
  <2>2. PICK i \in DOMAIN built.rows[k].backends : OffersGroup(built.rows[k].backends[i], g)
    BY <2>1, RowOffers
  <2>3. PICK r : r = built.rows[k].backends[i]
    OBVIOUS
  <2>4. PICK b \in ToSet(Manifested(built.rows)) : b.claims = r.claims /\ b.prefix = r.prefix /\ b.strip = r.strip
    BY <1>2, <2>3, ManifestIs
  <2>5. OffersGroup(b, g)
    BY <2>2, <2>3, <2>4 DEF OffersGroup
  <2>6. built.rows[k].doc \in AllDocs /\ DocGood(built.rows[k].doc)
    BY <2>1 DEF RowSet, RowFacts, RowGood
  <2>7. g \in Groups /\ ~ IsMixed(g)
    <3>1. ~ IsMixed(g)
      BY <2>6 DEF DocGood
    <3>2. ParseServerJsonMeta(built.rows[k].doc) \in Seq(Groups)
      BY <2>6, WorkspaceAssumption DEF ParseServerJsonMeta
    <3> QED
      BY <3>1, <3>2 DEF ToSet
  <2>8. b.claims = g.names
    BY <2>5 DEF OffersGroup
  <2> QED
    BY <1>2, <2>4, <2>5, <2>7, <2>8, GroupRoutes
<1> QED
  BY <1>1, <1>3, <1>4, <1>5 DEF GeneratedHold

\* However commands, upstreams and the operator interleave and wherever a command
\* is killed: what generate leaves behind is of one cluster.toml once a generation
\* has had the files for itself, the router boots with every manifest the build
\* writes, and where the names of inputs and groups are apart no group is lost in
\* it and every tool is found, and called by the name its upstream gave it.
THEOREM WorkspaceGeneratedHold == WorkSpec => []GeneratedHold
  BY GenInvariant, GeneratedSafe, PTL
=============================================================================
