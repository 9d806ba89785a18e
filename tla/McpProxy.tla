------------------------------ MODULE McpProxy ------------------------------
(***************************************************************************)
(* The tool backends of one isolate and the upstreams they call: the       *)
(* session handshake and its sharing, the retry after a refused session,   *)
(* the downgrade of "auto" to the session protocol, the cache of upstream  *)
(* tools.                                                                  *)
(*                                                                         *)
(* A job is one of the asynchronous functions that are under way: the      *)
(* invoke of a request, the refresh of a backend, the roots notification   *)
(* to a backend.  JavaScript runs one step at a time and drains what is    *)
(* resolved before the next event, so a step is what one arriving answer   *)
(* sets off.  The upstream is external: it takes a call without a session  *)
(* or under one it knows and has been told is initialized, forgets its     *)
(* sessions when it restarts, and, where it is faulty, fails in every      *)
(* other way.                                                              *)
(***************************************************************************)
EXTENDS Manifest, Integers

CONSTANTS
    Manifests,    \* the manifests that are deployed
    Reqs,         \* requests to /mcp, each made once
    Peers, Roots, \* callers, and the sets of roots they declare
    Catalogs,     \* what an upstream answers to tools/list: sets of names
    MaxBackends,
    MaxSessions,  \* bound: sessions an upstream opens
    MaxRestarts   \* bound: restarts of upstreams

NoSession == 0
Sessionless == -1   \* the header MCP-Protocol-Version instead of a session
Sids == 1..MaxSessions
Refresh(i) == <<"refresh", i>>
Note(i) == <<"note", i>>
Backends == 1..MaxBackends
Jobs == Reqs \cup {Refresh(i) : i \in Backends} \cup {Note(i) : i \in Backends}

VARIABLES
    manifest,   \* the deployed manifest
    down,       \* sessionlessDowngraded
    sid,        \* sessionId, NoSession for null
    handshake,  \* sessionInflight: "none", or the step of doInitialize it is in
    derived,    \* derivedByUpstreamName
    fresh,      \* whether fetchedAt is less than DERIVED_TTL_MS ago
    job,        \* the jobs
    roots,      \* the store of roots-state.ts; no entry answers as an empty one
    minted,     \* upstream: sessions opened so far
    live,       \* upstream: the sessions it takes calls under
    restarts,   \* upstream: restarts so far
    effects,    \* history: how often the upstream carried out a request's call
    hidden,     \* history: how often it did so and the answer did not say so
    told        \* history: the roots an upstream was told during a call

backendVars == <<down, sid, handshake, derived, fresh>>
upstreamVars == <<minted, live, restarts>>
history == <<effects, hidden, told>>
proxyVars == <<manifest, backendVars, job, roots, upstreamVars, history>>

\* Whether requests fail otherwise than by a lost session.
Faulty(i) == manifest[i].faulty

NoJob == [pc |-> "idle", step |-> "call", be |-> 0, name |-> <<>>, peer |-> "none",
          stage |-> 0, sent |-> NoSession, resp |-> "none"]

\* A job as it begins, before its first request.
NewJob(i, step, name, peer, stage) ==
    [pc |-> "idle", step |-> step, be |-> i, name |-> name, peer |-> peer,
     stage |-> stage, sent |-> NoSession, resp |-> "none"]

ProxyInit ==
    /\ manifest \in {d \in Manifests : Validate(d)}
    /\ down = [i \in Backends |-> FALSE]
    /\ sid = [i \in Backends |-> NoSession]
    /\ handshake = [i \in Backends |-> "none"]
    /\ derived = [i \in Backends |-> {}]
    /\ fresh = [i \in Backends |-> FALSE]
    /\ job = [j \in Jobs |-> NoJob]
    /\ roots = [p \in Peers |-> {}]
    /\ minted = [i \in Backends |-> 0]
    /\ live = [i \in Backends |-> {}]
    /\ restarts = 0
    /\ effects = [r \in Reqs |-> 0]
    /\ hidden = [r \in Reqs |-> 0]
    /\ told = [r \in Reqs |-> {}]

------------------------------------------------------------------------------
(* The protocol a backend speaks, and sending a request under it. *)

EffectiveMode(i, d) ==
    LET mode == NormalizeMode(manifest[i].mode)
    IN  IF mode = "auto" THEN (IF d THEN "current" ELSE "next") ELSE mode

RequestHeaders(i, d, s) ==
    IF EffectiveMode(i, d) = "next" THEN Sessionless
    ELSE IF manifest[i].session THEN s ELSE NoSession

PostJson(jb, d, s) ==
    [jb EXCEPT !.pc = "sent", !.resp = "none", !.sent = RequestHeaders(jb.be, d, s)]

NeedsSession(i, d) == EffectiveMode(i, d) = "current" /\ manifest[i].session

\* tryCall and tryFetch: join the handshake under way or begin one if there is
\* no session, else post.  d and s are the downgrade flag and the session as
\* the step leaves them.
Try(j, jb, d, s) ==
    LET wait == NeedsSession(jb.be, d) /\ s = NoSession
    IN  /\ job' = [job EXCEPT ![j] = IF wait THEN [jb EXCEPT !.pc = "session"]
                                     ELSE PostJson(jb, d, s)]
        /\ handshake' = IF wait /\ handshake[jb.be] = "none"
                        THEN [handshake EXCEPT ![jb.be] = "initialize"] ELSE handshake
        /\ down' = [down EXCEPT ![jb.be] = d]
        /\ sid' = [sid EXCEPT ![jb.be] = s]

\* A job that is over keeps what its request still needs.
Ended(j, outcome) ==
    IF outcome = "idle" THEN NoJob
    ELSE [NoJob EXCEPT !.pc = outcome, !.be = job[j].be, !.name = job[j].name, !.peer = job[j].peer]

Finish(j, outcome) == job' = [job EXCEPT ![j] = Ended(j, outcome)]

------------------------------------------------------------------------------
(* The handshake: initialize, then notifications/initialized. *)

Waiting(i) == {j \in Jobs : job[j].pc = "session" /\ job[j].be = i}

\* What becomes of a job whose handshake failed: a call is answered with the
\* error, a refresh and a notification just end.
Failed(j) == IF j \in Reqs THEN "error" ELSE "idle"

\* The session is visible from here on; the notification is on its way.
InitializeAnswered(i) ==
    /\ handshake[i] = "initialize"
    /\ minted[i] < MaxSessions
    /\ minted' = [minted EXCEPT ![i] = @ + 1]
    /\ \/ sid' = [sid EXCEPT ![i] = minted[i] + 1]
       \/ Faulty(i) /\ UNCHANGED sid    \* no Mcp-Session-Id in the answer
    /\ handshake' = [handshake EXCEPT ![i] = "notify"]
    /\ UNCHANGED <<manifest, down, derived, fresh, job, roots, live, restarts, history>>

NotifyArrives(i) ==
    /\ handshake[i] = "notify"
    /\ live' = [live EXCEPT ![i] = @ \cup {minted[i]}]
    /\ handshake' = [handshake EXCEPT ![i] = "notified"]
    /\ UNCHANGED <<manifest, down, sid, derived, fresh, job, roots, minted, restarts, history>>

\* The shared promise resolves: every job that waits for it posts, under the
\* session the backend has by now.
HandshakeDone(i) ==
    /\ handshake[i] = "notified"
    /\ handshake' = [handshake EXCEPT ![i] = "none"]
    /\ job' = [j \in Jobs |-> IF j \in Waiting(i) THEN PostJson(job[j], down[i], sid[i]) ELSE job[j]]
    /\ UNCHANGED <<manifest, down, sid, derived, fresh, roots, upstreamVars, history>>

\* As if a failed handshake did not reject the jobs that share it.
DeafHandshakeFails(i) ==
    /\ Faulty(i)
    /\ handshake[i] # "none"
    /\ handshake' = [handshake EXCEPT ![i] = "none"]
    /\ UNCHANGED <<manifest, down, sid, derived, fresh, job, roots, upstreamVars, history>>

\* As if the promise of a failed handshake were kept.
StickyHandshakeFails(i) ==
    /\ Faulty(i)
    /\ handshake[i] # "none"
    /\ handshake' = [handshake EXCEPT ![i] = "rejected"]
    /\ job' = [j \in Jobs |-> IF j \in Waiting(i) THEN Ended(j, Failed(j)) ELSE job[j]]
    /\ UNCHANGED <<manifest, down, sid, derived, fresh, roots, upstreamVars, history>>

\* A refused or mismatched initialize, or a request that never came back.  A
\* session that was already taken over stays.
HandshakeFails(i) ==
    /\ Faulty(i)
    /\ handshake[i] # "none"
    /\ handshake' = [handshake EXCEPT ![i] = "none"]
    /\ job' = [j \in Jobs |-> IF j \in Waiting(i) THEN Ended(j, Failed(j)) ELSE job[j]]
    /\ UNCHANGED <<manifest, down, sid, derived, fresh, roots, upstreamVars, history>>

------------------------------------------------------------------------------
(* The upstream. *)

Accepts(i, sent) ==
    IF sent = Sessionless THEN "next" \in manifest[i].speaks
    ELSE /\ "current" \in manifest[i].speaks
         /\ manifest[i].session => sent \in live[i]

\* What an upstream does with a request and what it answers.
Outcomes(i, sent) ==
    {[done |-> Accepts(i, sent), resp |-> IF Accepts(i, sent) THEN "ok" ELSE "bad"]}
      \cup (IF Faulty(i) THEN [done : BOOLEAN, resp : {"bad", "lost"}] ELSE {})

Answer(j) ==
    /\ job[j].pc = "sent" /\ job[j].resp = "none"
    /\ \E o \in Outcomes(job[j].be, job[j].sent) :
         /\ job' = [job EXCEPT ![j].resp = o.resp]
         /\ IF j \in Reqs
            THEN /\ effects' = [effects EXCEPT ![j] = @ + (IF o.done THEN 1 ELSE 0)]
                 /\ hidden' = [hidden EXCEPT ![j] = @ + (IF o.done /\ o.resp # "ok" THEN 1 ELSE 0)]
            ELSE UNCHANGED <<effects, hidden>>
    /\ UNCHANGED <<manifest, backendVars, roots, upstreamVars, told>>

Restart(i) ==
    /\ restarts < MaxRestarts
    /\ live[i] # {}
    /\ live' = [live EXCEPT ![i] = {}]
    /\ restarts' = restarts + 1
    /\ UNCHANGED <<manifest, backendVars, job, roots, minted, history>>

------------------------------------------------------------------------------
(* invoke, as each answer arrives. *)

\* A refused request of an "auto" backend that still speaks sessionless.
Downgrades(j) ==
    /\ job[j].stage = 1
    /\ manifest[job[j].be].mode = "auto"
    /\ EffectiveMode(job[j].be, down[job[j].be]) = "next"

\* A refused request that is sent again under a new session.
Resets(j) == job[j].stage <= 2 /\ NeedsSession(job[j].be, down[job[j].be])

CallRefused(j) ==
    /\ job[j].step = "call" /\ job[j].pc = "sent" /\ job[j].resp = "bad"
    /\ IF Downgrades(j)
       THEN Try(j, [job[j] EXCEPT !.stage = 2], TRUE, sid[job[j].be])
       ELSE IF Resets(j)
       THEN Try(j, [job[j] EXCEPT !.stage = 3], down[job[j].be], NoSession)
       ELSE Finish(j, "error") /\ UNCHANGED <<down, sid, handshake>>
    /\ UNCHANGED <<manifest, derived, fresh, roots, upstreamVars, history>>

CallLost(j) ==
    /\ job[j].step = "call" /\ job[j].pc = "sent" /\ job[j].resp = "lost"
    /\ Finish(j, "error")
    /\ UNCHANGED <<manifest, backendVars, roots, upstreamVars, history>>

CallAccepted(j) ==
    /\ job[j].step = "call" /\ job[j].pc = "sent" /\ job[j].resp = "ok"
    /\ Finish(j, "stream")
    /\ UNCHANGED <<manifest, backendVars, roots, upstreamVars, history>>

\* As if the roots of whoever declared any were told.
LeakyReverseRpc(j) ==
    /\ job[j].pc = "stream" /\ manifest[job[j].be].kind = "proxy"
    /\ \E p \in Peers : told' = [told EXCEPT ![j] = @ \cup roots[p]]
    /\ told' # told
    /\ UNCHANGED <<manifest, backendVars, job, roots, upstreamVars, effects, hidden>>

\* The upstream asks for the caller's roots before it answers.
HandleReverseRpc(j) ==
    /\ job[j].pc = "stream" /\ manifest[job[j].be].kind = "proxy"
    /\ told' = [told EXCEPT ![j] = @ \cup roots[job[j].peer]]
    /\ told' # told
    /\ UNCHANGED <<manifest, backendVars, job, roots, upstreamVars, effects, hidden>>

\* As if a stream that broke off were answered by asking again.
StreamAskedAgain(j) ==
    /\ job[j].pc = "stream"
    /\ \/ Finish(j, "ok")
       \/ job' = [job EXCEPT ![j].pc = "sent", ![j].resp = "none", ![j].sent = sid[job[j].be]]
    /\ UNCHANGED <<manifest, backendVars, roots, upstreamVars, history>>

\* The answer with id 0, or a stream without one, a JSON-RPC error, no
\* content, isError.
StreamEnds(j) ==
    /\ job[j].pc = "stream"
    /\ Finish(j, "ok") \/ (Faulty(job[j].be) /\ Finish(j, "error"))
    /\ UNCHANGED <<manifest, backendVars, roots, upstreamVars, history>>

------------------------------------------------------------------------------
(* refreshTools and fetchUpstreamTools. *)

CanRefresh(i) ==
    /\ manifest[i].kind = "proxy" /\ manifest[i].dynamic
    /\ ~fresh[i] /\ job[Refresh(i)].pc = "idle"

\* The first request of a refresh, in the protocol of the moment.
FirstFetch(i) ==
    LET jb(step) == NewJob(i, step, <<>>, "none", 1)
    IN  IF EffectiveMode(i, down[i]) = "next" THEN PostJson(jb("discover"), down[i], sid[i])
        ELSE IF NeedsSession(i, down[i]) /\ sid[i] = NoSession
        THEN [jb("list") EXCEPT !.pc = "session"]
        ELSE PostJson(jb("list"), down[i], sid[i])

CaptureDerivedTools(i, catalog) ==
    /\ derived' = [derived EXCEPT ![i] = {u \in catalog : ClaimsUpstreamName(manifest[i], u)}]
    /\ fresh' = [fresh EXCEPT ![i] = TRUE]

\* discover failed: an "auto" backend lists again as a session client.
DiscoverAnswered(i) ==
    LET j == Refresh(i) IN
    /\ job[j].step = "discover" /\ job[j].pc = "sent" /\ job[j].resp # "none"
    /\ IF job[j].resp = "ok"
       THEN /\ job' = [job EXCEPT ![j] = PostJson([@ EXCEPT !.step = "nextlist"], down[i], sid[i])]
            /\ UNCHANGED <<down, sid, handshake>>
       ELSE IF manifest[i].mode = "auto"
       THEN Try(j, [job[j] EXCEPT !.step = "list"], TRUE, sid[i])
       ELSE Finish(j, "idle") /\ UNCHANGED <<down, sid, handshake>>
    /\ UNCHANGED <<manifest, derived, fresh, roots, upstreamVars, history>>

ListAnswered(i) ==
    LET j == Refresh(i) IN
    /\ job[j].step \in {"list", "nextlist"} /\ job[j].pc = "sent" /\ job[j].resp = "ok"
    /\ \E c \in Catalogs : CaptureDerivedTools(i, c)
    /\ Finish(j, "idle")
    /\ UNCHANGED <<manifest, down, sid, handshake, roots, upstreamVars, history>>

\* One retry under a new session; otherwise the cache stays as it is.
ListFailed(i) ==
    LET j == Refresh(i) IN
    /\ job[j].step \in {"list", "nextlist"} /\ job[j].pc = "sent" /\ job[j].resp \in {"bad", "lost"}
    /\ IF job[j].step = "list" /\ job[j].resp = "bad" /\ manifest[i].session /\ job[j].stage = 1
       THEN Try(j, [job[j] EXCEPT !.stage = 2], down[i], NoSession)
       ELSE Finish(j, "idle") /\ UNCHANGED <<down, sid, handshake>>
    /\ UNCHANGED <<manifest, derived, fresh, roots, upstreamVars, history>>

\* DERIVED_TTL_MS passes.
Expire(i) ==
    /\ fresh[i]
    /\ fresh' = [fresh EXCEPT ![i] = FALSE]
    /\ UNCHANGED <<manifest, down, sid, handshake, derived, job, roots, upstreamVars, history>>

------------------------------------------------------------------------------
(* notifyRootsChanged: sent once, whatever comes back. *)

NotifyRootsChanged(i) ==
    LET jb == NewJob(i, "note", <<>>, "none", 0)
    IN  IF NeedsSession(i, down[i]) /\ sid[i] = NoSession
        THEN [jb EXCEPT !.pc = "session"] ELSE PostJson(jb, down[i], sid[i])

NoteAnswered(i) ==
    LET j == Note(i) IN
    /\ job[j].pc = "sent" /\ job[j].resp # "none"
    /\ Finish(j, "idle")
    /\ UNCHANGED <<manifest, backendVars, roots, upstreamVars, history>>

\* The handshakes that jobs begun in one step start.
JoinHandshakes(newJobs) ==
    handshake' = [i \in Backends |->
        IF handshake[i] = "none" /\ \E j \in Jobs : newJobs[j].pc = "session" /\ newJobs[j].be = i
        THEN "initialize" ELSE handshake[i]]

HandshakeNext(i) ==
    InitializeAnswered(i) \/ NotifyArrives(i) \/ HandshakeDone(i) \/ HandshakeFails(i)

RefreshNext(i) == DiscoverAnswered(i) \/ ListAnswered(i) \/ ListFailed(i)

CallNext(j) == CallRefused(j) \/ CallLost(j) \/ CallAccepted(j) \/ StreamEnds(j)

ProxyNext ==
    \/ \E i \in DOMAIN manifest :
         HandshakeNext(i) \/ RefreshNext(i) \/ NoteAnswered(i) \/ Restart(i) \/ Expire(i)
    \/ \E j \in Jobs : Answer(j)
    \/ \E r \in Reqs : CallNext(r) \/ HandleReverseRpc(r)
=============================================================================
