------------------------------ MODULE McpRoute ------------------------------
(***************************************************************************)
(* The /mcp edge: what a POST goes through, the dispatch of its method,    *)
(* and the tool backends behind it.                                        *)
(*                                                                         *)
(* A caller without a verified lease is the peer Anonymous.  bead_create   *)
(* under a lease is the orchestrator of module BeadCreate and no call of a *)
(* backend.                                                                *)
(***************************************************************************)
EXTENDS McpProxy

CONSTANTS
    Names,      \* tool names that callers ask for
    Anonymous,  \* ANONYMOUS_PEER
    BeadCreateTool

ASSUME McpAssumption ==
    /\ Anonymous \in Peers
    /\ \A d \in Manifests : d \in Seq(ToSet(d)) /\ Len(d) \in Backends
    /\ \A d \in Manifests : \A b \in ToSet(d) :
         /\ b.session \in BOOLEAN /\ b.dynamic \in BOOLEAN
         /\ b.prefix \in Seq(STRING) /\ b.asserted \subseteq Seq(STRING)
    /\ \A c \in Catalogs : c \subseteq Seq(STRING)
    /\ {MaxBackends, MaxSessions, MaxRestarts} \subseteq Nat
    /\ \A r \in Reqs, i \in Backends : r # Refresh(i) /\ r # Note(i)

VARIABLES
    req,       \* the requests: where each is, and what it was answered
    declared   \* history: the roots each peer ever declared

routeVars == <<req, declared>>
vars == <<proxyVars, routeVars>>

NoReq == [pc |-> "new", peer |-> Anonymous, be |-> 0, waits |-> {}, answer |-> "none",
          origin |-> 0, listed |-> {}]

Init ==
    /\ ProxyInit
    /\ req = [r \in Reqs |-> NoReq]
    /\ declared = [p \in Peers |-> {}]

Job == [pc : {"idle", "session", "sent", "stream", "ok", "error"},
        step : {"call", "discover", "list", "nextlist", "note"},
        be : Backends \cup {0}, name : Names \cup {<<>>}, peer : Peers \cup {"none"}, stage : 0..3,
        sent : Sids \cup {NoSession, Sessionless}, resp : {"none", "ok", "bad", "lost"}]

Req == [pc : {"new", "calling", "listing", "done"}, peer : Peers, be : Backends \cup {0},
        waits : SUBSET Backends, answer : {"none", "refused", "ok", "error"},
        origin : Backends \cup {0}, listed : SUBSET Seq(STRING)]

TypeOK ==
    /\ manifest \in Manifests /\ Validate(manifest)
    /\ down \in [Backends -> BOOLEAN] /\ fresh \in [Backends -> BOOLEAN]
    /\ sid \in [Backends -> Sids \cup {NoSession}]
    /\ handshake \in [Backends -> {"none", "initialize", "notify", "notified"}]
    /\ job \in [Jobs -> Job]
    /\ minted \in [Backends -> 0..MaxSessions] /\ \A i \in Backends : live[i] \subseteq 1..minted[i]
    /\ effects \in [Reqs -> Nat] /\ hidden \in [Reqs -> Nat]
    /\ req \in [Reqs -> Req]

------------------------------------------------------------------------------
(* Methods that answer at once. *)

\* The methods of each surface: with the header MCP-Protocol-Version, or not.
Offered(sessionless) ==
    {"notifications/initialized", "notifications/roots/list_changed", "tools/list", "tools/call"}
      \cup (IF sessionless THEN {"server/discover", "subscriptions/listen"}
            ELSE {"initialize", "ping"})

AnswerNow(r, answer) == req' = [req EXCEPT ![r].pc = "done", ![r].answer = answer]

\* Not JSON, headers that disagree with the body, a version that is not
\* supported, a lease the gate rejects, or a method this surface lacks.
Refuse(r) ==
    /\ req[r].pc = "new"
    /\ AnswerNow(r, "refused")
    /\ UNCHANGED <<proxyVars, declared>>

\* server/discover, subscriptions/listen, ping, notifications/initialized.
AnswerLocally(r) ==
    /\ req[r].pc = "new"
    /\ \E sessionless \in BOOLEAN :
         Offered(sessionless) \cap {"server/discover", "subscriptions/listen", "ping"} # {}
    /\ AnswerNow(r, "ok")
    /\ UNCHANGED <<proxyVars, declared>>

SetRoots(p, rs) == roots' = [roots EXCEPT ![p] = rs]

ClearRoots(p) == roots' = [roots EXCEPT ![p] = {}]

\* Roots given with initialize replace the peer's; the capability alone
\* leaves them.
CaptureRootsFromInitialize(p) ==
    \/ \E rs \in Roots : SetRoots(p, rs) /\ declared' = [declared EXCEPT ![p] = @ \cup rs]
    \/ UNCHANGED <<roots, declared>>

Initialize(r, p) ==
    /\ req[r].pc = "new" /\ "initialize" \in Offered(FALSE)
    /\ CaptureRootsFromInitialize(p)
    /\ AnswerNow(r, "ok")
    /\ UNCHANGED <<manifest, backendVars, job, upstreamVars, history>>

\* The peer's roots are forgotten and every proxy upstream is told so.
\* Bound: one notification to a backend at a time.
RootsListChanged(r, p) ==
    LET told1 == {i \in DOMAIN manifest : manifest[i].kind = "proxy" /\ manifest[i].url # "none"}
        jobs == [j \in Jobs |-> IF \E i \in told1 : j = Note(i)
                                THEN NotifyRootsChanged(j[2]) ELSE job[j]]
    IN  /\ req[r].pc = "new"
        /\ \A i \in told1 : job[Note(i)].pc = "idle"
        /\ ClearRoots(p)
        /\ job' = jobs
        /\ JoinHandshakes(jobs)
        /\ AnswerNow(r, "ok")
        /\ UNCHANGED <<manifest, down, sid, derived, fresh, upstreamVars, history, declared>>

------------------------------------------------------------------------------
(* tools/list. *)

\* Every backend is refreshed; refreshes under way are joined.
ToolsList(r) ==
    LET starts == {i \in DOMAIN manifest : CanRefresh(i) /\ manifest[i].url # "none"}
        jobs == [j \in Jobs |-> IF \E i \in starts : j = Refresh(i) THEN FirstFetch(j[2]) ELSE job[j]]
        joined == {i \in DOMAIN manifest : ~fresh[i] /\ jobs[Refresh(i)].pc # "idle"}
    IN  /\ req[r].pc = "new"
        /\ job' = jobs
        /\ JoinHandshakes(jobs)
        /\ req' = [req EXCEPT ![r].pc = "listing", ![r].waits = joined]
        /\ UNCHANGED <<manifest, down, sid, derived, fresh, roots, upstreamVars, history, declared>>

ToolsListed(r) ==
    /\ req[r].pc = "listing" /\ req[r].waits = {}
    /\ req' = [req EXCEPT ![r].pc = "done", ![r].answer = "ok",
                          ![r].listed = AllTools(manifest, derived)]
    /\ UNCHANGED <<proxyVars, declared>>

------------------------------------------------------------------------------
(* tools/call. *)

\* The origin the receipt names: the backend is looked up again when the
\* answer is there, and only a proxy has one.
OriginsForRequest(name) ==
    LET i == BackendFor(manifest, derived, name)
    IN  IF i # 0 /\ manifest[i].kind = "proxy" /\ manifest[i].url # "none" THEN i ELSE 0

CallTool(r, p, name) ==
    LET i == BackendFor(manifest, derived, name)
        jb == NewJob(i, "call", name, p, 1)
    IN  /\ req[r].pc = "new"
        /\ ~(name = BeadCreateTool /\ p # Anonymous)
        /\ IF i = 0 \/ manifest[i].url = "none"
           THEN AnswerNow(r, "error") /\ UNCHANGED <<job, down, sid, handshake>>
           ELSE /\ Try(r, jb, down[i], sid[i])
                /\ req' = [req EXCEPT ![r].pc = "calling", ![r].peer = p, ![r].be = i]
        /\ UNCHANGED <<manifest, derived, fresh, roots, upstreamVars, history, declared>>

\* bead_create under a lease goes to the orchestrator.
CallBeadCreate(r, p) ==
    /\ req[r].pc = "new" /\ p # Anonymous
    /\ req' = [req EXCEPT ![r].pc = "done", ![r].answer = "ok", ![r].peer = p,
                          ![r].origin = OriginsForRequest(BeadCreateTool)]
    /\ UNCHANGED <<proxyVars, declared>>

\* The answer of invoke, with a receipt for a caller with a lease.
CallDone(r) ==
    /\ req[r].pc = "calling" /\ job[r].pc \in {"ok", "error"}
    /\ req' = [req EXCEPT ![r].pc = "done", ![r].answer = job[r].pc,
                          ![r].origin = IF req[r].peer = Anonymous THEN 0
                                        ELSE OriginsForRequest(job[r].name)]
    /\ job' = [job EXCEPT ![r] = NoJob]
    /\ UNCHANGED <<manifest, backendVars, roots, upstreamVars, history, declared>>

------------------------------------------------------------------------------
\* A step of the backends; a refresh that ends with it is awaited no longer.
ProxyStep ==
    /\ ProxyNext
    /\ req' = [r \in Reqs |->
                 [req[r] EXCEPT !.waits = {i \in @ : job'[Refresh(i)].pc # "idle"}]]
    /\ UNCHANGED declared

Finished(r) == ToolsListed(r) \/ CallDone(r)

Next ==
    \/ ProxyStep
    \/ \E r \in Reqs :
         \/ Refuse(r) \/ AnswerLocally(r) \/ ToolsList(r) \/ Finished(r)
         \/ \E p \in Peers : \/ Initialize(r, p) \/ RootsListChanged(r, p) \/ CallBeadCreate(r, p)
                             \/ \E name \in Names : CallTool(r, p, name)

Progress ==
    \/ /\ ProxyStep
       /\ \/ \E i \in DOMAIN manifest : HandshakeNext(i) \/ RefreshNext(i)
          \/ \E j \in Jobs : Answer(j)
          \/ \E r \in Reqs : CallNext(r)
    \/ \E r \in Reqs : Finished(r)

\* A fetch settles and the event loop runs what it resolves; nothing is
\* assumed of callers, of restarts or of the clock.  Requests are finitely
\* many and each takes finitely many such steps, so none can be put off by
\* the others for ever.
Fairness == WF_vars(Progress)

Spec == Init /\ [][Next]_vars /\ Fairness

------------------------------------------------------------------------------
\* A job that waits for a session has a handshake to wait for: sharing one
\* promise, resetting the session meanwhile and failing strand nobody.
WaitersHaveHandshake == \A i \in Backends : Waiting(i) # {} => handshake[i] # "none"

\* An upstream carries out a call more often than once only if it answered
\* each execution but one with a failure, and no more often than the one
\* downgrade and the one new session allow.
EffectsExplained ==
    \A r \in Reqs :
        LET i == req[r].be
        IN  /\ effects[r] <= 1 + hidden[r]
            /\ effects[r] > 0 =>
                 effects[r] <= 1 + (IF manifest[i].mode = "auto" THEN 1 ELSE 0)
                                 + (IF manifest[i].session THEN 1 ELSE 0)
            /\ req[r].be # 0 /\ req[r].answer = "ok" => effects[r] > hidden[r]

\* Whatever refreshes ran during a call, the receipt names the backend the
\* call went to.
OriginIsTheSource ==
    \A r \in Reqs : req[r].pc = "done" /\ req[r].be # 0 /\ req[r].origin # 0
                      => req[r].origin = req[r].be

\* A listed tool can be called, also after the caches it was listed from have
\* changed.
ListedIsRoutable ==
    \A r \in Reqs : \A t \in req[r].listed : BackendFor(manifest, derived, t) # 0

\* An upstream is told the roots of the caller and of nobody else.
RootsAreTheCallers == \A r \in Reqs : told[r] \subseteq declared[req[r].peer]

\* Every call and every listing is answered.
Answered == \A r \in Reqs : req[r].pc \in {"calling", "listing"} ~> req[r].pc = "done"

\* Calls are kept apart: who waits for a handshake has one to wait for, an answer
\* comes from the backend that was asked, and roots stay with their caller.
CallsApart == TypeOK /\ WaitersHaveHandshake /\ OriginIsTheSource /\ RootsAreTheCallers
=============================================================================
