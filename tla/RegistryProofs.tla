--------------------------- MODULE RegistryProofs ---------------------------
(***************************************************************************)
(* Proofs about the registry routes, for any number of requests, isolates, *)
(* repositories and tags, any cap and any requests clients may send.       *)
(***************************************************************************)
EXTENDS Registry, TLAPS

Pushes == {"begin", "monolithic", "patch", "finalize", "manifest"}

\* The positions at which a handler has the whole content in hand, and those
\* at which it also knows the digest the content is stored under.
Loaded == {"verify", "put", "member", "tag", "drop"}
Keyed  == {"put", "member", "tag", "drop"}

\* What a handler's position says of its other fields.
HandlerOK(p) ==
    /\ req[p].pc # "idle" => req[p].sent \in Request /\ req[p].at \in Isolates
    /\ req[p].pc # "done" => req[p].status = None
    /\ req[p].pc = "idle" => req[p].u = None /\ req[p].at = None /\ req[p].key = None
    /\ req[p].u # None => sessions[req[p].u] # None
    /\ req[p].pc # "idle" /\ Op(p) \in {"patch", "finalize"} => req[p].u # None
    /\ req[p].pc \in Loaded => Op(p) \in Pushes /\ req[p].bytes \in Contents
    /\ req[p].pc \in Keyed => req[p].key \in Digests /\ Matches(req[p].bytes, req[p].key)
    /\ req[p].pc = "get" => req[p].key \in Digests
    /\ req[p].pc \in {"resolve", "tag"} => req[p].sent.tag # None

HandlersOK == \A p \in Reqs : HandlerOK(p)

OpenIssued == \A i \in Isolates : \A u \in open[i] : sessions[u] # None

BaseInv == TypeOK /\ HandlersOK /\ OpenIssued /\ SessionsBounded

-----------------------------------------------------------------------------
\* Bodies and contents are sequences of bytes.
LEMMA BodySeq == Bodies \subseteq Seq(Bytes) /\ Contents \subseteq Seq(Bytes)
<1>1. \A n \in Nat : [1..n -> Bytes] \subseteq Seq(Bytes)
  OBVIOUS
<1> QED
  BY <1>1, RegistryAssumption DEF Bodies, Contents

\* A sequence of bytes within the cap is content.
LEMMA WithinCap ==
    ASSUME NEW s \in Seq(Bytes), Len(s) <= MaxBlobBytes
    PROVE  s \in Contents
<1>1. s \in [1..Len(s) -> Bytes] /\ Len(s) \in Nat
  OBVIOUS
<1>2. Len(s) \in 0..MaxBlobBytes
  BY <1>1, RegistryAssumption
<1> QED
  BY <1>1, <1>2 DEF Contents

LEMMA NoneIsNothing ==
    /\ None \notin Digests /\ None \notin Uuids /\ None \notin Isolates
    /\ None \notin Request /\ None \notin Session /\ None \notin Seq(Bytes) /\ None \notin Contents
    /\ None \notin Tags /\ None \notin Status /\ MaxBlobBytes \in Nat
BY RegistryAssumption, BodySeq

\* Replies and moves change nothing but the position and the answer.
LEMMA ReplyType ==
    ASSUME TypeOK, NEW p \in Reqs, NEW status \in Status, Reply(p, status)
    PROVE  /\ req' \in [Reqs -> Handler]
           /\ req'[p] = [req[p] EXCEPT !.pc = "done", !.status = status]
           /\ \A q \in Reqs \ {p} : req'[q] = req[q]
<1>1. req[p] \in Handler
  BY DEF TypeOK
<1>2. [req[p] EXCEPT !.pc = "done", !.status = status] \in Handler
  BY <1>1 DEF Handler
<1>3. req' = [req EXCEPT ![p] = [req[p] EXCEPT !.pc = "done", !.status = status]]
  BY DEF Reply, TypeOK
<1> QED
  BY <1>2, <1>3 DEF TypeOK

LEMMA GotoType ==
    ASSUME TypeOK, NEW p \in Reqs,
           NEW pc \in {"body", "verify", "put", "member", "tag", "drop", "check", "get"},
           Goto(p, pc)
    PROVE  /\ req' \in [Reqs -> Handler]
           /\ req'[p] = [req[p] EXCEPT !.pc = pc]
           /\ \A q \in Reqs \ {p} : req'[q] = req[q]
<1>1. req[p] \in Handler
  BY DEF TypeOK
<1>2. [req[p] EXCEPT !.pc = pc] \in Handler
  BY <1>1 DEF Handler
<1>3. req' = [req EXCEPT ![p] = [req[p] EXCEPT !.pc = pc]]
  BY DEF Goto, TypeOK
<1> QED
  BY <1>2, <1>3 DEF TypeOK

\* Sessions are never forgotten: a dropped one is still the object a slow
\* handler holds.
LEMMA OtherHandlers ==
    ASSUME NEW p \in Reqs, HandlerOK(p), req'[p] = req[p],
           \A u \in Uuids : sessions[u] # None => sessions'[u] # None,
           req[p].u \in Uuids \cup {None}
    PROVE  HandlerOK(p)'
BY DEF HandlerOK, Op, Matches

\* A step of one handler that leaves the sessions alone.
LEMMA QuietStep ==
    ASSUME BaseInv, NEW p \in Reqs, UNCHANGED sessions,
           \A i \in Isolates : open'[i] \subseteq open[i],
           \A q \in Reqs \ {p} : req'[q] = req[q], HandlerOK(p)'
    PROVE  HandlersOK' /\ OpenIssued' /\ SessionsBounded'
<1>1. \A q \in Reqs : HandlerOK(q)'
  <2> SUFFICES ASSUME NEW q \in Reqs, q # p PROVE HandlerOK(q)'
    OBVIOUS
  <2>1. HandlerOK(q) /\ req'[q] = req[q] /\ req[q].u \in Uuids \cup {None}
    BY DEF BaseInv, HandlersOK, TypeOK, Handler
  <2> QED
    BY <2>1, OtherHandlers
<1>2. OpenIssued'
  BY DEF BaseInv, OpenIssued
<1>3. SessionsBounded'
  BY DEF BaseInv, SessionsBounded, Issued
<1> QED
  BY <1>1, <1>2, <1>3 DEF HandlersOK

\* Every answer ends a handler in a consistent state.
LEMMA ReplyOK ==
    ASSUME BaseInv, NEW p \in Reqs, NEW status \in Status, Reply(p, status),
           req[p].pc # "idle", \A u \in Uuids : sessions[u] # None => sessions'[u] # None
    PROVE  HandlerOK(p)'
<1>1. req'[p] = [req[p] EXCEPT !.pc = "done", !.status = status]
  BY ReplyType DEF BaseInv
<1>2. HandlerOK(p) /\ req[p] \in Handler
  BY DEF BaseInv, TypeOK, HandlersOK
<1>3. /\ req'[p].pc = "done" /\ req'[p].sent = req[p].sent /\ req'[p].at = req[p].at
      /\ req'[p].u = req[p].u
  BY <1>1, <1>2 DEF Handler
<1>4. req[p].u \in Uuids \cup {None}
  BY <1>2 DEF Handler
<1> QED
  BY <1>2, <1>3, <1>4 DEF HandlerOK, Op, Loaded, Keyed

\* So does every move to a place that asks nothing new.
LEMMA GotoOK ==
    ASSUME BaseInv, NEW p \in Reqs, UNCHANGED sessions,
           NEW pc \in {"body", "member", "tag", "drop", "get"}, Goto(p, pc),
           req[p].pc # "idle", req[p].pc # "done",
           pc \in Keyed => req[p].pc \in Keyed,
           pc = "get" => req[p].key \in Digests,
           pc = "tag" => req[p].sent.tag # None
    PROVE  HandlerOK(p)'
<1>1. req'[p] = [req[p] EXCEPT !.pc = pc]
  BY GotoType DEF BaseInv
<1>2. HandlerOK(p) /\ req[p] \in Handler
  BY DEF BaseInv, TypeOK, HandlersOK
<1>3. /\ req'[p].pc = pc /\ req'[p].sent = req[p].sent /\ req'[p].at = req[p].at
      /\ req'[p].u = req[p].u /\ req'[p].bytes = req[p].bytes /\ req'[p].key = req[p].key
      /\ req'[p].status = req[p].status
  BY <1>1, <1>2 DEF Handler
<1> QED
  BY <1>2, <1>3 DEF HandlerOK, Op, Loaded, Keyed, Matches

LEMMA SendStep ==
    ASSUME BaseInv, NEW p \in Reqs, Send(p)
    PROVE  BaseInv'
<1>1. PICK m \in MenuOf[p], i \in Isolates, u \in Issued \cup {None},
           key \in Digests \cup {None, Malformed}, pc \in {"resolve", "check", "gate"} :
          /\ (u # None) <=> (m.op \in {"patch", "finalize"})
          /\ pc = "resolve" => m.tag # None
          /\ req' = [req EXCEPT ![p] =
                 [pc |-> pc, sent |-> m, at |-> i, u |-> u, bytes |-> None, from |-> {},
                  key |-> key, status |-> None]]
  <2>1. PICK m \in MenuOf[p], i \in Isolates, u \in Issued \cup {None} :
           /\ (u # None) <=> (m.op \in {"patch", "finalize"})
           /\ req' = [req EXCEPT ![p] =
                  [pc |-> IF m.op = "pullManifest" /\ m.tag # None THEN "resolve"
                          ELSE IF m.op \in {"pullManifest", "pullBlob"} THEN "check"
                          ELSE "gate",
                   sent |-> m, at |-> i, u |-> u, bytes |-> None, from |-> {},
                   key |-> IF m.op \in {"pullManifest", "pullBlob"} THEN m.claim ELSE None,
                   status |-> None]]
    BY DEF Send
  <2>2. m \in Request
    BY RegistryAssumption
  <2>3. m.claim \in Digests \cup {None, Malformed}
    BY <2>2 DEF Request
  <2>4. PICK key \in Digests \cup {None, Malformed} :
            key = IF m.op \in {"pullManifest", "pullBlob"} THEN m.claim ELSE None
    BY <2>3
  <2>5. PICK pc \in {"resolve", "check", "gate"} :
            pc = IF m.op = "pullManifest" /\ m.tag # None THEN "resolve"
                 ELSE IF m.op \in {"pullManifest", "pullBlob"} THEN "check"
                 ELSE "gate"
    OBVIOUS
  <2> QED
    BY <2>1, <2>4, <2>5
<1> DEFINE h == [pc |-> pc, sent |-> m, at |-> i, u |-> u, bytes |-> None,
                 from |-> {}, key |-> key, status |-> None]
<1>2. m \in Request /\ u \in Uuids \cup {None} /\ (u # None => sessions[u] # None)
  BY RegistryAssumption DEF Issued
<1>3. h \in Handler
  BY <1>2 DEF Handler
<1>4. req' = [req EXCEPT ![p] = h]
  BY <1>1
<1>5. req' \in [Reqs -> Handler] /\ req'[p] = h /\ \A q \in Reqs \ {p} : req'[q] = req[q]
  <2> HIDE DEF h
  <2> QED
    BY <1>3, <1>4 DEF BaseInv, TypeOK
<1>6. UNCHANGED <<sessions, open, blobs, members, tags>>
  BY DEF Send
<1>7. HandlerOK(p)'
  <2>1. /\ req'[p].pc = pc /\ req'[p].sent = m /\ req'[p].at = i /\ req'[p].u = u
        /\ req'[p].status = None
    BY <1>5
  <2>2. sessions' = sessions
    BY <1>6
  <2> QED
    BY <1>1, <1>2, <2>1, <2>2 DEF HandlerOK, Op, Loaded, Keyed
<1>8. TypeOK'
  BY <1>5, <1>6 DEF BaseInv, TypeOK
<1> QED
  BY <1>5, <1>6, <1>7, <1>8, QuietStep DEF BaseInv

\* A handler that answers, and does nothing else to the sessions.
LEMMA AnswerStep ==
    ASSUME BaseInv, NEW p \in Reqs, NEW status \in Status, Reply(p, status),
           req[p].pc # "idle", UNCHANGED sessions,
           open' \in [Isolates -> SUBSET Uuids],
           \A i \in Isolates : open'[i] \subseteq open[i]
    PROVE  /\ req' \in [Reqs -> Handler]
           /\ HandlersOK' /\ OpenIssued' /\ SessionsBounded'
<1>1. HandlerOK(p)'
  BY ReplyOK
<1>2. req' \in [Reqs -> Handler] /\ \A q \in Reqs \ {p} : req'[q] = req[q]
  BY ReplyType DEF BaseInv
<1> QED
  BY <1>1, <1>2, QuietStep

\* A handler that only moves on.
LEMMA MoveStep ==
    ASSUME BaseInv, NEW p \in Reqs, UNCHANGED <<sessions, open>>,
           NEW pc \in {"body", "member", "tag", "drop", "get"}, Goto(p, pc),
           req[p].pc # "idle", req[p].pc # "done",
           pc \in Keyed => req[p].pc \in Keyed,
           pc = "get" => req[p].key \in Digests,
           pc = "tag" => req[p].sent.tag # None
    PROVE  /\ req' \in [Reqs -> Handler]
           /\ HandlersOK' /\ OpenIssued' /\ SessionsBounded'
<1>1. HandlerOK(p)'
  BY GotoOK
<1>2. req' \in [Reqs -> Handler] /\ \A q \in Reqs \ {p} : req'[q] = req[q]
  BY GotoType DEF BaseInv, Keyed
<1> QED
  BY <1>1, <1>2, QuietStep

LEMMA RefuseStep ==
    ASSUME BaseInv, NEW p \in Reqs, Deny(p) \/ CallFails(p) \/ Admit(p)
    PROVE  BaseInv'
<1>1. UNCHANGED <<sessions, open, blobs, members, tags>> /\ req[p].pc # "idle" /\ req[p].pc # "done"
  BY DEF Deny, CallFails, Admit
<1>2. Reply(p, "refused") \/ Reply(p, "failed") \/ Goto(p, "body")
  BY DEF Deny, CallFails, Admit
<1>3. open' \in [Isolates -> SUBSET Uuids] /\ \A i \in Isolates : open'[i] \subseteq open[i]
  BY <1>1 DEF BaseInv, TypeOK
<1>4. req' \in [Reqs -> Handler] /\ HandlersOK' /\ OpenIssued' /\ SessionsBounded'
  BY <1>1, <1>2, <1>3, AnswerStep, MoveStep DEF Keyed, Status
<1> QED
  BY <1>1, <1>4 DEF BaseInv, TypeOK

\* The body of a request is a sequence of bytes.
LEMMA BodyType ==
    ASSUME BaseInv, NEW p \in Reqs, req[p].pc # "idle"
    PROVE  /\ Body(p) \in Seq(Bytes) /\ Len(Body(p)) \in Nat /\ Repo(p) \in Repos
           /\ req[p].at \in Isolates
<1>1. req[p].sent \in Request /\ req[p].at \in Isolates
  BY DEF BaseInv, HandlersOK, HandlerOK
<1>2. Body(p) \in Bodies /\ Repo(p) \in Repos
  BY <1>1 DEF Request, Body, Repo
<1>3. Body(p) \in Seq(Bytes)
  BY <1>2, BodySeq
<1> QED
  BY <1>1, <1>2, <1>3

\* A session grows by the body, and stays exact and within the cap: the check
\* and the push are one turn.
LEMMA AppendFacts ==
    ASSUME BaseInv, NEW p \in Reqs, req[p].pc = "body", Op(p) \in {"patch", "finalize"},
           AppendChunk(p)
    PROVE  /\ req[p].u \in Uuids
           /\ sessions' \in [Uuids -> Session \cup {None}]
           /\ \A u \in Uuids : sessions[u] # None => sessions'[u] # None
           /\ SessionsBounded'
           /\ sessions'[req[p].u].bytes \in Contents
           /\ sessions'[req[p].u].from \subseteq Repos
<1> DEFINE u == req[p].u
           s == sessions[u]
           new == [s EXCEPT !.bytes = @ \o Body(p), !.size = @ + Len(Body(p)),
                            !.from = @ \cup {Repo(p)}]
<1>1. u \in Uuids /\ s # None
  <2>1. HandlerOK(p) /\ req[p] \in Handler
    BY DEF BaseInv, TypeOK, HandlersOK
  <2> QED
    BY <2>1 DEF HandlerOK, Handler
<1>2. s \in Session
  BY <1>1 DEF BaseInv, TypeOK
<1>3. s.size = Len(s.bytes) /\ s.size <= MaxBlobBytes
  BY <1>1 DEF BaseInv, SessionsBounded, Issued
<1>4. sessions' = [sessions EXCEPT ![u] = new] /\ ~ (s.size + Len(Body(p)) > MaxBlobBytes)
  BY DEF AppendChunk, Oversize
<1>5. /\ Body(p) \in Seq(Bytes) /\ Repo(p) \in Repos
      /\ s.bytes \in Seq(Bytes) /\ s.size \in Nat /\ s.from \subseteq Repos
  BY <1>2, BodyType DEF Session
<1>6. /\ new.bytes = s.bytes \o Body(p) /\ new.size = s.size + Len(Body(p))
      /\ new.from = s.from \cup {Repo(p)} /\ new.name = s.name
  BY <1>2 DEF Session
<1>7. /\ new.bytes \in Seq(Bytes) /\ Len(new.bytes) = Len(s.bytes) + Len(Body(p))
      /\ Len(Body(p)) \in Nat
  BY <1>5, <1>6
<1>8. new.size = Len(new.bytes) /\ new.size <= MaxBlobBytes /\ new.size \in Nat
  BY <1>3, <1>4, <1>5, <1>6, <1>7, NoneIsNothing
<1>9. new \in Session
  BY <1>2, <1>5, <1>6, <1>7, <1>8 DEF Session
<1>10. new # None
  BY <1>9, NoneIsNothing
<1> HIDE DEF new, s, u
<1>11. /\ sessions'[u] = new /\ sessions' \in [Uuids -> Session \cup {None}]
       /\ \A v \in Uuids \ {u} : sessions'[v] = sessions[v]
  BY <1>1, <1>4, <1>9 DEF BaseInv, TypeOK
<1>12. new.bytes \in Contents
  BY <1>7, <1>8, WithinCap
<1>13. SessionsBounded'
  BY <1>8, <1>11 DEF BaseInv, SessionsBounded, Issued
<1> QED
  BY <1>1, <1>5, <1>6, <1>10, <1>11, <1>12, <1>13 DEF u

LEMMA PatchStep ==
    ASSUME BaseInv, NEW p \in Reqs, UploadPatch(p)
    PROVE  BaseInv'
<1>1. req[p].pc = "body" /\ Op(p) = "patch" /\ UNCHANGED <<open, blobs, members, tags>>
  BY DEF UploadPatch, TooLarge
<1>2. open' \in [Isolates -> SUBSET Uuids] /\ \A i \in Isolates : open'[i] \subseteq open[i]
  BY <1>1 DEF BaseInv, TypeOK
<1>3. CASE UNCHANGED sessions /\ Reply(p, "refused")
  <2>1. req' \in [Reqs -> Handler] /\ HandlersOK' /\ OpenIssued' /\ SessionsBounded'
    BY <1>1, <1>2, <1>3, AnswerStep DEF Status
  <2> QED
    BY <1>1, <1>3, <2>1 DEF BaseInv, TypeOK
<1>4. CASE AppendChunk(p) /\ Reply(p, "202")
  <2>1. /\ sessions' \in [Uuids -> Session \cup {None}] /\ SessionsBounded'
        /\ \A u \in Uuids : sessions[u] # None => sessions'[u] # None
    BY <1>1, <1>4, AppendFacts
  <2>2. HandlerOK(p)'
    BY <1>1, <1>4, <2>1, ReplyOK DEF Status
  <2>3. req' \in [Reqs -> Handler] /\ \A q \in Reqs \ {p} : req'[q] = req[q]
    BY <1>4, ReplyType DEF BaseInv, Status
  <2>4. \A q \in Reqs : HandlerOK(q)'
    <3> SUFFICES ASSUME NEW q \in Reqs, q # p PROVE HandlerOK(q)'
      BY <2>2
    <3>1. HandlerOK(q) /\ req[q].u \in Uuids \cup {None}
      BY DEF BaseInv, HandlersOK, TypeOK, Handler
    <3> QED
      BY <2>1, <2>3, <3>1, OtherHandlers
  <2>5. OpenIssued'
    BY <1>1, <2>1 DEF BaseInv, OpenIssued, TypeOK
  <2> QED
    BY <1>1, <2>1, <2>3, <2>4, <2>5 DEF BaseInv, TypeOK, HandlersOK
<1> QED
  BY <1>3, <1>4 DEF UploadPatch, TooLarge

LEMMA FinalizeStep ==
    ASSUME BaseInv, NEW p \in Reqs, UploadFinalize(p)
    PROVE  BaseInv'
<1>1. req[p].pc = "body" /\ Op(p) = "finalize" /\ UNCHANGED <<open, blobs, members, tags>>
  BY DEF UploadFinalize, TooLarge
<1>2. open' \in [Isolates -> SUBSET Uuids] /\ \A i \in Isolates : open'[i] \subseteq open[i]
  BY <1>1 DEF BaseInv, TypeOK
<1>3. CASE UNCHANGED sessions /\ Reply(p, "refused")
  <2>1. req' \in [Reqs -> Handler] /\ HandlersOK' /\ OpenIssued' /\ SessionsBounded'
    BY <1>1, <1>2, <1>3, AnswerStep DEF Status
  <2> QED
    BY <1>1, <1>3, <2>1 DEF BaseInv, TypeOK
<1>4. CASE /\ AppendChunk(p)
           /\ req' = [req EXCEPT ![p].pc = "verify",
                                 ![p].bytes = sessions'[req[p].u].bytes,
                                 ![p].from = sessions'[req[p].u].from]
  <2>1. /\ sessions' \in [Uuids -> Session \cup {None}] /\ SessionsBounded'
        /\ \A u \in Uuids : sessions[u] # None => sessions'[u] # None
        /\ sessions'[req[p].u].bytes \in Contents /\ sessions'[req[p].u].from \subseteq Repos
    BY <1>1, <1>4, AppendFacts
  <2>2. PICK full \in Contents, from \in SUBSET Repos :
            req' = [req EXCEPT ![p].pc = "verify", ![p].bytes = full, ![p].from = from]
    BY <1>4, <2>1
  <2>3. req[p] \in Handler /\ HandlerOK(p) /\ full \in Seq(Bytes)
    BY BodySeq DEF BaseInv, TypeOK, HandlersOK
  <2>4. PICK h : h = [req[p] EXCEPT !.pc = "verify", !.bytes = full, !.from = from]
    OBVIOUS
  <2>5. /\ h \in Handler /\ h.pc = "verify" /\ h.bytes = full
        /\ h.sent = req[p].sent /\ h.at = req[p].at /\ h.u = req[p].u
        /\ h.status = req[p].status
    BY <2>3, <2>4 DEF Handler
  <2>6. req' = [req EXCEPT ![p] = h]
    BY <2>2, <2>4 DEF BaseInv, TypeOK
  <2>7. req' \in [Reqs -> Handler] /\ req'[p] = h /\ \A q \in Reqs \ {p} : req'[q] = req[q]
    BY <2>5, <2>6 DEF BaseInv, TypeOK
  <2>8. HandlerOK(p)'
    <3>1. req[p].u \in Uuids \cup {None}
      BY <2>3 DEF Handler
    <3> QED
      BY <1>1, <2>1, <2>3, <2>5, <2>7, <3>1 DEF HandlerOK, Op, Loaded, Keyed, Pushes
  <2>9. \A q \in Reqs : HandlerOK(q)'
    <3> SUFFICES ASSUME NEW q \in Reqs, q # p PROVE HandlerOK(q)'
      BY <2>8
    <3>1. HandlerOK(q) /\ req[q].u \in Uuids \cup {None}
      BY DEF BaseInv, HandlersOK, TypeOK, Handler
    <3> QED
      BY <2>1, <2>7, <3>1, OtherHandlers
  <2>10. OpenIssued'
    BY <1>1, <2>1 DEF BaseInv, OpenIssued, TypeOK
  <2> QED
    BY <1>1, <2>1, <2>7, <2>9, <2>10 DEF BaseInv, TypeOK, HandlersOK
<1> QED
  BY <1>3, <1>4 DEF UploadFinalize, TooLarge

LEMMA BeginStep ==
    ASSUME BaseInv, NEW p \in Reqs, UploadBegin(p)
    PROVE  BaseInv'
<1>1. req[p].pc = "body" /\ UNCHANGED <<blobs, members, tags>>
  BY DEF UploadBegin
<1>3. CASE UNCHANGED <<sessions, open>> /\ Reply(p, "refused")
  <2>1. open' \in [Isolates -> SUBSET Uuids] /\ \A i \in Isolates : open'[i] \subseteq open[i]
    BY <1>3 DEF BaseInv, TypeOK
  <2>2. req' \in [Reqs -> Handler] /\ HandlersOK' /\ OpenIssued' /\ SessionsBounded'
    BY <1>1, <1>3, <2>1, AnswerStep DEF Status
  <2> QED
    BY <1>1, <1>3, <2>2 DEF BaseInv, TypeOK
<1>4. ASSUME NEW u \in Uuids \ Issued, ~ Oversize(Len(Body(p))), Reply(p, "202"),
             sessions' = [sessions EXCEPT ![u] =
                 [name |-> Repo(p), bytes |-> Body(p), size |-> Len(Body(p)),
                  from |-> {Repo(p)}]],
             open' = [open EXCEPT ![req[p].at] = @ \cup {u}]
      PROVE  BaseInv'
  <2>1. PICK s : s = [name |-> Repo(p), bytes |-> Body(p), size |-> Len(Body(p)),
                      from |-> {Repo(p)}]
    OBVIOUS
  <2>2. /\ Body(p) \in Seq(Bytes) /\ Len(Body(p)) \in Nat /\ Repo(p) \in Repos
        /\ req[p].at \in Isolates
    BY <1>1, BodyType
  <2>3. s \in Session /\ s # None /\ s.size = Len(s.bytes)
    BY <2>1, <2>2, NoneIsNothing DEF Session
  <2>4. s.size <= MaxBlobBytes
    BY <1>4, <2>1, <2>2, NoneIsNothing DEF Oversize
  <2>5. /\ sessions' \in [Uuids -> Session \cup {None}] /\ sessions'[u] = s
        /\ \A v \in Uuids \ {u} : sessions'[v] = sessions[v]
    BY <1>4, <2>1, <2>3 DEF BaseInv, TypeOK
  <2>6. SessionsBounded'
    BY <2>3, <2>4, <2>5 DEF BaseInv, SessionsBounded, Issued
  <2>7. \A v \in Uuids : sessions[v] # None => sessions'[v] # None
    BY <2>3, <2>5
  <2>8. open' \in [Isolates -> SUBSET Uuids] /\ OpenIssued'
    BY <1>4, <2>2, <2>3, <2>5, <2>7 DEF BaseInv, TypeOK, OpenIssued
  <2>9. req' \in [Reqs -> Handler] /\ \A q \in Reqs \ {p} : req'[q] = req[q]
    BY <1>4, ReplyType DEF BaseInv, Status
  <2>10. HandlerOK(p)'
    BY <1>1, <1>4, <2>7, ReplyOK DEF Status
  <2>11. \A q \in Reqs : HandlerOK(q)'
    <3> SUFFICES ASSUME NEW q \in Reqs, q # p PROVE HandlerOK(q)'
      BY <2>10
    <3>1. HandlerOK(q) /\ req[q].u \in Uuids \cup {None}
      BY DEF BaseInv, HandlersOK, TypeOK, Handler
    <3> QED
      BY <2>7, <2>9, <3>1, OtherHandlers
  <2> QED
    BY <1>1, <2>5, <2>6, <2>8, <2>9, <2>11 DEF BaseInv, TypeOK, HandlersOK
<1> QED
  BY <1>3, <1>4 DEF UploadBegin, TooLarge

\* A handler that fills in its own fields.
LEMMA WriteStep ==
    ASSUME BaseInv, NEW p \in Reqs, UNCHANGED <<sessions, open>>, NEW h \in Handler,
           req' = [req EXCEPT ![p] = h], req[p].pc # "idle", h.pc \notin {"idle", "resolve", "tag"},
           h.sent = req[p].sent, h.at = req[p].at, h.u = req[p].u,
           h.pc # "done" => h.status = None,
           h.pc \in Loaded => Op(p) \in Pushes /\ h.bytes \in Contents,
           h.pc \in Keyed => h.key \in Digests /\ Matches(h.bytes, h.key),
           h.pc # "get"
    PROVE  /\ req' \in [Reqs -> Handler] /\ req'[p] = h
           /\ \A q \in Reqs \ {p} : req'[q] = req[q]
           /\ HandlersOK' /\ OpenIssued' /\ SessionsBounded'
<1>1. req' \in [Reqs -> Handler] /\ req'[p] = h /\ \A q \in Reqs \ {p} : req'[q] = req[q]
  BY DEF BaseInv, TypeOK
<1>2. HandlerOK(p) /\ req[p] \in Handler
  BY DEF BaseInv, TypeOK, HandlersOK
<1>3. HandlerOK(p)'
  BY <1>1, <1>2 DEF HandlerOK, Op, Matches, Loaded, Keyed
<1> QED
  BY <1>1, <1>3, QuietStep

LEMMA WholeBodyStep ==
    ASSUME BaseInv, NEW p \in Reqs, WholeBody(p)
    PROVE  BaseInv'
<1>1. /\ req[p].pc = "body" /\ Op(p) \in Pushes
      /\ UNCHANGED <<sessions, open, blobs, members, tags>>
  BY DEF WholeBody, Pushes
<1>2. open' \in [Isolates -> SUBSET Uuids] /\ \A i \in Isolates : open'[i] \subseteq open[i]
  BY <1>1 DEF BaseInv, TypeOK
<1>3. CASE Reply(p, "refused")
  <2>1. req' \in [Reqs -> Handler] /\ HandlersOK' /\ OpenIssued' /\ SessionsBounded'
    BY <1>1, <1>2, <1>3, AnswerStep DEF Status
  <2> QED
    BY <1>1, <2>1 DEF BaseInv, TypeOK
<1>4. CASE /\ ~ Oversize(Len(Body(p)))
           /\ req' = [req EXCEPT ![p].pc = "verify", ![p].bytes = Body(p),
                                 ![p].from = {Repo(p)}]
  <2>1. Body(p) \in Contents /\ Body(p) \in Seq(Bytes) /\ Repo(p) \in Repos
    <3>1. Body(p) \in Seq(Bytes) /\ Len(Body(p)) \in Nat /\ Repo(p) \in Repos
      BY <1>1, BodyType
    <3>2. Len(Body(p)) <= MaxBlobBytes
      BY <1>4, <3>1, NoneIsNothing DEF Oversize
    <3> QED
      BY <3>1, <3>2, WithinCap
  <2>2. req[p] \in Handler /\ HandlerOK(p)
    BY DEF BaseInv, TypeOK, HandlersOK
  <2>3. PICK h : h = [req[p] EXCEPT !.pc = "verify", !.bytes = Body(p), !.from = {Repo(p)}]
    OBVIOUS
  <2>4. /\ h \in Handler /\ h.pc = "verify" /\ h.bytes = Body(p) /\ h.sent = req[p].sent
        /\ h.at = req[p].at /\ h.u = req[p].u /\ h.status = req[p].status
    BY <2>1, <2>2, <2>3 DEF Handler
  <2>5. req' = [req EXCEPT ![p] = h]
    BY <1>4, <2>3 DEF BaseInv, TypeOK
  <2>6. h.status = None
    BY <1>1, <2>2, <2>4 DEF HandlerOK
  <2>7. req' \in [Reqs -> Handler] /\ HandlersOK' /\ OpenIssued' /\ SessionsBounded'
    BY <1>1, <2>1, <2>4, <2>5, <2>6, WriteStep DEF Loaded, Keyed
  <2> QED
    BY <1>1, <2>7 DEF BaseInv, TypeOK
<1> QED
  BY <1>3, <1>4 DEF WholeBody, TooLarge

LEMMA VerifyStep ==
    ASSUME BaseInv, NEW p \in Reqs, Verify(p)
    PROVE  BaseInv'
<1>1. req[p].pc = "verify" /\ UNCHANGED <<sessions, open, blobs, members, tags>>
  BY DEF Verify
<1>2. open' \in [Isolates -> SUBSET Uuids] /\ \A i \in Isolates : open'[i] \subseteq open[i]
  BY <1>1 DEF BaseInv, TypeOK
<1>3. CASE Reply(p, "DIGEST_INVALID")
  <2>1. req' \in [Reqs -> Handler] /\ HandlersOK' /\ OpenIssued' /\ SessionsBounded'
    BY <1>1, <1>2, <1>3, AnswerStep DEF Status
  <2> QED
    BY <1>1, <2>1 DEF BaseInv, TypeOK
<1>4. CASE /\ Matches(req[p].bytes, StorageKey(p))
           /\ req' = [req EXCEPT ![p].pc = "put", ![p].key = StorageKey(p)]
  <2>1. req[p] \in Handler /\ HandlerOK(p)
    BY DEF BaseInv, TypeOK, HandlersOK
  <2>2. req[p].bytes \in Contents /\ Op(p) \in Pushes /\ req[p].status = None
    BY <1>1, <2>1 DEF HandlerOK, Loaded
  <2>3. PICK key \in Digests : key = StorageKey(p)
    BY <1>4, <2>2, RegistryAssumption DEF Matches
  <2>4. PICK h : h = [req[p] EXCEPT !.pc = "put", !.key = key]
    OBVIOUS
  <2>5. /\ h \in Handler /\ h.pc = "put" /\ h.bytes = req[p].bytes /\ h.key = key
        /\ h.sent = req[p].sent /\ h.at = req[p].at /\ h.u = req[p].u
        /\ h.status = req[p].status
    BY <2>1, <2>3, <2>4 DEF Handler
  <2>6. req' = [req EXCEPT ![p] = h]
    BY <1>4, <2>3, <2>4 DEF BaseInv, TypeOK
  <2>7. Matches(h.bytes, h.key)
    BY <1>4, <2>3, <2>5
  <2>8. req' \in [Reqs -> Handler] /\ HandlersOK' /\ OpenIssued' /\ SessionsBounded'
    BY <1>1, <2>2, <2>5, <2>6, <2>7, WriteStep DEF Loaded, Keyed
  <2> QED
    BY <1>1, <2>8 DEF BaseInv, TypeOK
<1> QED
  BY <1>3, <1>4 DEF Verify

LEMMA StoreStep ==
    ASSUME BaseInv, NEW p \in Reqs, PutBlob(p) \/ RecordMembership(p) \/ UpsertTag(p) \/ DropSession(p)
    PROVE  BaseInv'
<1>1. /\ req[p] \in Handler /\ HandlerOK(p) /\ req[p].pc \in Keyed /\ UNCHANGED sessions
  BY DEF BaseInv, TypeOK, HandlersOK, Keyed, PutBlob, RecordMembership, UpsertTag, DropSession
<1>2. /\ req[p].key \in Digests /\ req[p].bytes \in Seq(Bytes)
      /\ Repo(p) \in Repos /\ req[p].at \in Isolates
  <2>1. req[p].bytes \in Contents /\ req[p].sent \in Request
    BY <1>1 DEF HandlerOK, Keyed, Loaded
  <2> QED
    BY <1>1, <2>1, BodySeq DEF HandlerOK, Keyed, Request, Repo
<1>3. /\ open' \in [Isolates -> SUBSET Uuids]
      /\ \A i \in Isolates : open'[i] \subseteq open[i]
  BY <1>2 DEF BaseInv, TypeOK, PutBlob, RecordMembership, UpsertTag, DropSession
<1>4. /\ blobs' \in [Digests -> Seq(Bytes) \cup {None}]
  BY <1>2 DEF BaseInv, TypeOK, PutBlob, RecordMembership, UpsertTag, DropSession
<1>5. members' \subseteq Member
  <2>1. Kind(p) \in {"blob", "manifest"}
    BY DEF Kind
  <2>2. [repo |-> Repo(p), digest |-> req[p].key, kind |-> Kind(p)] \in Member
    BY <1>2, <2>1 DEF Member
  <2> QED
    BY <2>2 DEF BaseInv, TypeOK, PutBlob, RecordMembership, UpsertTag, DropSession
<1>6. tags' \in [Repos \X Tags -> Digests \cup {None}]
  BY <1>2 DEF BaseInv, TypeOK, PutBlob, RecordMembership, UpsertTag, DropSession
<1>7. \/ /\ Goto(p, "member") \/ Goto(p, "drop") \/ (Goto(p, "tag") /\ req[p].sent.tag # None)
         /\ UNCHANGED open
      \/ Reply(p, "201")
  BY DEF PutBlob, RecordMembership, UpsertTag, DropSession
<1>8. req' \in [Reqs -> Handler] /\ HandlersOK' /\ OpenIssued' /\ SessionsBounded'
  BY <1>1, <1>3, <1>7, AnswerStep, MoveStep DEF Keyed, Status
<1> QED
  BY <1>1, <1>3, <1>4, <1>5, <1>6, <1>8 DEF BaseInv, TypeOK

LEMMA PullStep ==
    ASSUME BaseInv, NEW p \in Reqs, ResolveTag(p) \/ CheckMembership(p) \/ GetBlob(p)
    PROVE  BaseInv'
<1>1. UNCHANGED <<sessions, open, blobs, members, tags>> /\ req[p].pc # "idle" /\ req[p].pc # "done"
  BY DEF ResolveTag, CheckMembership, GetBlob
<1>2. open' \in [Isolates -> SUBSET Uuids] /\ \A i \in Isolates : open'[i] \subseteq open[i]
  BY <1>1 DEF BaseInv, TypeOK
<1>3. req[p] \in Handler /\ HandlerOK(p)
  BY DEF BaseInv, TypeOK, HandlersOK
<1>4. CASE Reply(p, "refused")
  <2>1. req' \in [Reqs -> Handler] /\ HandlersOK' /\ OpenIssued' /\ SessionsBounded'
    BY <1>1, <1>2, <1>4, AnswerStep DEF Status
  <2> QED
    BY <1>1, <2>1 DEF BaseInv, TypeOK
<1>5. CASE CheckMembership(p) /\ HasMembership(p) /\ Goto(p, "get")
  <2>1. [repo |-> Repo(p), digest |-> req[p].key, kind |-> Kind(p)] \in Member
    BY <1>5 DEF HasMembership, BaseInv, TypeOK
  <2>2. req[p].key \in Digests
    BY <2>1 DEF Member
  <2>3. req' \in [Reqs -> Handler] /\ HandlersOK' /\ OpenIssued' /\ SessionsBounded'
    BY <1>1, <1>5, <2>2, MoveStep DEF Keyed
  <2> QED
    BY <1>1, <2>3 DEF BaseInv, TypeOK
<1>6. CASE ResolveTag(p) /\ ~ Reply(p, "refused")
  <2>1. req[p].pc = "resolve" /\ req[p].sent.tag \in Tags /\ Repo(p) \in Repos
    BY <1>3, <1>6 DEF ResolveTag, HandlerOK, Request, Repo
  <2>2. PICK d \in Digests : req' = [req EXCEPT ![p].pc = "check", ![p].key = d]
    BY <1>6, <2>1 DEF ResolveTag, BaseInv, TypeOK
  <2>3. PICK h : h = [req[p] EXCEPT !.pc = "check", !.key = d]
    OBVIOUS
  <2>4. /\ h \in Handler /\ h.pc = "check" /\ h.sent = req[p].sent /\ h.at = req[p].at
        /\ h.u = req[p].u /\ h.status = req[p].status
    BY <1>3, <2>3 DEF Handler
  <2>5. req' = [req EXCEPT ![p] = h] /\ h.status = None
    BY <1>1, <1>3, <2>2, <2>3, <2>4 DEF BaseInv, TypeOK, HandlerOK
  <2>6. req' \in [Reqs -> Handler] /\ HandlersOK' /\ OpenIssued' /\ SessionsBounded'
    BY <1>1, <2>4, <2>5, WriteStep DEF Loaded, Keyed
  <2> QED
    BY <1>1, <2>6 DEF BaseInv, TypeOK
<1>7. CASE GetBlob(p)
  <2>1. req[p].pc = "get" /\ req[p].key \in Digests
    BY <1>3, <1>7 DEF GetBlob, HandlerOK
  <2>2. PICK b \in Seq(Bytes) \cup {None}, status \in {"refused", "200"} :
            req' = [req EXCEPT ![p].pc = "done", ![p].bytes = b, ![p].status = status]
    BY <1>7, <2>1 DEF GetBlob, BaseInv, TypeOK
  <2>3. PICK h : h = [req[p] EXCEPT !.pc = "done", !.bytes = b, !.status = status]
    OBVIOUS
  <2>4. /\ h \in Handler /\ h.pc = "done" /\ h.sent = req[p].sent /\ h.at = req[p].at
        /\ h.u = req[p].u
    BY <1>3, <2>3 DEF Handler, Status
  <2>5. req' = [req EXCEPT ![p] = h]
    BY <2>2, <2>3 DEF BaseInv, TypeOK
  <2>6. req' \in [Reqs -> Handler] /\ HandlersOK' /\ OpenIssued' /\ SessionsBounded'
    BY <1>1, <2>4, <2>5, WriteStep DEF Loaded, Keyed
  <2> QED
    BY <1>1, <2>6 DEF BaseInv, TypeOK
<1> QED
  BY <1>4, <1>5, <1>6, <1>7 DEF CheckMembership

\* A restart moves handlers to "done" and changes no other field of theirs.
LEMMA RestartFacts ==
    ASSUME TypeOK, NEW i \in Isolates, Restart(i), NEW p \in Reqs
    PROVE  /\ req'[p] \in Handler
           /\ req'[p].sent = req[p].sent /\ req'[p].at = req[p].at /\ req'[p].u = req[p].u
           /\ req'[p].bytes = req[p].bytes /\ req'[p].key = req[p].key
           /\ req'[p].from = req[p].from
           /\ \/ req'[p] = req[p]
              \/ /\ req'[p].pc = "done" /\ req'[p].status = "failed" /\ req[p].pc # "done"
                 /\ req[p].at = i
<1>1. req[p] \in Handler
  BY DEF TypeOK
<1>2. req'[p] = IF req[p].at = i /\ req[p].pc # "done"
                THEN [req[p] EXCEPT !.pc = "done", !.status = "failed"]
                ELSE req[p]
  BY DEF Restart
<1>3. CASE req[p].at = i /\ req[p].pc # "done"
  BY <1>1, <1>2, <1>3 DEF Handler, Status
<1>4. CASE ~ (req[p].at = i /\ req[p].pc # "done")
  BY <1>1, <1>2, <1>4
<1> QED
  BY <1>3, <1>4

LEMMA RestartStep ==
    ASSUME BaseInv, NEW i \in Isolates, Restart(i)
    PROVE  BaseInv'
<1>1. /\ UNCHANGED <<sessions, blobs, members, tags>>
      /\ open' = [open EXCEPT ![i] = {}]
  BY DEF Restart
<1>2. req' \in [Reqs -> Handler]
  <2>1. \A p \in Reqs : req'[p] \in Handler
    BY RestartFacts DEF BaseInv
  <2>2. req' = [p \in Reqs |-> req'[p]]
    BY DEF Restart
  <2> QED
    BY <2>1, <2>2
<1>3. open' \in [Isolates -> SUBSET Uuids] /\ OpenIssued' /\ SessionsBounded'
  BY <1>1 DEF BaseInv, TypeOK, OpenIssued, SessionsBounded, Issued
<1>4. ASSUME NEW p \in Reqs
      PROVE  HandlerOK(p)'
  <2>1. HandlerOK(p) /\ req[p] \in Handler
    BY DEF BaseInv, TypeOK, HandlersOK
  <2>2. CASE req'[p] = req[p]
    BY <1>1, <2>1, <2>2, OtherHandlers DEF Handler
  <2>3. CASE req'[p].pc = "done" /\ req[p].at = i
    <3>2. /\ req'[p].sent = req[p].sent /\ req'[p].at = req[p].at /\ req'[p].u = req[p].u
      BY RestartFacts DEF BaseInv
    <3>3. req[p].pc # "idle"
      BY <2>1, <2>3, NoneIsNothing DEF HandlerOK
    <3> QED
      BY <1>1, <2>1, <2>3, <3>2, <3>3 DEF HandlerOK, Op, Loaded, Keyed
  <2> QED
    BY <2>2, <2>3, RestartFacts DEF BaseInv
<1> QED
  BY <1>1, <1>2, <1>3, <1>4 DEF BaseInv, TypeOK, HandlersOK

LEMMA BaseInit == Init => BaseInv
<1> SUFFICES ASSUME Init PROVE BaseInv
  OBVIOUS
<1>1. Idle \in Handler
  BY DEF Idle, Handler
<1>2. \A p \in Reqs : req[p] = Idle
  BY DEF Init
<1>3. TypeOK
  BY <1>1 DEF Init, TypeOK
<1>4. HandlersOK
  BY <1>2 DEF HandlersOK, HandlerOK, Idle, Loaded, Keyed
<1>5. OpenIssued /\ SessionsBounded
  BY DEF Init, OpenIssued, SessionsBounded, Issued
<1> QED
  BY <1>3, <1>4, <1>5 DEF BaseInv

LEMMA BaseStep == BaseInv /\ [Next]_vars => BaseInv'
<1> SUFFICES ASSUME BaseInv, [Next]_vars PROVE BaseInv'
  OBVIOUS
<1>1. CASE \E p \in Reqs : Handle(p)
  BY <1>1, SendStep, RefuseStep, BeginStep, PatchStep, FinalizeStep, WholeBodyStep, VerifyStep,
     StoreStep, PullStep DEF Handle
<1>2. CASE \E i \in Isolates : Restart(i)
  BY <1>2, RestartStep
<1>3. CASE UNCHANGED vars
  <2>1. \A p \in Reqs : HandlerOK(p)'
    BY <1>3, OtherHandlers DEF vars, BaseInv, HandlersOK, TypeOK, Handler
  <2> QED
    BY <1>3, <2>1 DEF vars, BaseInv, TypeOK, HandlersOK, OpenIssued, SessionsBounded, Issued
<1> QED
  BY <1>1, <1>2, <1>3 DEF Next

\* The state of the registry routes is always well-typed.
THEOREM RegistryTypes == Spec => []TypeOK
<1>1. BaseInv => TypeOK
  BY DEF BaseInv
<1> QED
  BY <1>1, BaseInit, BaseStep, PTL DEF Spec

\* The byte count of every upload session is exact and within the cap, for
\* any number of requests that append to it at once (handleUploadPatch and
\* handleUploadFinalize check and push in the turn in which the body arrived).
THEOREM RegistrySessionsBounded == Spec => []SessionsBounded
<1>1. BaseInv => SessionsBounded
  BY DEF BaseInv
<1> QED
  BY <1>1, BaseInit, BaseStep, PTL DEF Spec

-----------------------------------------------------------------------------
(***************************************************************************)
(* The indexes never run ahead of the bytes.                               *)
(***************************************************************************)

Backed(p) ==
    /\ req[p].pc = "member" => blobs[req[p].key] # None
    /\ req[p].pc \in {"tag", "drop"} \/ req[p].status = "201" => Stored(Repo(p), req[p].key, Kind(p))
    /\ req[p].pc = "tag" => Op(p) = "manifest"
    /\ req[p].pc = "resolve" => Op(p) = "pullManifest"
    /\ req[p].pc = "check" /\ Op(p) = "pullManifest" /\ req[p].sent.tag # None =>
           Stored(Repo(p), req[p].key, "manifest")
    /\ req[p].pc = "get" => Stored(Repo(p), req[p].key, Kind(p))

RowsBacked == \A m \in members : blobs[m.digest] # None

\* TagsServe alone is not inductive: it needs to know that a handler about to
\* write an index has put what the index will point at.
IndexInv == TagsServe /\ RowsBacked /\ \A p \in Reqs : Backed(p)

\* Nothing is ever removed from BlobStore or from the membership index, and
\* stored bytes are never replaced.
LEMMA StoreGrows ==
    ASSUME BaseInv, [Next]_vars
    PROVE  /\ members \subseteq members'
           /\ \A d \in Digests : blobs[d] # None => blobs'[d] = blobs[d]
<1>1. ASSUME NEW p \in Reqs, PutBlob(p)
      PROVE  UNCHANGED members /\ \A d \in Digests : blobs[d] # None => blobs'[d] = blobs[d]
  BY <1>1 DEF PutBlob, BaseInv, TypeOK
<1>2. ASSUME NEW p \in Reqs, RecordMembership(p)
      PROVE  members \subseteq members' /\ UNCHANGED blobs
  BY <1>2 DEF RecordMembership
<1>3. ASSUME NEW p \in Reqs, Handle(p), ~ PutBlob(p), ~ RecordMembership(p)
      PROVE  UNCHANGED <<members, blobs>>
  BY <1>3 DEF Handle, Send, Deny, Admit, UploadBegin, UploadPatch, UploadFinalize, WholeBody,
              Verify, UpsertTag, DropSession, CallFails, ResolveTag, CheckMembership, GetBlob
<1>4. ASSUME NEW i \in Isolates, Restart(i)
      PROVE  UNCHANGED <<members, blobs>>
  BY <1>4 DEF Restart
<1> QED
  BY <1>1, <1>2, <1>3, <1>4 DEF Next, vars

LEMMA StoredStays ==
    ASSUME BaseInv, [Next]_vars, NEW r, NEW d, NEW kind, Stored(r, d, kind)
    PROVE  Stored(r, d, kind)' /\ d \in Digests
<1>1. [repo |-> r, digest |-> d, kind |-> kind] \in Member
  BY DEF Stored, BaseInv, TypeOK
<1>2. d \in Digests
  BY <1>1 DEF Member
<1> QED
  BY <1>2, StoreGrows DEF Stored

\* A step of one handler leaves the others alone.
LEMMA OneHandler ==
    ASSUME BaseInv, NEW p \in Reqs, Handle(p), NEW q \in Reqs, q # p
    PROVE  req'[q] = req[q]
BY DEF BaseInv, TypeOK, Handle, Goto, Reply, TooLarge, Send, Deny, Admit, UploadBegin, UploadPatch,
       UploadFinalize, WholeBody, Verify, PutBlob, RecordMembership, UpsertTag, DropSession,
       CallFails, ResolveTag, CheckMembership, GetBlob

\* What is true of a handler stays true while others move.
LEMMA BackedStays ==
    ASSUME BaseInv, [Next]_vars, NEW q \in Reqs, Backed(q), req'[q] = req[q]
    PROVE  Backed(q)'
<1>1. req[q].pc = "member" => blobs'[req[q].key] # None
  <2>1. req[q].pc = "member" => req[q].key \in Digests
    BY DEF BaseInv, HandlersOK, HandlerOK, Keyed
  <2> QED
    BY <2>1, StoreGrows DEF Backed
<1>2. /\ Stored(Repo(q), req[q].key, Kind(q)) => Stored(Repo(q), req[q].key, Kind(q))'
      /\ Stored(Repo(q), req[q].key, "manifest") => Stored(Repo(q), req[q].key, "manifest")'
  <2>1. PICK r, d, k : r = Repo(q) /\ d = req[q].key /\ k = Kind(q)
    OBVIOUS
  <2>2. Repo(q)' = r /\ (req[q].key)' = d /\ Kind(q)' = k
    BY <2>1 DEF Repo, Kind, Op
  <2>3. Stored(r, d, k) => Stored(r, d, k)'
    BY StoredStays
  <2>4. Stored(r, d, "manifest") => Stored(r, d, "manifest")'
    BY StoredStays
  <2> QED
    BY <2>1, <2>2, <2>3, <2>4 DEF Stored
<1> QED
  BY <1>1, <1>2 DEF Backed, Op, Repo, Kind

\* The handler's own step, when it touches no index.
LEMMA BackedQuiet ==
    ASSUME BaseInv, NEW p \in Reqs,
           \/ Deny(p) \/ Admit(p) \/ UploadBegin(p) \/ UploadPatch(p) \/ UploadFinalize(p)
           \/ WholeBody(p) \/ Verify(p) \/ CallFails(p) \/ GetBlob(p)
    PROVE  Backed(p)'
<1>1. req[p] \in Handler /\ HandlerOK(p) /\ req[p].pc \notin {"done", "idle"}
  BY DEF BaseInv, TypeOK, HandlersOK, Deny, Admit, UploadBegin, UploadPatch, UploadFinalize,
         WholeBody, Verify, CallFails, GetBlob
<1>2. req[p].status = None
  BY <1>1 DEF HandlerOK
<1>3. CASE \/ \E status \in {"202", "refused", "failed", "DIGEST_INVALID"} : Reply(p, status)
           \/ Goto(p, "body")
  <2>1. req'[p].pc \in {"done", "body"} /\ req'[p].status # "201"
    BY <1>1, <1>2, <1>3, NoneIsNothing DEF Reply, Goto, BaseInv, TypeOK, Handler, Status
  <2> QED
    BY <2>1 DEF Backed
<1>4. CASE \/ UploadFinalize(p) /\ req'[p].pc = "verify"
           \/ WholeBody(p) /\ req'[p].pc = "verify"
           \/ Verify(p) /\ req'[p].pc = "put"
  <2>1. req'[p].status = req[p].status \/ req'[p].status \in {"refused", "DIGEST_INVALID"}
    BY <1>1, <1>4 DEF UploadFinalize, WholeBody, Verify, TooLarge, Reply, BaseInv, TypeOK, Handler
  <2> QED
    BY <1>2, <1>4, <2>1, NoneIsNothing DEF Backed, Status
<1>5. CASE GetBlob(p)
  <2>1. req'[p].pc = "done" /\ req'[p].status # "201"
    BY <1>1, <1>5 DEF GetBlob, BaseInv, TypeOK, Handler
  <2> QED
    BY <2>1 DEF Backed
<1>6. ASSUME UploadFinalize(p) \/ WholeBody(p) \/ Verify(p)
      PROVE  \/ Reply(p, "refused") \/ Reply(p, "DIGEST_INVALID")
             \/ UploadFinalize(p) /\ req'[p].pc = "verify"
             \/ WholeBody(p) /\ req'[p].pc = "verify"
             \/ Verify(p) /\ req'[p].pc = "put"
  BY <1>1, <1>6 DEF UploadFinalize, WholeBody, Verify, TooLarge, BaseInv, TypeOK, Handler
<1> QED
  BY <1>3, <1>4, <1>5, <1>6 DEF Deny, Admit, UploadBegin, UploadPatch, CallFails, TooLarge

LEMMA BackedSend ==
    ASSUME BaseInv, NEW p \in Reqs, Send(p)
    PROVE  Backed(p)'
<1>1. PICK m \in MenuOf[p] :
          /\ req'[p].sent = m /\ req'[p].status = None
          /\ req'[p].pc = IF m.op = "pullManifest" /\ m.tag # None THEN "resolve"
                          ELSE IF m.op \in {"pullManifest", "pullBlob"} THEN "check"
                          ELSE "gate"
  BY DEF Send, BaseInv, TypeOK
<1> QED
  BY <1>1, NoneIsNothing DEF Backed, Op, Status

\* Bytes first, then membership, then the tag.
LEMMA BackedStore ==
    ASSUME BaseInv, IndexInv, NEW p \in Reqs, [Next]_vars,
           PutBlob(p) \/ RecordMembership(p) \/ UpsertTag(p) \/ DropSession(p)
    PROVE  Backed(p)' /\ RowsBacked'
<1>1. /\ req[p] \in Handler /\ HandlerOK(p) /\ req[p].pc \in Keyed /\ Backed(p)
  BY DEF BaseInv, TypeOK, HandlersOK, IndexInv, Keyed, PutBlob, RecordMembership, UpsertTag,
         DropSession
<1>2. req[p].key \in Digests /\ req[p].bytes # None /\ req[p].status = None
  BY <1>1, NoneIsNothing DEF HandlerOK, Keyed, Loaded
<1>3. \/ \E pc \in {"member", "tag", "drop"} : Goto(p, pc)
      \/ Reply(p, "201")
  BY DEF PutBlob, RecordMembership, UpsertTag, DropSession
<1>4. req'[p].sent = req[p].sent /\ req'[p].key = req[p].key
  BY <1>1, <1>3 DEF Goto, Reply, BaseInv, TypeOK, Handler
<1>5. Repo(p)' = Repo(p) /\ Kind(p)' = Kind(p) /\ Op(p)' = Op(p)
  BY <1>4 DEF Repo, Kind, Op
<1>6. CASE PutBlob(p)
  <2>1. req'[p].pc = "member" /\ req'[p].status = None
    BY <1>1, <1>2, <1>6 DEF PutBlob, Goto, BaseInv, TypeOK, Handler
  <2>2. blobs'[req[p].key] # None
    BY <1>2, <1>6 DEF PutBlob, BaseInv, TypeOK
  <2>3. RowsBacked'
    <3>1. members' = members /\ \A x \in members : x.digest \in Digests
      BY <1>6 DEF PutBlob, BaseInv, TypeOK, Member
    <3> QED
      BY <3>1, StoreGrows DEF RowsBacked, IndexInv
  <2> QED
    BY <1>4, <2>1, <2>2, <2>3, NoneIsNothing DEF Backed, Status
<1>7. CASE RecordMembership(p)
  <2>1. /\ members' = members \cup {[repo |-> Repo(p), digest |-> req[p].key, kind |-> Kind(p)]}
        /\ UNCHANGED blobs /\ req[p].pc = "member"
    BY <1>7 DEF RecordMembership
  <2>2. blobs[req[p].key] # None
    BY <1>1, <2>1 DEF Backed
  <2>3. Stored(Repo(p), req[p].key, Kind(p))'
    BY <1>4, <1>5, <2>1, <2>2 DEF Stored
  <2>4. RowsBacked'
    BY <2>1, <2>2 DEF RowsBacked, IndexInv
  <2>5. req'[p].pc \in {"tag", "drop", "done"} /\ (req'[p].pc = "tag" => Op(p) = "manifest")
    BY <1>1, <1>7 DEF RecordMembership, Goto, Reply, BaseInv, TypeOK, Handler
  <2> QED
    BY <1>4, <1>5, <2>3, <2>4, <2>5 DEF Backed
<1>8. CASE UpsertTag(p) \/ DropSession(p)
  <2>1. /\ UNCHANGED <<members, blobs>> /\ req[p].pc \in {"tag", "drop"} /\ Reply(p, "201")
    BY <1>8 DEF UpsertTag, DropSession
  <2>2. Stored(Repo(p), req[p].key, Kind(p))
    BY <1>1, <2>1 DEF Backed
  <2>3. Stored(Repo(p), req[p].key, Kind(p))'
    BY <1>4, <1>5, <2>1, <2>2 DEF Stored
  <2>4. RowsBacked'
    BY <2>1 DEF RowsBacked, IndexInv
  <2>5. req'[p].pc = "done"
    BY <1>1, <2>1 DEF Reply, BaseInv, TypeOK, Handler
  <2> QED
    BY <1>4, <1>5, <2>3, <2>4, <2>5 DEF Backed
<1> QED
  BY <1>6, <1>7, <1>8

\* A pull moves on only with what the indexes vouch for.
LEMMA BackedPull ==
    ASSUME BaseInv, IndexInv, NEW p \in Reqs, ResolveTag(p) \/ CheckMembership(p)
    PROVE  Backed(p)'
<1>1. /\ req[p] \in Handler /\ HandlerOK(p) /\ Backed(p) /\ req[p].pc \in {"resolve", "check"}
      /\ UNCHANGED <<blobs, members, tags>>
  BY DEF BaseInv, TypeOK, HandlersOK, IndexInv, ResolveTag, CheckMembership
<1>2. req[p].status = None /\ None # "201"
  BY <1>1, NoneIsNothing DEF HandlerOK, Status
<1>3. CASE Reply(p, "refused")
  <2>1. req'[p].pc = "done" /\ req'[p].status = "refused"
    BY <1>1, <1>3 DEF Reply, BaseInv, TypeOK, Handler
  <2> QED
    BY <2>1 DEF Backed
<1>4. CASE ResolveTag(p) /\ ~ Reply(p, "refused")
  <2>1. req[p].pc = "resolve" /\ req[p].sent.tag \in Tags /\ Repo(p) \in Repos
    BY <1>1, <1>4 DEF ResolveTag, HandlerOK, Request, Repo
  <2>2. PICK d : d = tags[<<Repo(p), req[p].sent.tag>>]
    OBVIOUS
  <2>3. d # None /\ req' = [req EXCEPT ![p].pc = "check", ![p].key = d]
    BY <1>4, <2>2 DEF ResolveTag
  <2>4. Stored(Repo(p), d, "manifest")
    BY <2>1, <2>2, <2>3 DEF IndexInv, TagsServe, ListTags
  <2>5. /\ req'[p].pc = "check" /\ req'[p].key = d /\ req'[p].sent = req[p].sent
        /\ req'[p].status = None
    BY <1>1, <1>2, <2>3 DEF BaseInv, TypeOK, Handler
  <2>6. Stored(Repo(p), req[p].key, "manifest")'
    BY <1>1, <2>4, <2>5 DEF Stored, Repo
  <2> QED
    BY <1>2, <2>5, <2>6 DEF Backed
<1>5. CASE CheckMembership(p) /\ HasMembership(p) /\ Goto(p, "get")
  <2>1. Stored(Repo(p), req[p].key, Kind(p))
    BY <1>5 DEF HasMembership, Stored, IndexInv, RowsBacked
  <2>2. /\ req'[p].pc = "get" /\ req'[p].key = req[p].key /\ req'[p].sent = req[p].sent
        /\ req'[p].status = None
    BY <1>1, <1>2, <1>5 DEF Goto, BaseInv, TypeOK, Handler
  <2>3. Stored(Repo(p), req[p].key, Kind(p))'
    BY <1>1, <2>1, <2>2 DEF Stored, Repo, Kind, Op
  <2> QED
    BY <1>2, <2>2, <2>3 DEF Backed
<1> QED
  BY <1>3, <1>4, <1>5 DEF CheckMembership

LEMMA TagsServeStep ==
    ASSUME BaseInv, IndexInv, [Next]_vars
    PROVE  TagsServe'
<1> SUFFICES ASSUME NEW r \in Repos, NEW t \in Tags, tags'[<<r, t>>] # None
             PROVE  Stored(r, tags[<<r, t>>], "manifest")'
  BY DEF TagsServe, ListTags
<1>1. CASE tags'[<<r, t>>] = tags[<<r, t>>]
  <2>1. PICK d : d = tags[<<r, t>>]
    OBVIOUS
  <2>2. Stored(r, d, "manifest")
    BY <1>1, <2>1 DEF IndexInv, TagsServe, ListTags
  <2>3. Stored(r, d, "manifest")'
    BY <2>2, StoredStays
  <2> QED
    BY <1>1, <2>1, <2>3 DEF Stored
<1>2. ASSUME NEW p \in Reqs, UpsertTag(p), tags'[<<r, t>>] # tags[<<r, t>>]
      PROVE  Stored(r, tags[<<r, t>>], "manifest")'
  <2>1. PICK d : d = req[p].key
    OBVIOUS
  <2>2. Backed(p) /\ req[p].pc = "tag"
    BY <1>2 DEF IndexInv, UpsertTag
  <2>3. Kind(p) = "manifest"
    BY <2>2 DEF Backed, Kind
  <2>4. tags' = [tags EXCEPT ![<<Repo(p), req[p].sent.tag>>] = d]
    BY <1>2, <2>1 DEF UpsertTag
  <2>5. <<r, t>> = <<Repo(p), req[p].sent.tag>> /\ tags'[<<r, t>>] = d
    BY <1>2, <2>4 DEF BaseInv, TypeOK
  <2>6. Stored(r, d, "manifest")
    BY <2>1, <2>2, <2>3, <2>5 DEF Backed
  <2>7. Stored(r, d, "manifest")'
    BY <2>6, StoredStays
  <2> QED
    BY <2>5, <2>7 DEF Stored
<1>3. ASSUME NEW p \in Reqs, Handle(p), ~ UpsertTag(p)
      PROVE  UNCHANGED tags
  BY <1>3 DEF Handle, Send, Deny, Admit, UploadBegin, UploadPatch, UploadFinalize, WholeBody,
              Verify, PutBlob, RecordMembership, DropSession, CallFails, ResolveTag,
              CheckMembership, GetBlob
<1>4. ASSUME NEW i \in Isolates, Restart(i)
      PROVE  UNCHANGED tags
  BY <1>4 DEF Restart
<1> QED
  BY <1>1, <1>2, <1>3, <1>4 DEF Next, vars

LEMMA RowsBackedQuiet ==
    ASSUME BaseInv, RowsBacked, [Next]_vars, UNCHANGED members
    PROVE  RowsBacked'
<1>1. \A m \in members : m.digest \in Digests
  BY DEF BaseInv, TypeOK, Member
<1> QED
  BY <1>1, StoreGrows DEF RowsBacked

LEMMA IndexStep == BaseInv /\ IndexInv /\ [Next]_vars => IndexInv'
<1> SUFFICES ASSUME BaseInv, IndexInv, [Next]_vars PROVE IndexInv'
  OBVIOUS
<1>1. ASSUME NEW p \in Reqs, Handle(p)
      PROVE  RowsBacked' /\ Backed(p)'
  <2>1. CASE PutBlob(p) \/ RecordMembership(p) \/ UpsertTag(p) \/ DropSession(p)
    BY <2>1, BackedStore
  <2>2. CASE ~ (PutBlob(p) \/ RecordMembership(p) \/ UpsertTag(p) \/ DropSession(p))
    <3>1. Backed(p)'
      BY <1>1, <2>2, BackedQuiet, BackedSend, BackedPull DEF Handle
    <3>2. UNCHANGED members
      BY <1>1, <2>2 DEF Handle, Send, Deny, Admit, UploadBegin, UploadPatch, UploadFinalize,
                        WholeBody, Verify, CallFails, ResolveTag, CheckMembership, GetBlob
    <3>3. RowsBacked'
      BY <3>2, RowsBackedQuiet DEF IndexInv
    <3> QED
      BY <3>1, <3>3
  <2> QED
    BY <2>1, <2>2
<1>2. ASSUME NEW p \in Reqs, Handle(p), NEW q \in Reqs, q # p
      PROVE  Backed(q)'
  BY <1>2, OneHandler, BackedStays DEF IndexInv
<1>3. ASSUME NEW i \in Isolates, Restart(i)
      PROVE  RowsBacked' /\ \A q \in Reqs : Backed(q)'
  <2>1. RowsBacked'
    BY <1>3, RowsBackedQuiet DEF Restart, IndexInv
  <2>2. ASSUME NEW q \in Reqs
        PROVE  Backed(q)'
    <3>1. CASE req'[q] = req[q]
      BY <3>1, BackedStays DEF IndexInv
    <3>2. CASE req'[q].pc = "done" /\ req'[q].status = "failed"
      BY <3>2 DEF Backed
    <3> QED
      BY <1>3, <3>1, <3>2, RestartFacts DEF BaseInv
  <2> QED
    BY <2>1, <2>2
<1>4. CASE UNCHANGED vars
  <2>1. RowsBacked'
    BY <1>4, RowsBackedQuiet DEF vars, IndexInv
  <2>2. \A q \in Reqs : Backed(q)'
    BY <1>4, BackedStays DEF vars, IndexInv
  <2> QED
    BY <2>1, <2>2, TagsServeStep DEF IndexInv
<1> QED
  BY <1>1, <1>2, <1>3, <1>4, TagsServeStep DEF IndexInv, Next

LEMMA IndexInit == Init => IndexInv
<1> SUFFICES ASSUME Init PROVE IndexInv
  OBVIOUS
<1>1. TagsServe /\ RowsBacked
  BY DEF Init, TagsServe, ListTags, RowsBacked
<1>2. \A p \in Reqs : req[p] = Idle
  BY DEF Init
<1>3. \A p \in Reqs : Backed(p)
  BY <1>2, NoneIsNothing DEF Backed, Idle, Status
<1> QED
  BY <1>1, <1>3 DEF IndexInv

\* Every listed tag can be pulled, whatever push failed or died on the way
\* from BlobStore.put to upsertRegistryTag.
THEOREM RegistryTagsServe == Spec => []TagsServe
<1>1. IndexInv => TagsServe
  BY DEF IndexInv
<1> QED
  BY <1>1, BaseInit, BaseStep, IndexInit, IndexStep, PTL DEF Spec

\* A push answered 201 stays stored and recorded.
THEOREM RegistryCreatedIsStored == Spec => []CreatedIsStored
<1>1. IndexInv => CreatedIsStored
  BY DEF IndexInv, CreatedIsStored, Backed
<1> QED
  BY <1>1, BaseInit, BaseStep, IndexInit, IndexStep, PTL DEF Spec

\* A pull past the tag index passes the pull gate, and past the gate it finds
\* the bytes.
THEOREM RegistryPullNeverDangles == Spec => []PullNeverDangles
<1>1. IndexInv => PullNeverDangles
  BY DEF IndexInv, PullNeverDangles, Backed
<1> QED
  BY <1>1, BaseInit, BaseStep, IndexInit, IndexStep, PTL DEF Spec

\* The indexes never run ahead of the bytes: what a tag, a 201 or a pull that
\* is under way relies on is there.
THEOREM RegistryIndexServes == Spec => []IndexServes
<1>1. TagsServe /\ CreatedIsStored /\ PullNeverDangles => IndexServes
  BY DEF IndexServes
<1> QED
  BY <1>1, RegistryTagsServe, RegistryCreatedIsStored, RegistryPullNeverDangles, PTL

\* Every blob hashes to the digest it is stored under.
THEOREM RegistryContentAddressed == Spec => []ContentAddressed
<1>1. Init => ContentAddressed
  BY DEF Init, ContentAddressed
<1>2. ASSUME BaseInv, ContentAddressed, [Next]_vars
      PROVE  ContentAddressed'
  <2>1. ASSUME NEW p \in Reqs, PutBlob(p)
        PROVE  ContentAddressed'
    BY <1>2, <2>1 DEF PutBlob, ContentAddressed, BaseInv, TypeOK, Matches
  <2>2. ASSUME NEW p \in Reqs, Handle(p), ~ PutBlob(p)
        PROVE  UNCHANGED blobs
    BY <2>2 DEF Handle, Send, Deny, Admit, UploadBegin, UploadPatch, UploadFinalize, WholeBody,
                Verify, RecordMembership, UpsertTag, DropSession, CallFails, ResolveTag,
                CheckMembership, GetBlob
  <2>3. ASSUME UNCHANGED blobs
        PROVE  ContentAddressed'
    BY <1>2, <2>3 DEF ContentAddressed, Matches
  <2> QED
    BY <1>2, <2>1, <2>2, <2>3 DEF Next, vars, Restart
<1> QED
  BY <1>1, <1>2, BaseInit, BaseStep, PTL DEF Spec

-----------------------------------------------------------------------------
(***************************************************************************)
(* What a repository serves, it was sent.                                  *)
(***************************************************************************)

Fed == \A u \in Issued : sessions[u].from = {sessions[u].name}

\* The content in a handler's hands came to the handler's repository.
Own(p) ==
    /\ req[p].pc = "body" /\ Op(p) \in {"patch", "finalize"} => sessions[req[p].u].name = Repo(p)
    /\ req[p].pc \in Loaded => req[p].from = {Repo(p)}
    /\ req[p].pc = "member" => blobs[req[p].key] = req[p].bytes
    /\ req[p].status = "200" =>
           /\ [repo |-> Repo(p), digest |-> req[p].key, kind |-> Kind(p)] \in members
           /\ blobs[req[p].key] = req[p].bytes

BlobsMatch == \A d \in Digests : blobs[d] # None => blobs[d] \in Contents /\ Matches(blobs[d], d)

\* The push q delivered what the row m stands for.
Delivered(q, m) ==
    /\ req[q].pc \in {"tag", "drop", "done"} /\ Op(q) \in Pushes
    /\ Repo(q) = m.repo /\ req[q].key = m.digest
    /\ req[q].bytes = blobs[m.digest] /\ req[q].from = {m.repo}

RowsDelivered == \A m \in members : \E q \in Reqs : Delivered(q, m)

\* The strengthening of ServedWasPushedHere.
OwnInv == Fed /\ (\A p \in Reqs : Own(p)) /\ BlobsMatch /\ RowsDelivered

AllInv == BaseInv /\ IndexInv /\ OwnInv

\* One digest, one content.
LEMMA SameContent ==
    ASSUME NEW c \in Contents, NEW d \in Contents, NEW k, Matches(c, k), Matches(d, k)
    PROVE  c = d
BY RegistryAssumption DEF Matches

\* A session keeps its repository for as long as anyone holds it.
LEMMA NameStays ==
    ASSUME BaseInv, [Next]_vars, NEW u \in Uuids, sessions[u] # None
    PROVE  sessions'[u] # None /\ sessions'[u].name = sessions[u].name
<1>1. ASSUME NEW p \in Reqs, req[p].pc = "body", Op(p) \in {"patch", "finalize"}, AppendChunk(p)
      PROVE  sessions'[u] # None /\ sessions'[u].name = sessions[u].name
  <2>1. \A v \in Uuids : sessions[v] # None => sessions'[v] # None
    BY <1>1, AppendFacts
  <2>2. sessions[u] \in Session
    BY DEF BaseInv, TypeOK
  <2>3. CASE u = req[p].u
    <3>1. sessions'[u] = [sessions[u] EXCEPT !.bytes = @ \o Body(p), !.size = @ + Len(Body(p)),
                                             !.from = @ \cup {Repo(p)}]
      BY <1>1, <2>3 DEF AppendChunk, BaseInv, TypeOK
    <3> QED
      BY <2>1, <2>2, <3>1 DEF Session
  <2>4. CASE u # req[p].u
    BY <1>1, <2>4 DEF AppendChunk, BaseInv, TypeOK
  <2> QED
    BY <2>3, <2>4
<1>2. ASSUME NEW p \in Reqs, UploadBegin(p)
      PROVE  sessions'[u] = sessions[u]
  BY <1>2 DEF UploadBegin, TooLarge, Issued, BaseInv, TypeOK
<1>3. ASSUME NEW p \in Reqs, UploadPatch(p) \/ UploadFinalize(p)
      PROVE  \/ UNCHANGED sessions
             \/ req[p].pc = "body" /\ Op(p) \in {"patch", "finalize"} /\ AppendChunk(p)
  BY <1>3 DEF UploadPatch, UploadFinalize, TooLarge
<1>4. ASSUME NEW p \in Reqs, Handle(p), ~ UploadBegin(p), ~ UploadPatch(p), ~ UploadFinalize(p)
      PROVE  UNCHANGED sessions
  BY <1>4 DEF Handle, Send, Deny, Admit, WholeBody, Verify, PutBlob, RecordMembership, UpsertTag,
              DropSession, CallFails, ResolveTag, CheckMembership, GetBlob
<1> QED
  BY <1>1, <1>2, <1>3, <1>4 DEF Next, vars, Restart

\* Only requests for a session's own repository feed it.
LEMMA FedStep ==
    ASSUME BaseInv, OwnInv, [Next]_vars
    PROVE  Fed'
<1>1. ASSUME NEW p \in Reqs, req[p].pc = "body", Op(p) \in {"patch", "finalize"}, AppendChunk(p)
      PROVE  Fed'
  <2> DEFINE u == req[p].u
  <2>1. /\ u \in Uuids /\ sessions[u] # None /\ sessions[u] \in Session
        /\ \A v \in Uuids \ {u} : sessions'[v] = sessions[v]
    <3>1. HandlerOK(p) /\ req[p] \in Handler
      BY DEF BaseInv, TypeOK, HandlersOK
    <3>2. u \in Uuids /\ sessions[u] # None
      BY <1>1, <3>1 DEF HandlerOK, Handler
    <3> QED
      BY <1>1, <3>2 DEF BaseInv, TypeOK, AppendChunk
  <2>2. sessions'[u] = [sessions[u] EXCEPT !.bytes = @ \o Body(p), !.size = @ + Len(Body(p)),
                                           !.from = @ \cup {Repo(p)}]
    BY <1>1, <2>1 DEF AppendChunk, BaseInv, TypeOK
  <2>3. sessions[u].name = Repo(p) /\ sessions[u].from = {sessions[u].name}
    BY <1>1, <2>1 DEF OwnInv, Own, Fed, Issued
  <2>4. sessions'[u].from = {Repo(p)} /\ sessions'[u].name = sessions[u].name
    BY <2>1, <2>2, <2>3 DEF Session
  <2> QED
    BY <2>1, <2>3, <2>4 DEF OwnInv, Fed, Issued
<1>2. ASSUME NEW p \in Reqs, UploadBegin(p)
      PROVE  Fed'
  <2>1. CASE UNCHANGED sessions
    BY <2>1 DEF OwnInv, Fed, Issued
  <2>2. CASE \E v \in Uuids \ Issued :
                sessions' = [sessions EXCEPT ![v] =
                    [name |-> Repo(p), bytes |-> Body(p), size |-> Len(Body(p)),
                     from |-> {Repo(p)}]]
    BY <2>2 DEF OwnInv, Fed, Issued, BaseInv, TypeOK
  <2> QED
    BY <1>2, <2>1, <2>2 DEF UploadBegin, TooLarge
<1>3. ASSUME NEW p \in Reqs, UploadPatch(p) \/ UploadFinalize(p)
      PROVE  \/ UNCHANGED sessions
             \/ req[p].pc = "body" /\ Op(p) \in {"patch", "finalize"} /\ AppendChunk(p)
  BY <1>3 DEF UploadPatch, UploadFinalize, TooLarge
<1>4. ASSUME NEW p \in Reqs, Handle(p), ~ UploadBegin(p), ~ UploadPatch(p), ~ UploadFinalize(p)
      PROVE  UNCHANGED sessions
  BY <1>4 DEF Handle, Send, Deny, Admit, WholeBody, Verify, PutBlob, RecordMembership, UpsertTag,
              DropSession, CallFails, ResolveTag, CheckMembership, GetBlob
<1>5. ASSUME UNCHANGED sessions
      PROVE  Fed'
  BY <1>5 DEF OwnInv, Fed, Issued
<1> QED
  BY <1>1, <1>2, <1>3, <1>4, <1>5 DEF Next, vars, Restart

LEMMA BlobsMatchStep ==
    ASSUME BaseInv, OwnInv, [Next]_vars
    PROVE  BlobsMatch'
<1>1. ASSUME NEW p \in Reqs, PutBlob(p)
      PROVE  BlobsMatch'
  <2>1. req[p].bytes \in Contents /\ req[p].key \in Digests /\ Matches(req[p].bytes, req[p].key)
    BY <1>1 DEF PutBlob, BaseInv, HandlersOK, HandlerOK, Loaded, Keyed
  <2>2. \A d \in Digests : blobs'[d] = blobs[d] \/ (d = req[p].key /\ blobs'[d] = req[p].bytes)
    BY <1>1 DEF PutBlob, BaseInv, TypeOK
  <2> QED
    BY <2>1, <2>2 DEF OwnInv, BlobsMatch, Matches
<1>2. ASSUME NEW p \in Reqs, Handle(p), ~ PutBlob(p)
      PROVE  UNCHANGED blobs
  BY <1>2 DEF Handle, Send, Deny, Admit, UploadBegin, UploadPatch, UploadFinalize, WholeBody,
              Verify, RecordMembership, UpsertTag, DropSession, CallFails, ResolveTag,
              CheckMembership, GetBlob
<1>3. ASSUME UNCHANGED blobs
      PROVE  BlobsMatch'
  BY <1>3 DEF OwnInv, BlobsMatch, Matches
<1> QED
  BY <1>1, <1>2, <1>3 DEF Next, vars, Restart

LEMMA OwnStays ==
    ASSUME AllInv, [Next]_vars, NEW q \in Reqs, req'[q] = req[q]
    PROVE  Own(q)'
<1>1. Own(q) /\ HandlerOK(q) /\ req[q] \in Handler
  BY DEF AllInv, OwnInv, BaseInv, HandlersOK, TypeOK
<1>2. Op(q)' = Op(q) /\ Repo(q)' = Repo(q) /\ Kind(q)' = Kind(q)
  BY DEF Op, Repo, Kind
<1>3. req[q].pc = "body" /\ Op(q) \in {"patch", "finalize"} => sessions'[req[q].u].name = Repo(q)
  <2> SUFFICES ASSUME req[q].pc = "body", Op(q) \in {"patch", "finalize"}
               PROVE  sessions'[req[q].u].name = Repo(q)
    OBVIOUS
  <2>1. req[q].u \in Uuids /\ sessions[req[q].u] # None
    BY <1>1 DEF HandlerOK, Handler
  <2> QED
    BY <1>1, <2>1, NameStays DEF Own, AllInv
<1>4. req[q].pc = "member" => blobs'[req[q].key] = req[q].bytes
  <2> SUFFICES ASSUME req[q].pc = "member" PROVE blobs'[req[q].key] = req[q].bytes
    OBVIOUS
  <2>1. req[q].key \in Digests /\ req[q].bytes # None /\ blobs[req[q].key] = req[q].bytes
    BY <1>1, NoneIsNothing DEF HandlerOK, Keyed, Loaded, Own
  <2> QED
    BY <2>1, StoreGrows DEF AllInv
<1>5. req[q].status = "200" =>
          /\ [repo |-> Repo(q), digest |-> req[q].key, kind |-> Kind(q)] \in members'
          /\ blobs'[req[q].key] = req[q].bytes
  <2> SUFFICES ASSUME req[q].status = "200"
               PROVE  /\ [repo |-> Repo(q), digest |-> req[q].key, kind |-> Kind(q)] \in members'
                      /\ blobs'[req[q].key] = req[q].bytes
    OBVIOUS
  <2>1. PICK m : m = [repo |-> Repo(q), digest |-> req[q].key, kind |-> Kind(q)]
    OBVIOUS
  <2>2. m \in members /\ m.digest = req[q].key /\ blobs[req[q].key] = req[q].bytes
    BY <1>1, <2>1 DEF Own
  <2>3. m.digest \in Digests /\ blobs[m.digest] # None
    BY <2>2 DEF AllInv, BaseInv, TypeOK, Member, IndexInv, RowsBacked
  <2> QED
    BY <2>1, <2>2, <2>3, StoreGrows DEF AllInv
<1> QED
  BY <1>1, <1>2, <1>3, <1>4, <1>5 DEF Own

\* Answers other than a served pull, and moves, carry nothing new.
LEMMA OwnAnswer ==
    ASSUME BaseInv, NEW p \in Reqs, NEW status \in Status \ {"200"}, Reply(p, status)
    PROVE  Own(p)'
<1>1. req'[p].pc = "done" /\ req'[p].status = status
  BY DEF Reply, BaseInv, TypeOK, Handler
<1> QED
  BY <1>1 DEF Own, Loaded

LEMMA OwnSend ==
    ASSUME BaseInv, NEW p \in Reqs, Send(p)
    PROVE  Own(p)'
<1>1. req'[p].pc \in {"resolve", "check", "gate"} /\ req'[p].status = None
  BY DEF Send, BaseInv, TypeOK
<1> QED
  BY <1>1, NoneIsNothing DEF Own, Loaded, Status

\* A handler gets past the gate only with a session of its repository.
LEMMA OwnAdmit ==
    ASSUME BaseInv, NEW p \in Reqs, Deny(p) \/ CallFails(p) \/ Admit(p)
    PROVE  Own(p)'
<1>1. CASE Admit(p) /\ Goto(p, "body")
  <2>1. req[p] \in Handler /\ HandlerOK(p) /\ req[p].pc = "gate" /\ UNCHANGED sessions
    BY <1>1 DEF BaseInv, TypeOK, HandlersOK, Admit
  <2>2. /\ req'[p].pc = "body" /\ req'[p].sent = req[p].sent /\ req'[p].u = req[p].u
        /\ req'[p].status = None
    BY <1>1, <2>1 DEF Goto, BaseInv, TypeOK, Handler, HandlerOK
  <2>3. Op(p) \in {"patch", "finalize"} => sessions[req[p].u].name = Repo(p)
    <3>1. ~ Reply(p, "refused")
      <4>1. Reply(p, "refused") => req'[p].pc = "done"
        BY <2>1 DEF Reply, BaseInv, TypeOK, Handler
      <4> QED
        BY <2>2, <4>1
    <3> QED
      BY <1>1, <3>1 DEF Admit, FindSession
  <2> QED
    BY <2>1, <2>2, <2>3, NoneIsNothing DEF Own, Loaded, Op, Repo, Status
<1>2. CASE Reply(p, "refused") \/ Reply(p, "failed")
  BY <1>2, OwnAnswer DEF Status
<1> QED
  BY <1>1, <1>2 DEF Deny, CallFails, Admit

LEMMA OwnBody ==
    ASSUME AllInv, NEW p \in Reqs, [Next]_vars,
           UploadBegin(p) \/ UploadPatch(p) \/ UploadFinalize(p) \/ WholeBody(p) \/ Verify(p)
    PROVE  Own(p)'
<1>1. /\ req[p] \in Handler /\ HandlerOK(p) /\ Own(p) /\ BaseInv
      /\ req[p].pc \in {"body", "verify"}
  BY DEF AllInv, OwnInv, BaseInv, TypeOK, HandlersOK, UploadBegin, UploadPatch, UploadFinalize,
         WholeBody, Verify
<1>2. req[p].status = None /\ None # "200"
  BY <1>1, NoneIsNothing DEF HandlerOK, Status
<1>3. CASE \E status \in Status \ {"200"} : Reply(p, status)
  BY <1>1, <1>3, OwnAnswer
<1>4. CASE /\ UploadFinalize(p) /\ AppendChunk(p)
           /\ req' = [req EXCEPT ![p].pc = "verify",
                                 ![p].bytes = sessions'[req[p].u].bytes,
                                 ![p].from = sessions'[req[p].u].from]
  <2>1. req[p].pc = "body" /\ Op(p) = "finalize"
    BY <1>4 DEF UploadFinalize
  <2>2. req[p].u \in Uuids /\ sessions[req[p].u] # None
    BY <1>1, <2>1 DEF HandlerOK, Handler
  <2>3. /\ sessions'[req[p].u] # None
        /\ sessions'[req[p].u].name = Repo(p)
    BY <1>1, <2>1, <2>2, NameStays DEF Own
  <2>4. sessions'[req[p].u].from = {Repo(p)}
    BY <2>2, <2>3, FedStep DEF AllInv, Fed, Issued
  <2>5. /\ req'[p].pc = "verify" /\ req'[p].from = {Repo(p)} /\ req'[p].sent = req[p].sent
        /\ req'[p].status = None
    BY <1>1, <1>2, <1>4, <2>4 DEF BaseInv, TypeOK, Handler
  <2> QED
    BY <1>2, <2>5 DEF Own, Loaded, Repo
<1>5. CASE /\ WholeBody(p)
           /\ req' = [req EXCEPT ![p].pc = "verify", ![p].bytes = Body(p), ![p].from = {Repo(p)}]
  <2>1. /\ req'[p].pc = "verify" /\ req'[p].from = {Repo(p)} /\ req'[p].sent = req[p].sent
        /\ req'[p].status = None
    BY <1>1, <1>2, <1>5 DEF BaseInv, TypeOK, Handler
  <2> QED
    BY <1>2, <2>1 DEF Own, Loaded, Repo
<1>6. CASE /\ Verify(p)
           /\ req' = [req EXCEPT ![p].pc = "put", ![p].key = StorageKey(p)]
  <2>1. req[p].from = {Repo(p)}
    BY <1>1, <1>6 DEF Verify, Own, Loaded
  <2>2. /\ req'[p].pc = "put" /\ req'[p].from = {Repo(p)} /\ req'[p].sent = req[p].sent
        /\ req'[p].status = None
    BY <1>1, <1>2, <1>6, <2>1 DEF BaseInv, TypeOK, Handler
  <2> QED
    BY <1>2, <2>2 DEF Own, Loaded, Repo
<1> QED
  BY <1>3, <1>4, <1>5, <1>6 DEF UploadBegin, UploadPatch, UploadFinalize, WholeBody, Verify,
                                TooLarge, Status

\* After BlobStore.put the store holds these very bytes, also when it had the
\* digest before.
LEMMA OwnStore ==
    ASSUME AllInv, NEW p \in Reqs,
           PutBlob(p) \/ RecordMembership(p) \/ UpsertTag(p) \/ DropSession(p)
    PROVE  Own(p)'
<1>1. /\ req[p] \in Handler /\ HandlerOK(p) /\ Own(p) /\ BaseInv /\ req[p].pc \in Keyed
  BY DEF AllInv, OwnInv, BaseInv, TypeOK, HandlersOK, Keyed, PutBlob, RecordMembership,
         UpsertTag, DropSession
<1>2. req[p].status = None /\ None # "200" /\ req[p].from = {Repo(p)}
  BY <1>1, NoneIsNothing DEF HandlerOK, Status, Own, Keyed, Loaded
<1>3. CASE Reply(p, "201")
  BY <1>1, <1>3, OwnAnswer DEF Status
<1>4. ASSUME NEW pc \in {"tag", "drop"}, Goto(p, pc)
      PROVE  Own(p)'
  <2>1. /\ req'[p].pc = pc /\ req'[p].from = req[p].from /\ req'[p].sent = req[p].sent
        /\ req'[p].status = None
    BY <1>1, <1>2, <1>4 DEF Goto, BaseInv, TypeOK, Handler
  <2> QED
    BY <1>2, <2>1 DEF Own, Loaded, Repo
<1>5. CASE PutBlob(p)
  <2>1. req[p].bytes \in Contents /\ req[p].key \in Digests /\ Matches(req[p].bytes, req[p].key)
    BY <1>1, <1>5 DEF PutBlob, HandlerOK, Loaded, Keyed
  <2>2. blobs[req[p].key] # None => blobs[req[p].key] = req[p].bytes
    BY <2>1, SameContent DEF AllInv, OwnInv, BlobsMatch
  <2>3. blobs'[req[p].key] = req[p].bytes
    BY <1>5, <2>1, <2>2 DEF PutBlob, AllInv, BaseInv, TypeOK
  <2>4. /\ req'[p].pc = "member" /\ req'[p].from = req[p].from /\ req'[p].sent = req[p].sent
        /\ req'[p].status = None /\ req'[p].key = req[p].key /\ req'[p].bytes = req[p].bytes
    BY <1>1, <1>2, <1>5 DEF PutBlob, Goto, BaseInv, TypeOK, Handler
  <2> QED
    BY <1>2, <2>3, <2>4 DEF Own, Loaded, Repo
<1> QED
  BY <1>3, <1>4, <1>5 DEF PutBlob, RecordMembership, UpsertTag, DropSession

LEMMA OwnPull ==
    ASSUME AllInv, NEW p \in Reqs, ResolveTag(p) \/ CheckMembership(p) \/ GetBlob(p)
    PROVE  Own(p)'
<1>1. /\ req[p] \in Handler /\ HandlerOK(p) /\ BaseInv /\ Backed(p)
      /\ req[p].pc \in {"resolve", "check", "get"} /\ UNCHANGED <<members, blobs>>
  BY DEF AllInv, IndexInv, BaseInv, TypeOK, HandlersOK, ResolveTag, CheckMembership, GetBlob
<1>2. req[p].status = None /\ None # "200"
  BY <1>1, NoneIsNothing DEF HandlerOK, Status
<1>3. CASE Reply(p, "refused")
  BY <1>1, <1>3, OwnAnswer DEF Status
<1>4. CASE (ResolveTag(p) /\ ~ Reply(p, "refused")) \/ Goto(p, "get")
  <2>1. req'[p].pc \in {"check", "get"} /\ req'[p].status = None
    BY <1>1, <1>2, <1>4 DEF ResolveTag, Goto, BaseInv, TypeOK, Handler
  <2> QED
    BY <1>2, <2>1 DEF Own, Loaded
<1>5. CASE GetBlob(p)
  <2>1. req[p].pc = "get" /\ Stored(Repo(p), req[p].key, Kind(p))
    BY <1>1, <1>5 DEF GetBlob, Backed
  <2>2. /\ req'[p].pc = "done" /\ req'[p].sent = req[p].sent /\ req'[p].key = req[p].key
        /\ req'[p].bytes = blobs[req[p].key]
    BY <1>1, <1>5 DEF GetBlob, BaseInv, TypeOK, Handler
  <2> QED
    BY <1>1, <2>1, <2>2 DEF Own, Loaded, Stored, Repo, Kind, Op
<1> QED
  BY <1>3, <1>4, <1>5 DEF CheckMembership

\* A delivered push keeps what it delivered, also when its isolate dies.
LEMMA DeliveredStays ==
    ASSUME AllInv, [Next]_vars, NEW q \in Reqs, NEW m \in members, Delivered(q, m)
    PROVE  Delivered(q, m)'
<1>1. BaseInv /\ req[q] \in Handler
  BY DEF AllInv, BaseInv, TypeOK
<1>2. blobs'[m.digest] = blobs[m.digest]
  <2>1. m.digest \in Digests /\ blobs[m.digest] # None
    BY DEF AllInv, BaseInv, TypeOK, Member, IndexInv, RowsBacked
  <2> QED
    BY <1>1, <2>1, StoreGrows
<1>3. ASSUME Handle(q)
      PROVE  \E status \in Status : Reply(q, status)
  BY <1>3 DEF Delivered, Status, Handle, Send, Deny, Admit, UploadBegin, UploadPatch,
              UploadFinalize, WholeBody, Verify, PutBlob, RecordMembership, UpsertTag,
              DropSession, CallFails, ResolveTag, CheckMembership, GetBlob
<1>4. /\ req'[q].pc = req[q].pc \/ req'[q].pc = "done"
      /\ req'[q].sent = req[q].sent /\ req'[q].key = req[q].key
      /\ req'[q].bytes = req[q].bytes /\ req'[q].from = req[q].from
  <2>1. CASE Handle(q)
    BY <1>1, <1>3, <2>1 DEF Reply, BaseInv, TypeOK, Handler
  <2>2. CASE \E p \in Reqs : p # q /\ Handle(p)
    BY <1>1, <2>2, OneHandler
  <2>3. CASE \E i \in Isolates : Restart(i)
    BY <1>1, <2>3, RestartFacts DEF BaseInv
  <2>4. CASE UNCHANGED vars
    BY <2>4 DEF vars
  <2> QED
    BY <2>1, <2>2, <2>3, <2>4 DEF Next
<1> QED
  BY <1>2, <1>4 DEF Delivered, Op, Repo

\* The push that writes a row is the one that delivered what the row names.
LEMMA RowsDeliveredStep ==
    ASSUME AllInv, [Next]_vars
    PROVE  RowsDelivered'
<1>1. ASSUME NEW m \in members
      PROVE  \E q \in Reqs : Delivered(q, m)'
  <2>1. PICK q \in Reqs : Delivered(q, m)
    BY DEF AllInv, OwnInv, RowsDelivered
  <2> QED
    BY <2>1, DeliveredStays
<1>2. ASSUME NEW p \in Reqs, RecordMembership(p), NEW m \in members', m \notin members
      PROVE  Delivered(p, m)'
  <2>1. /\ m = [repo |-> Repo(p), digest |-> req[p].key, kind |-> Kind(p)]
        /\ req[p].pc = "member" /\ UNCHANGED blobs
    BY <1>2 DEF RecordMembership
  <2>2. req[p] \in Handler /\ HandlerOK(p) /\ Own(p) /\ BaseInv
    BY DEF AllInv, OwnInv, BaseInv, TypeOK, HandlersOK
  <2>3. /\ Op(p) \in Pushes /\ req[p].from = {Repo(p)} /\ blobs[req[p].key] = req[p].bytes
    BY <2>1, <2>2 DEF HandlerOK, Own, Loaded
  <2>4. /\ req'[p].pc \in {"tag", "drop", "done"}
        /\ req'[p].sent = req[p].sent /\ req'[p].key = req[p].key
        /\ req'[p].bytes = req[p].bytes /\ req'[p].from = req[p].from
    BY <1>2, <2>2 DEF RecordMembership, Goto, Reply, BaseInv, TypeOK, Handler
  <2>5. m.repo = Repo(p) /\ m.digest = req[p].key
    BY <2>1
  <2> QED
    BY <2>1, <2>3, <2>4, <2>5 DEF Delivered, Op, Repo
<1>3. ASSUME NEW p \in Reqs, Handle(p), ~ RecordMembership(p)
      PROVE  UNCHANGED members
  BY <1>3 DEF Handle, Send, Deny, Admit, UploadBegin, UploadPatch, UploadFinalize, WholeBody,
              Verify, PutBlob, UpsertTag, DropSession, CallFails, ResolveTag, CheckMembership,
              GetBlob
<1>4. UNCHANGED members \/ \E p \in Reqs : RecordMembership(p)
  BY <1>3 DEF Next, vars, Restart
<1>5. \A m \in members' : \E q \in Reqs : Delivered(q, m)'
  BY <1>1, <1>2, <1>4
<1> QED
  BY <1>5 DEF RowsDelivered

LEMMA OwnStep == AllInv /\ [Next]_vars => OwnInv'
<1> SUFFICES ASSUME AllInv, [Next]_vars PROVE OwnInv'
  OBVIOUS
<1>1. Fed' /\ BlobsMatch' /\ RowsDelivered'
  BY FedStep, BlobsMatchStep, RowsDeliveredStep DEF AllInv
<1>2. ASSUME NEW q \in Reqs
      PROVE  Own(q)'
  <2>1. CASE req'[q] = req[q]
    BY <2>1, OwnStays
  <2>2. CASE Handle(q)
    BY <2>2, OwnSend, OwnAdmit, OwnBody, OwnStore, OwnPull DEF Handle, AllInv
  <2>3. ASSUME NEW i \in Isolates, Restart(i), req'[q] # req[q]
        PROVE  Own(q)'
    <3>1. req'[q].pc = "done" /\ req'[q].status = "failed"
      BY <2>3, RestartFacts DEF AllInv, BaseInv
    <3> QED
      BY <3>1 DEF Own, Loaded
  <2>4. ASSUME NEW p \in Reqs, Handle(p), p # q
        PROVE  req'[q] = req[q]
    BY <2>4, OneHandler DEF AllInv
  <2> QED
    BY <2>1, <2>2, <2>3, <2>4 DEF Next, vars
<1> QED
  BY <1>1, <1>2 DEF OwnInv

LEMMA OwnInit == Init => OwnInv
<1> SUFFICES ASSUME Init PROVE OwnInv
  OBVIOUS
<1>1. \A p \in Reqs : req[p] = Idle
  BY DEF Init
<1>2. \A p \in Reqs : Own(p)
  BY <1>1, NoneIsNothing DEF Own, Idle, Loaded, Status
<1>3. Fed /\ BlobsMatch /\ RowsDelivered
  BY DEF Init, Fed, Issued, BlobsMatch, RowsDelivered
<1> QED
  BY <1>2, <1>3 DEF OwnInv

\* What a pull serves was delivered, whole, by requests for the repository it
\* is served from, although every repository shares one BlobStore.
THEOREM RegistryServedWasPushedHere == Spec => []ServedWasPushedHere
<1>1. ASSUME AllInv
      PROVE  ServedWasPushedHere
  <2> SUFFICES ASSUME NEW p \in Reqs, req[p].status = "200"
               PROVE  \E q \in Reqs :
                          /\ req[q].key = req[p].key /\ req[q].bytes = req[p].bytes
                          /\ Repo(q) = Repo(p) /\ req[q].from = {Repo(p)}
    BY DEF ServedWasPushedHere
  <2>1. PICK m : m = [repo |-> Repo(p), digest |-> req[p].key, kind |-> Kind(p)]
    OBVIOUS
  <2>2. m \in members /\ blobs[req[p].key] = req[p].bytes
    BY <1>1, <2>1 DEF AllInv, OwnInv, Own
  <2>3. PICK q \in Reqs : Delivered(q, m)
    BY <1>1, <2>2 DEF AllInv, OwnInv, RowsDelivered
  <2> QED
    BY <2>1, <2>2, <2>3 DEF Delivered
<1>2. AllInv /\ [Next]_vars => AllInv'
  BY BaseStep, IndexStep, OwnStep DEF AllInv
<1>3. Init => AllInv
  BY BaseInit, IndexInit, OwnInit DEF AllInv
<1> QED
  BY <1>1, <1>2, <1>3, PTL DEF Spec
=============================================================================
