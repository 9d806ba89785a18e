---------------------------- MODULE EgressProofs ----------------------------
(***************************************************************************)
(* What an agent's way out rests on.  The proxy accounts for every call    *)
(* and meters every caller: for any number of calls, addresses, peers and  *)
(* services, any manifest, every deployment, and any limits.  And the      *)
(* launcher, which puts an agent behind the proxy, confines it as its      *)
(* certificate says and leaves nothing behind: for any number of launches  *)
(* in one checkout, any targets, requests and companions.  The documents   *)
(* it is confined by meet in one document, whatever their order: for any   *)
(* documents and any number of points that enforce them.                   *)
(***************************************************************************)
EXTENDS VaultProxy, Harness, Confinement, FiniteSetTheorems, FunctionTheorems, SequenceTheorems,
        WellFoundedInduction, TLAPS

-----------------------------------------------------------------------------
(***************************************************************************)
(* Constants and arithmetic                                                *)
(***************************************************************************)

\* The facts about the constants, one by one.
LEMMA Constants ==
  /\ Capacity \in Nat \ {0} /\ Refill \in Nat \ {0} /\ Cost \in Nat \ {0}
  /\ MaxKeys \in Nat \ {0} /\ EvictFraction \in Nat \ {0} /\ RateWindow \in Nat \ {0}
  /\ MaxNow \in Nat \ {0}
  /\ MaxKeys >= EvictFraction /\ Cost <= Capacity
  /\ Malformed \in Names /\ DOMAIN Manifest \subseteq Names /\ Malformed \notin DOMAIN Manifest
  /\ \A d \in Deployments : d.dev \in BOOLEAN /\ d.store \in {"none", "vault", "explicit"}
  /\ \A n \in DOMAIN Manifest : Manifest[n].limit \in Int
  /\ Statuses \subseteq Nat
  BY VaultProxyAssumption

\* A product over a difference.
LEMMA Distribute == \A r, x, y \in Int : r * (x - y) = r * x - r * y /\ r * x \in Int
  OBVIOUS

\* A product grows with its factor.
LEMMA Monotone == \A r \in Nat : \A x, y \in Int : x <= y => r * x <= r * y
<1> SUFFICES ASSUME NEW r \in Nat, NEW x \in Int, NEW y \in Int, x <= y PROVE r * x <= r * y
  OBVIOUS
<1>1. y - x \in Nat /\ r * (y - x) >= 0
  OBVIOUS
<1> QED
  BY <1>1, Distribute

\* A quotient is what is left when it is multiplied out.
LEMMA Quotient ==
  ASSUME NEW a \in Int, NEW b \in Nat \ {0}
  PROVE  /\ a \div b \in Int
         /\ b * (a \div b) <= a
         /\ a < b * (a \div b) + b
  OBVIOUS

\* The quotient of a number by one that is not greater is not zero.
LEMMA QuotientPositive ==
  ASSUME NEW a \in Nat, NEW b \in Nat \ {0}, b <= a
  PROVE  a \div b \in Nat \ {0} /\ a \div b <= a
<1>1. a \div b \in Int /\ b * (a \div b) <= a /\ a < b * (a \div b) + b
  BY Quotient
<1>2. ASSUME a \div b <= 0 PROVE FALSE
  <2>1. b * (a \div b) <= b * 0
    BY <1>1, <1>2, Monotone
  <2> QED
    BY <2>1, <1>1
<1>3. 1 * (a \div b) <= b * (a \div b)
  <2>1. (a \div b) * 1 <= (a \div b) * b
    BY <1>1, <1>2, Monotone
  <2> QED
    BY <2>1, <1>1
<1> QED
  BY <1>1, <1>2, <1>3

\* Rounding up never falls short.
LEMMA CeilCovers ==
  ASSUME NEW a \in Int, NEW b \in Nat \ {0}
  PROVE  Ceil(a, b) \in Int /\ a <= b * Ceil(a, b)
<1>1. a + b - 1 \in Int
  OBVIOUS
<1>2. a + b - 1 < b * ((a + b - 1) \div b) + b /\ (a + b - 1) \div b \in Int
  BY <1>1, Quotient
<1> QED
  BY <1>2 DEF Ceil

-----------------------------------------------------------------------------
(***************************************************************************)
(* Where a call may be.  A call that is past the manifest's gate is of a   *)
(* verified peer; it names a declared service whose list has the peer,     *)
(* unless the path was malformed, and only a store that gives credentials  *)
(* away ever looks one up for it.                                          *)
(***************************************************************************)
Admitted == {"resolve"} \cup Outside

CallInv ==
  \A c \in Calls :
    /\ calls[c].pc \in Admitted => calls[c].peer \in Peers
    /\ calls[c].pc \in Admitted /\ calls[c].name # Malformed =>
          Declared(calls[c].name) /\ calls[c].peer \in AllowedSubs(calls[c].name)
    /\ calls[c].pc \in Outside => Declared(calls[c].name)
    /\ calls[c].pc \in {"resolve", "upstream"} /\ Declared(calls[c].name) => env.store = "explicit"

RecordInv == CallInv /\ OneReceiptPerCall /\ RecordedWasAllowed /\ DenialsAlike

CallTypes ==
  /\ env \in Deployments
  /\ calls \in [Calls -> Call]
  /\ receipts \in [Calls -> Seq([peer : Peers, service : Names, status : Nat])]

USE DEF Admitted, Outside

\* An answer made on the route has no server and a body of its own kind.
LEMMA Refusals ==
  ASSUME NEW status \in Nat, NEW body \in {"constant", "limited", "shapeU"}
  PROVE  /\ Refusal(status, body) \in Answer
         /\ Refusal(status, body).status = status
         /\ Refusal(status, body).server = "none"
         /\ Refusal(status, body).body = body
  BY DEF Refusal, Answer, Bodies

\* A collapsed answer keeps its status, tells that it came from outside, and
\* says nothing of its own when it denies.
LEMMA Collapsed ==
  ASSUME NEW status \in Nat, NEW server \in {"none", "upstream"}
  PROVE  /\ CollapseWireShape(status, server) \in Answer
         /\ CollapseWireShape(status, server).status = status
         /\ \/ CollapseWireShape(status, server).server # "none"
            \/ CollapseWireShape(status, server).body = "own"
         /\ status \in {401, 403, 404, 429} => CollapseWireShape(status, server).body = "constant"
<1> DEFINE own == [status |-> status, body |-> "own", server |-> "proxy"]
           constant == [status |-> status, body |-> "constant", server |-> "proxy"]
           shape == [status |-> status, body |-> "shapeU", server |-> "proxy"]
           other == [status |-> status, body |-> "own", server |-> server]
<1>1. CASE status \in 200..399
  <2>1. CollapseWireShape(status, server) = own
    BY <1>1 DEF CollapseWireShape
  <2> QED
    BY <2>1, <1>1 DEF Answer, Bodies
<1>2. CASE status \in {401, 403, 404, 429}
  <2>1. CollapseWireShape(status, server) = constant
    BY <1>2 DEF CollapseWireShape
  <2> QED
    BY <2>1, <1>2 DEF Answer, Bodies
<1>3. CASE status \in {502, 503}
  <2>1. CollapseWireShape(status, server) = shape
    BY <1>3 DEF CollapseWireShape
  <2> QED
    BY <2>1, <1>3 DEF Answer, Bodies
<1>4. CASE ~(status \in 200..399 \/ status \in {401, 403, 404, 429} \/ status \in {502, 503})
  <2>1. CollapseWireShape(status, server) = other
    BY <1>4 DEF CollapseWireShape
  <2> QED
    BY <2>1, <1>4 DEF Answer, Bodies
<1> QED
  BY <1>1, <1>2, <1>3, <1>4

\* A call that a step on the route leaves as q: it is not made to look as if it
\* had been outside, and what lets it on was checked.
OnRoute(q) ==
  /\ q \in Call /\ q.pc # "thrown"
  /\ q.pc = "answered" => q.answer.server = "none" /\ q.answer.body # "own"
  /\ q.answer.status \in {401, 403, 404, 429} /\ env.store # "explicit" => q.answer.body = "constant"
  /\ q.pc \in Admitted => q.peer \in Peers
  /\ q.pc \in Admitted /\ q.name # Malformed => Declared(q.name) /\ q.peer \in AllowedSubs(q.name)
  /\ q.pc \in Outside => Declared(q.name)
  /\ q.pc \in {"resolve", "upstream"} /\ Declared(q.name) => env.store = "explicit"

\* A step on the route changes one call and no record.
LEMMA NoRecord ==
  ASSUME CallTypes, RecordInv, NEW c \in Calls, NEW q, OnRoute(q),
         calls' = [calls EXCEPT ![c] = q], env' = env, receipts' = receipts,
         calls[c].pc \notin {"answered", "thrown"}
  PROVE  CallTypes' /\ RecordInv'
<1>1. CallTypes'
  BY DEF CallTypes, OnRoute
<1>2. ASSUME NEW d \in Calls PROVE calls'[d] = IF d = c THEN q ELSE calls[d]
  BY DEF CallTypes
<1>3. CallInv'
  BY <1>2 DEF CallInv, RecordInv, Declared, AllowedSubs, OnRoute
<1>4. OneReceiptPerCall'
  <2>1. receipts[c] = <<>>
    BY DEF OneReceiptPerCall, RecordInv
  <2> QED
    BY <1>2, <2>1 DEF OneReceiptPerCall, RecordInv, OnRoute
<1>5. RecordedWasAllowed'
  BY DEF RecordedWasAllowed, RecordInv, Declared, ToSet
<1>6. DenialsAlike'
  BY <1>2 DEF DenialsAlike, RecordInv, OnRoute
<1> QED
  BY <1>1, <1>3, <1>4, <1>5, <1>6 DEF RecordInv

\* A call that was outside as p and comes back as q with a status.
CameBack(p, q, status) ==
  /\ q \in Call /\ q.peer = p.peer /\ q.name = p.name
  /\ \/ q.pc = "thrown" /\ status = 0 /\ q.answer = p.answer
     \/ /\ q.pc = "answered" /\ q.answer.status = status
        /\ q.answer.server # "none" \/ q.answer.body = "own"
        /\ status \in {401, 403, 404, 429} /\ env.store # "explicit" => q.answer.body = "constant"

\* A step that puts one call outside on record keeps the books.
LEMMA OneRecord ==
  ASSUME CallTypes, RecordInv, NEW c \in Calls, NEW q, NEW status \in Nat,
         calls' = [calls EXCEPT ![c] = q], env' = env,
         EmitProxyCallTelemetry(c, status),
         calls[c].pc \in Outside, CameBack(calls[c], q, status)
  PROVE  CallTypes' /\ RecordInv'
<1> DEFINE r == [peer |-> q.peer, service |-> q.name, status |-> status]
<1>1. /\ calls[c].peer \in Peers /\ Declared(calls[c].name)
      /\ calls[c].peer \in AllowedSubs(calls[c].name)
  BY Constants DEF RecordInv, CallInv, Declared
<1>2. receipts[c] = <<>>
  BY DEF OneReceiptPerCall, RecordInv
<1>3. r \in [peer : Peers, service : Names, status : Nat]
  BY <1>1 DEF CallTypes, Call, CameBack
<1>4. receipts' = [receipts EXCEPT ![c] = Append(@, r)]
  BY DEF EmitProxyCallTelemetry, CameBack
<1>11. r.service = q.name /\ r.peer = q.peer /\ r.status = status
  OBVIOUS
<1>12. r = [peer |-> q.peer, service |-> q.name, status |-> status]
  OBVIOUS
<1> HIDE DEF r
<1>13. receipts' = [receipts EXCEPT ![c] = <<r>>]
  BY <1>2, <1>3, <1>4 DEF CallTypes
<1>5. CallTypes'
  <2>1. <<r>> \in Seq([peer : Peers, service : Names, status : Nat])
    BY <1>3
  <2> QED
    BY <2>1, <1>13 DEF CallTypes, CameBack
<1>6. ASSUME NEW d \in Calls
      PROVE  /\ calls'[d] = IF d = c THEN q ELSE calls[d]
             /\ receipts'[d] = IF d = c THEN <<r>> ELSE receipts[d]
  BY <1>13 DEF CallTypes
<1>7. CallInv'
  BY <1>6 DEF CallInv, RecordInv, Declared, AllowedSubs, CameBack
<1>8. OneReceiptPerCall'
  BY <1>6, <1>12 DEF OneReceiptPerCall, RecordInv, CameBack
<1>9. RecordedWasAllowed'
  <2> SUFFICES ASSUME ~env.dev, NEW d \in Calls, NEW x \in ToSet(receipts'[d])
               PROVE  Declared(x.service) /\ x.peer \in Manifest[x.service].allowed
    BY DEF RecordedWasAllowed, Declared, ToSet
  <2>1. CASE d = c
    <3>1. x = r
      BY <2>1, <1>6 DEF ToSet
    <3> QED
      BY <3>1, <1>1, <1>11 DEF AllowedSubs, CameBack
  <2>2. CASE d # c
    BY <2>2, <1>6 DEF RecordedWasAllowed, RecordInv
  <2> QED
    BY <2>1, <2>2
<1>10. DenialsAlike'
  BY <1>6 DEF DenialsAlike, RecordInv, CameBack
<1> QED
  BY <1>5, <1>7, <1>8, <1>9, <1>10 DEF RecordInv

\* A budget's verdict sends a call to the lease or answers it.
LEMMA ArriveKeepsBooks ==
  ASSUME CallTypes, RecordInv, NEW c \in Calls, NEW ip \in Ips, NEW name \in Names,
         Arrive(c, ip, name)
  PROVE  CallTypes' /\ RecordInv'
<1> DEFINE ok == PreAuthBurstLimit(ip).ok
           q == [pc |-> IF ok THEN "lease" ELSE "answered", name |-> name, peer |-> "none",
                 answer |-> IF ok THEN NoAnswer ELSE Refusal(429, "constant")]
<1>1. calls' = [calls EXCEPT ![c] = q] /\ env' = env /\ receipts' = receipts
  BY DEF Arrive
<1>2. Refusal(429, "constant") \in Answer
  BY Refusals
<1>3. NoAnswer \in Answer
  BY DEF NoAnswer, Answer, Bodies
<1>4. calls[c].pc = "new"
  BY DEF Arrive
<1> HIDE DEF ok
<1>5. q \in Call
  BY <1>2, <1>3 DEF Call
<1>6. q.pc = "answered" => q.answer = Refusal(429, "constant")
  OBVIOUS
<1>7. q.pc \in {"lease", "answered"} /\ (q.pc = "lease" => q.answer = NoAnswer)
  OBVIOUS
<1> HIDE DEF q
<1>10. OnRoute(q)
  BY <1>5, <1>6, <1>7, Refusals DEF NoAnswer, OnRoute
<1> QED
  BY <1>1, <1>4, <1>10, NoRecord

\* A refusal made on the route keeps the books, if it denies with the body
\* that every denial has.
LEMMA RefusedKeepsBooks ==
  ASSUME CallTypes, RecordInv, NEW c \in Calls, NEW status \in Nat,
         NEW body \in {"constant", "limited", "shapeU"},
         Answered(c, Refusal(status, body)), env' = env, receipts' = receipts,
         calls[c].pc \notin {"answered", "thrown"},
         body = "constant" \/ env.store = "explicit"
  PROVE  CallTypes' /\ RecordInv'
<1> DEFINE q == [calls[c] EXCEPT !.pc = "answered", !.answer = Refusal(status, body)]
<1>1. calls' = [calls EXCEPT ![c] = q]
  BY DEF Answered, CallTypes, Call
<1>2. Refusal(status, body) \in Answer /\ calls[c] \in Call
  BY Refusals DEF CallTypes
<1>3. q \in Call /\ q.pc = "answered" /\ q.answer = Refusal(status, body)
  BY <1>2 DEF Call
<1> HIDE DEF q
<1>4. OnRoute(q)
  BY <1>3, Refusals DEF OnRoute
<1> QED
  BY <1>1, <1>4, NoRecord

\* A verified lease sends a call where Handle says.
LEMMA LeaseVerifiedKeepsBooks ==
  ASSUME CallTypes, RecordInv, NEW c \in Calls, NEW peer \in Peers, LeaseVerified(c, peer)
  PROVE  CallTypes' /\ RecordInv'
<1> DEFINE way == Handle(calls[c].name, peer)
           ans == CASE way \in {"undeclared", "denied"} -> Refusal(404, "constant")
                    [] way = "noStore" -> Refusal(503, "shapeU")
                    [] OTHER -> NoAnswer
           q == [calls[c] EXCEPT !.peer = peer, !.answer = ans,
                   !.pc = IF way \in {"undeclared", "denied", "noStore"} THEN "answered" ELSE way]
<1>1. calls' = [calls EXCEPT ![c] = q] /\ env' = env /\ receipts' = receipts
  <2>1. calls' = [calls EXCEPT ![c].peer = peer,
           ![c].pc = IF way \in {"undeclared", "denied", "noStore"} THEN "answered" ELSE way,
           ![c].answer = ans]
    BY DEF LeaseVerified
  <2> HIDE DEF way, ans
  <2>2. calls' = [calls EXCEPT ![c] = q]
    BY <2>1 DEF CallTypes, Call
  <2> QED
    BY <2>2 DEF LeaseVerified
<1>2. /\ way \in {"undeclared", "denied", "noStore", "passthrough", "vault", "resolve"}
      /\ way \in Admitted /\ calls[c].name # Malformed =>
           Declared(calls[c].name) /\ peer \in AllowedSubs(calls[c].name)
      /\ way \in Outside => Declared(calls[c].name)
      /\ way = "resolve" /\ Declared(calls[c].name) => env.store \notin {"none", "vault"}
      /\ way # "upstream"
  BY Constants DEF Handle, Declared
<1>3. env.store \in {"none", "vault", "explicit"}
  BY Constants DEF CallTypes
<1>4. calls[c].pc = "lease"
  BY DEF LeaseVerified
<1> HIDE DEF way
<1>5. /\ way \in {"undeclared", "denied"} => ans = Refusal(404, "constant")
      /\ way = "noStore" => ans = Refusal(503, "shapeU")
      /\ way \in Admitted => ans = NoAnswer
  BY <1>2
<1> HIDE DEF ans
<1>6. ans \in Answer /\ ans.server = "none" /\ ans.body # "own"
      /\ (ans.status \in {401, 403, 404, 429} => ans.body = "constant")
  BY <1>2, <1>5, Refusals DEF NoAnswer, Answer, Bodies
<1>7. q \in Call /\ q.peer = peer /\ q.answer = ans /\ q.name = calls[c].name
      /\ q.pc = IF way \in {"undeclared", "denied", "noStore"} THEN "answered" ELSE way
  BY <1>2, <1>6 DEF CallTypes, Call
<1> HIDE DEF q
<1>8. q.pc # "thrown" /\ (q.pc \in Admitted => q.pc = way)
  BY <1>2, <1>7
<1>9. OnRoute(q)
  BY <1>2, <1>3, <1>6, <1>7, <1>8 DEF OnRoute
<1> QED
  BY <1>1, <1>4, <1>9, NoRecord

\* The handler lets a call out, or answers that it is over its limit.
LEMMA HandlerKeepsBooks ==
  ASSUME CallTypes, RecordInv, NEW c \in Calls, VaultProxyHandler(c)
  PROVE  CallTypes' /\ RecordInv'
<1>1. /\ calls[c].pc = "resolve" /\ Declared(calls[c].name) /\ env' = env /\ receipts' = receipts
      /\ \/ calls' = [calls EXCEPT ![c].pc = "upstream"]
         \/ Answered(c, Refusal(429, "limited"))
  BY DEF VaultProxyHandler
<1>2. env.store = "explicit"
  BY <1>1 DEF RecordInv, CallInv
<1>3. CASE Answered(c, Refusal(429, "limited"))
  BY <1>1, <1>2, <1>3, RefusedKeepsBooks
<1>4. CASE calls' = [calls EXCEPT ![c].pc = "upstream"]
  <2> DEFINE q == [calls[c] EXCEPT !.pc = "upstream"]
  <2>1. calls' = [calls EXCEPT ![c] = q]
    BY <1>4 DEF CallTypes, Call
  <2>2. /\ q \in Call /\ q.pc = "upstream" /\ q.peer = calls[c].peer
        /\ q.name = calls[c].name /\ q.answer = calls[c].answer
    BY DEF CallTypes, Call
  <2>3. /\ calls[c].peer \in Peers
        /\ calls[c].name # Malformed => calls[c].peer \in AllowedSubs(calls[c].name)
    BY <1>1 DEF RecordInv, CallInv
  <2>4. calls[c].answer.status \in {401, 403, 404, 429} /\ env.store # "explicit" =>
           calls[c].answer.body = "constant"
    BY DEF RecordInv, DenialsAlike
  <2> HIDE DEF q
  <2>5. OnRoute(q)
    BY <2>2, <2>3, <2>4, <1>1, <1>2 DEF OnRoute
  <2> QED
    BY <2>1, <2>5, <1>1, NoRecord
<1> QED
  BY <1>1, <1>3, <1>4

\* An answer from outside is put on record as it is given.
LEMMA AnswersKeepsBooks ==
  ASSUME CallTypes, RecordInv, NEW c \in Calls, NEW status \in Statuses, Answers(c, status)
  PROVE  CallTypes' /\ RecordInv'
<1> DEFINE ans == CASE calls[c].pc = "passthrough" -> CollapseWireShape(status, "upstream")
                    [] calls[c].pc = "vault" -> CollapseWireShape(status, "none")
                    [] OTHER -> [status |-> status, body |-> "own", server |-> "upstream"]
           q == [calls[c] EXCEPT !.pc = "answered", !.answer = ans]
<1>1. calls[c].pc \in Outside /\ EmitProxyCallTelemetry(c, status) /\ env' = env
  BY DEF Answers
<1>2. calls' = [calls EXCEPT ![c] = q]
  BY DEF Answers, Answered, CallTypes, Call
<1>3. status \in Nat
  BY Constants
<1>4. calls[c].pc = "upstream" => env.store = "explicit"
  BY <1>1 DEF RecordInv, CallInv
<1>5. /\ calls[c].pc = "passthrough" => ans = CollapseWireShape(status, "upstream")
      /\ calls[c].pc = "vault" => ans = CollapseWireShape(status, "none")
      /\ calls[c].pc = "upstream" => ans = [status |-> status, body |-> "own", server |-> "upstream"]
  OBVIOUS
<1> HIDE DEF ans
<1>6. /\ ans \in Answer /\ ans.status = status /\ (ans.server # "none" \/ ans.body = "own")
      /\ status \in {401, 403, 404, 429} /\ env.store # "explicit" => ans.body = "constant"
  <2>1. CASE calls[c].pc \in {"passthrough", "vault"}
    BY <2>1, <1>3, <1>5, Collapsed
  <2>2. CASE calls[c].pc = "upstream"
    BY <2>2, <1>3, <1>4, <1>5 DEF Answer, Bodies
  <2> QED
    BY <1>1, <2>1, <2>2
<1>7. q \in Call /\ q.pc = "answered" /\ q.answer = ans /\ q.peer = calls[c].peer
      /\ q.name = calls[c].name
  BY <1>6 DEF CallTypes, Call
<1> HIDE DEF q
<1>8. CameBack(calls[c], q, status)
  BY <1>6, <1>7 DEF CameBack
<1> QED
  BY <1>1, <1>2, <1>3, <1>8, OneRecord

\* A call that is lost outside is put on record too.
LEMMA ThrowsKeepsBooks ==
  ASSUME CallTypes, RecordInv, NEW c \in Calls, Throws(c)
  PROVE  CallTypes' /\ RecordInv'
<1> DEFINE q == [calls[c] EXCEPT !.pc = "thrown"]
<1>1. calls[c].pc \in Outside /\ EmitProxyCallTelemetry(c, 0) /\ env' = env
  BY DEF Throws
<1>2. calls' = [calls EXCEPT ![c] = q]
  BY DEF Throws, CallTypes, Call
<1>3. q \in Call /\ q.pc = "thrown" /\ q.answer = calls[c].answer /\ q.peer = calls[c].peer
      /\ q.name = calls[c].name
  BY DEF CallTypes, Call
<1> HIDE DEF q
<1>4. CameBack(calls[c], q, 0)
  BY <1>3 DEF CameBack
<1> QED
  BY <1>1, <1>2, <1>4, OneRecord

\* Nobody is on record at first.
LEMMA BooksInit == Init => CallTypes /\ RecordInv
<1> SUFFICES ASSUME Init PROVE CallTypes /\ RecordInv
  OBVIOUS
<1>1. NoCall \in Call /\ NoCall.pc = "new" /\ NoCall.answer.status = 0
  BY Constants DEF NoCall, Call, NoAnswer, Answer, Bodies
<1>2. \A c \in Calls : calls[c] = NoCall /\ receipts[c] = <<>>
  BY DEF Init
<1>3. CallTypes
  BY <1>1 DEF Init, CallTypes
<1>4. CallInv /\ DenialsAlike
  BY <1>1, <1>2 DEF CallInv, DenialsAlike
<1>5. OneReceiptPerCall
  BY <1>1, <1>2 DEF OneReceiptPerCall
<1>6. RecordedWasAllowed
  BY <1>2 DEF RecordedWasAllowed, ToSet
<1> QED
  BY <1>3, <1>4, <1>5, <1>6 DEF RecordInv

\* Every step keeps the books.
LEMMA BooksNext == CallTypes /\ RecordInv /\ [Next]_vars => CallTypes' /\ RecordInv'
<1> SUFFICES ASSUME CallTypes, RecordInv, [Next]_vars PROVE CallTypes' /\ RecordInv'
  OBVIOUS
<1>1. CASE UNCHANGED <<env, calls, receipts>>
  BY <1>1 DEF CallTypes, RecordInv, CallInv, OneReceiptPerCall, RecordedWasAllowed, DenialsAlike,
              Declared, AllowedSubs, ToSet
<1>2. ASSUME NEW c \in Calls, NEW status \in {401, 503}, LeaseRefused(c, status)
      PROVE  CallTypes' /\ RecordInv'
  <2>1. calls[c].pc = "lease" /\ Answered(c, Refusal(status, "constant")) /\ env' = env
        /\ receipts' = receipts /\ status \in Nat
    BY <1>2 DEF LeaseRefused
  <2> QED
    BY <2>1, RefusedKeepsBooks
<1>3. ASSUME NEW c \in Calls, LookupFails(c) PROVE CallTypes' /\ RecordInv'
  <2>1. calls[c].pc = "resolve" /\ Answered(c, Refusal(404, "constant")) /\ env' = env
        /\ receipts' = receipts
    BY <1>3 DEF LookupFails
  <2> QED
    BY <2>1, RefusedKeepsBooks
<1>4. CASE Tick
  BY <1>1, <1>4 DEF Tick
<1>5. CASE UNCHANGED vars
  BY <1>1, <1>5 DEF vars
<1> QED
  BY <1>2, <1>3, <1>4, <1>5, ArriveKeepsBooks, LeaseVerifiedKeepsBooks, HandlerKeepsBooks,
     AnswersKeepsBooks, ThrowsKeepsBooks DEF Next

(***************************************************************************)
(* Every call that left the route is on record once, with the peer and the *)
(* status its caller was given, and no call that was refused there is;     *)
(* outside dev mode whoever is on record is on the manifest's list; and a  *)
(* denial does not tell which gate it came from.                           *)
(***************************************************************************)
THEOREM ProxyCallsRecorded == Spec => []CallsRecorded
<1>1. CallTypes /\ RecordInv => CallsRecorded
  BY DEF RecordInv, CallsRecorded
<1> QED
  BY <1>1, BooksInit, BooksNext, PTL DEF Spec

-----------------------------------------------------------------------------
(***************************************************************************)
(* The budget per address                                                  *)
(***************************************************************************)
Bucket == [ip : Ips, tokens : 0..Capacity, last : Nat]

\* Buckets of distinct addresses.
Distinct(s) == \A i, j \in DOMAIN s : s[i].ip = s[j].ip => i = j

\* What a bucket at a time holds and what was taken from it is covered by its
\* capacity and what it earned, and it has earned a request when its hint says.
Sound(b, t, taken, from, until) ==
  /\ b.last <= t /\ from <= b.last
  /\ taken + b.tokens <= Capacity + Refill * (b.last - from)
  /\ until # -1 => Cost <= b.tokens + Refill * (until - b.last)

BudgetTypes ==
  /\ now \in 0..MaxNow
  /\ buckets \in Seq(Bucket)
  /\ spent \in [Ips -> Nat] /\ born \in [Ips -> Nat] /\ hint \in [Ips -> Int]

BudgetInv ==
  /\ Len(buckets) <= MaxKeys /\ Distinct(buckets)
  /\ \A i \in Ips : born[i] <= now
  /\ \A b \in ToSet(buckets) : Sound(b, now, spent[b.ip], born[b.ip], hint[b.ip])
  /\ PreAuthBound

\* Eviction keeps the order, the buckets and their addresses, and makes room.
LEMMA EvictedHolds ==
  ASSUME BudgetTypes, BudgetInv
  PROVE  /\ Evicted \in Seq(Bucket) /\ Len(Evicted) < MaxKeys /\ Distinct(Evicted)
         /\ ToSet(Evicted) \subseteq ToSet(buckets)
<1>1. CASE Len(buckets) < MaxKeys
  BY <1>1, Constants DEF Evicted, BudgetTypes, BudgetInv
<1>2. CASE ~(Len(buckets) < MaxKeys)
  <2> DEFINE d == MaxKeys \div EvictFraction
  <2>1. d \in Nat \ {0} /\ d <= MaxKeys
    BY QuotientPositive, Constants
  <2>2. Len(buckets) = MaxKeys /\ Evicted = SubSeq(buckets, d + 1, Len(buckets))
    BY <1>2, Constants DEF Evicted, BudgetTypes, BudgetInv
  <2> HIDE DEF d
  <2>3. /\ Evicted \in Seq(Bucket) /\ Len(Evicted) = MaxKeys - d
        /\ \A i \in 1..(MaxKeys - d) : i + d \in DOMAIN buckets /\ Evicted[i] = buckets[i + d]
    BY <2>1, <2>2, Constants DEF BudgetTypes
  <2>4. Distinct(Evicted)
    BY <2>1, <2>3, Constants DEF Distinct, BudgetInv
  <2>5. ToSet(Evicted) \subseteq ToSet(buckets)
    BY <2>1, <2>3, Constants DEF ToSet
  <2> QED
    BY <2>1, <2>3, <2>4, <2>5, Constants
<1> QED
  BY <1>1, <1>2

\* Setting a bucket replaces the one of its address, or adds one.
LEMMA SetBucketHolds ==
  ASSUME NEW kept \in Seq(Bucket), Distinct(kept), NEW b \in Bucket
  PROVE  /\ SetBucket(kept, b) \in Seq(Bucket) /\ Distinct(SetBucket(kept, b))
         /\ Len(SetBucket(kept, b)) <= Len(kept) + 1
         /\ \A x \in ToSet(SetBucket(kept, b)) : x = b \/ (x \in ToSet(kept) /\ x.ip # b.ip)
<1>1. CASE \E x \in ToSet(kept) : x.ip = b.ip
  <2>1. SetBucket(kept, b) = [i \in DOMAIN kept |-> IF kept[i].ip = b.ip THEN b ELSE kept[i]]
    BY <1>1 DEF SetBucket
  <2>2. SetBucket(kept, b) \in Seq(Bucket) /\ Len(SetBucket(kept, b)) = Len(kept)
    BY <2>1
  <2>3. \A i \in DOMAIN kept : SetBucket(kept, b)[i].ip = kept[i].ip
    BY <2>1
  <2>4. Distinct(SetBucket(kept, b))
    BY <2>1, <2>3 DEF Distinct
  <2>5. \A x \in ToSet(SetBucket(kept, b)) : x = b \/ (x \in ToSet(kept) /\ x.ip # b.ip)
    BY <2>1 DEF ToSet
  <2> QED
    BY <2>2, <2>4, <2>5
<1>2. CASE ~ \E x \in ToSet(kept) : x.ip = b.ip
  <2>1. SetBucket(kept, b) = Append(kept, b)
    BY <1>2 DEF SetBucket
  <2>2. \A i \in DOMAIN kept : kept[i].ip # b.ip /\ kept[i] \in ToSet(kept)
    BY <1>2 DEF ToSet
  <2>3. Distinct(SetBucket(kept, b))
    BY <2>1, <2>2 DEF Distinct
  <2>4. \A x \in ToSet(SetBucket(kept, b)) : x = b \/ (x \in ToSet(kept) /\ x.ip # b.ip)
    BY <2>1, <2>2 DEF ToSet
  <2> QED
    BY <2>1, <2>3, <2>4
<1> QED
  BY <1>1, <1>2

\* What a bucket has earned: enough if it was told so, and never more than it
\* is owed.
LEMMA EarnedHolds ==
  ASSUME NEW b \in Bucket, NEW t \in Nat, NEW taken \in Nat, NEW from \in Nat, NEW until \in Int,
         Sound(b, t, taken, from, until)
  PROVE  /\ Earned(b, t) \in 0..Capacity
         /\ taken + Earned(b, t) <= Capacity + Refill * (t - from)
         /\ until # -1 /\ until <= t => Cost <= Earned(b, t)
<1>1. b.tokens \in 0..Capacity /\ b.last \in Nat /\ b.last <= t /\ from <= b.last
  BY DEF Bucket, Sound
<1>2. PICK gain : gain = Refill * (t - b.last)
  OBVIOUS
<1>3. gain \in Nat /\ (t - b.last) * Refill = gain
  <2>1. Refill * 0 <= Refill * (t - b.last) /\ Refill * (t - b.last) \in Int
    BY <1>1, Constants, Monotone
  <2> QED
    BY <2>1, <1>1, <1>2, Constants
<1>4. Earned(b, t) = IF Capacity < b.tokens + gain THEN Capacity ELSE b.tokens + gain
  BY <1>3 DEF Earned, Least
<1>5. Earned(b, t) \in 0..Capacity /\ Earned(b, t) <= b.tokens + gain
  BY <1>1, <1>3, <1>4, Constants
<1>6. gain + Refill * (b.last - from) = Refill * (t - from)
  BY <1>1, <1>2, Distribute, Constants
<1>7. taken + b.tokens <= Capacity + Refill * (b.last - from)
      /\ Refill * (b.last - from) \in Int /\ Refill * (t - from) \in Int
  BY <1>1, Constants DEF Sound
<1>8. taken + Earned(b, t) <= Capacity + Refill * (t - from)
  BY <1>1, <1>3, <1>5, <1>6, <1>7, Constants
<1>9. ASSUME until # -1, until <= t PROVE Cost <= Earned(b, t)
  <2>1. Cost <= b.tokens + Refill * (until - b.last)
    BY <1>9 DEF Sound
  <2>2. Refill * (until - b.last) <= gain /\ Refill * (until - b.last) \in Int
    BY <1>1, <1>2, <1>9, Constants, Monotone
  <2> QED
    BY <2>1, <2>2, <1>1, <1>3, <1>4, Constants
<1> QED
  BY <1>5, <1>8, <1>9

\* The verdict on an address: a bucket stamped now, and what it is owed.
LEMMA VerdictHolds ==
  ASSUME BudgetTypes, BudgetInv, NEW ip \in Ips
  PROVE  LET v == PreAuthBurstLimit(ip)
             taken == IF v.found = {} THEN 0 ELSE spent[ip]
             from == IF v.found = {} THEN now ELSE born[ip]
         IN  /\ v.kept = Evicted
             /\ v.refilled.tokens \in 0..Capacity /\ v.refilled.last = now
             /\ v.ok <=> v.refilled.tokens >= Cost
             /\ taken \in Nat /\ from \in Nat /\ from <= now
             /\ taken + v.refilled.tokens <= Capacity + Refill * (now - from)
             /\ hint[ip] # -1 /\ hint[ip] <= now => v.ok
<1> DEFINE found == BucketsOf(Evicted, ip)
           full == RefillBucketWithLimits(found, now)
           v == PreAuthBurstLimit(ip)
<1>1. v.found = found /\ v.refilled = full /\ v.kept = Evicted /\ (v.ok <=> full.tokens >= Cost)
  BY DEF PreAuthBurstLimit
<1>2. now \in Nat /\ spent[ip] \in Nat /\ born[ip] \in Nat /\ hint[ip] \in Int
      /\ born[ip] <= now
  BY Constants DEF BudgetTypes, BudgetInv
<1> HIDE DEF v
<1>3. CASE found = {}
  <2>1. full = [tokens |-> Capacity, last |-> now]
    BY <1>3 DEF RefillBucketWithLimits
  <2>2. full.tokens = Capacity /\ full.last = now
    BY <2>1
  <2>3. Refill * (now - now) = 0
    BY <1>2, Constants
  <2> HIDE DEF full
  <2>4. 0 + full.tokens <= Capacity + Refill * (now - now)
    BY <2>2, <2>3, Constants
  <2> QED
    BY <1>1, <1>2, <1>3, <2>2, <2>4, Constants DEF v
<1>4. CASE found # {}
  <2>1. PICK b \in found : full = [tokens |-> Earned(b, now), last |-> now]
    BY <1>4 DEF RefillBucketWithLimits
  <2>2. b \in ToSet(buckets) /\ b.ip = ip
    BY <2>1, EvictedHolds DEF BucketsOf
  <2>3. b \in Bucket
    BY <2>2 DEF BudgetTypes, ToSet
  <2>4. Sound(b, now, spent[ip], born[ip], hint[ip])
    BY <2>2 DEF BudgetInv
  <2>5. full.tokens = Earned(b, now) /\ full.last = now
    BY <2>1
  <2> HIDE DEF full, found
  <2>6. /\ full.tokens \in 0..Capacity
        /\ spent[ip] + full.tokens <= Capacity + Refill * (now - born[ip])
        /\ hint[ip] # -1 /\ hint[ip] <= now => Cost <= full.tokens
    BY <2>3, <2>4, <2>5, <1>2, EarnedHolds
  <2> QED
    BY <1>1, <1>2, <1>4, <2>5, <2>6, Constants DEF v
<1> QED
  BY <1>3, <1>4

\* A refusal's hint is never too early.
LEMMA HintCovers ==
  ASSUME NEW tokens \in 0..Capacity
  PROVE  /\ RetryAfterSec(tokens) \in Nat
         /\ Cost <= tokens + Refill * RetryAfterSec(tokens)
<1>1. tokens \in Int /\ Cost - tokens \in Int
  BY Constants
<1>2. Ceil(Cost - tokens, Refill) \in Int /\ Cost - tokens <= Refill * Ceil(Cost - tokens, Refill)
  BY <1>1, CeilCovers, Constants
<1>3. RetryAfterSec(tokens) \in Nat /\ Ceil(Cost - tokens, Refill) <= RetryAfterSec(tokens)
  BY <1>2 DEF RetryAfterSec
<1>4. Refill * Ceil(Cost - tokens, Refill) <= Refill * RetryAfterSec(tokens)
      /\ Refill * Ceil(Cost - tokens, Refill) \in Int /\ Refill * RetryAfterSec(tokens) \in Int
  BY <1>2, <1>3, Constants, Monotone
<1> QED
  BY <1>1, <1>2, <1>3, <1>4, Constants

\* An address's bound with its bucket's.
LEMMA BoundOf ==
  ASSUME BudgetTypes, BudgetInv, NEW i \in Ips
  PROVE  spent[i] <= Capacity + Refill * (now - born[i])
  BY DEF BudgetInv, PreAuthBound

\* A request that arrives keeps the budgets.
LEMMA ArriveKeepsBudgets ==
  ASSUME BudgetTypes, BudgetInv, NEW c \in Calls, NEW ip \in Ips, NEW name \in Names,
         Arrive(c, ip, name)
  PROVE  BudgetTypes' /\ BudgetInv'
<1> DEFINE v == PreAuthBurstLimit(ip)
           taken == IF v.ok THEN Cost ELSE 0
           before == IF v.found = {} THEN 0 ELSE spent[ip]
           from == IF v.found = {} THEN now ELSE born[ip]
           until == IF v.ok THEN -1 ELSE now + RetryAfterSec(v.refilled.tokens)
           b == [ip |-> ip, tokens |-> v.refilled.tokens - taken, last |-> v.refilled.last]
<1>1. /\ v.kept = Evicted
      /\ v.refilled.tokens \in 0..Capacity /\ v.refilled.last = now
      /\ v.ok <=> v.refilled.tokens >= Cost
      /\ before \in Nat /\ from \in Nat /\ from <= now
      /\ before + v.refilled.tokens <= Capacity + Refill * (now - from)
  BY VerdictHolds
<1>2. now \in Nat /\ now \in 0..MaxNow /\ now' = now
  BY Constants DEF BudgetTypes, Arrive
<1>3. buckets' = SetBucket(Evicted, b)
  BY <1>1 DEF Arrive
<1>4. spent' = [spent EXCEPT ![ip] = before + taken]
  BY DEF Arrive, BudgetTypes
<1>5. born' = [born EXCEPT ![ip] = from]
  BY DEF Arrive, BudgetTypes
<1>6. hint' = [hint EXCEPT ![ip] = until]
  BY DEF Arrive
<1> HIDE DEF v
<1>7. taken \in Nat /\ taken <= v.refilled.tokens
  BY <1>1, Constants
<1>8. until \in Int /\ (until # -1 => Cost <= v.refilled.tokens - taken + Refill * (until - now))
  <2>1. CASE v.ok
    BY <2>1
  <2>2. CASE ~v.ok
    <3>1. RetryAfterSec(v.refilled.tokens) \in Nat
          /\ Cost <= v.refilled.tokens + Refill * RetryAfterSec(v.refilled.tokens)
      BY <1>1, HintCovers
    <3>2. until = now + RetryAfterSec(v.refilled.tokens) /\ taken = 0
      BY <2>2
    <3>3. until - now = RetryAfterSec(v.refilled.tokens)
      BY <3>1, <3>2, <1>2
    <3> QED
      BY <3>1, <3>2, <3>3, <1>1, <1>2
  <2> QED
    BY <2>1, <2>2
<1> HIDE DEF taken, before, from, until
<1>9. b \in Bucket /\ b.ip = ip /\ b.tokens = v.refilled.tokens - taken /\ b.last = now
  BY <1>1, <1>2, <1>7, Constants DEF Bucket
<1> HIDE DEF b
<1>10. /\ before + taken + b.tokens <= Capacity + Refill * (now - from)
       /\ Refill * (now - from) \in Int
  BY <1>1, <1>2, <1>7, <1>9, Constants
<1>11. Sound(b, now, before + taken, from, until)
  BY <1>1, <1>2, <1>8, <1>9, <1>10 DEF Sound
<1>12. /\ buckets' \in Seq(Bucket) /\ Distinct(buckets') /\ Len(buckets') <= MaxKeys
       /\ \A x \in ToSet(buckets') : x = b \/ (x \in ToSet(buckets) /\ x.ip # ip)
  <2>1. /\ Evicted \in Seq(Bucket) /\ Len(Evicted) < MaxKeys /\ Distinct(Evicted)
        /\ ToSet(Evicted) \subseteq ToSet(buckets)
    BY EvictedHolds
  <2>2. /\ buckets' \in Seq(Bucket) /\ Distinct(buckets')
        /\ Len(buckets') <= Len(Evicted) + 1
        /\ \A x \in ToSet(buckets') : x = b \/ (x \in ToSet(Evicted) /\ x.ip # ip)
    BY <2>1, <1>3, <1>9, SetBucketHolds
  <2>3. Len(Evicted) \in Nat /\ Len(buckets') \in Nat
    BY <2>1, <2>2
  <2> QED
    BY <2>1, <2>2, <2>3, Constants
<1>13. before + taken \in Nat
  BY <1>1, <1>7
<1>14. BudgetTypes'
  BY <1>1, <1>2, <1>4, <1>5, <1>6, <1>8, <1>12, <1>13 DEF BudgetTypes
<1>15. \A i \in Ips : /\ spent'[i] = IF i = ip THEN before + taken ELSE spent[i]
                      /\ born'[i] = IF i = ip THEN from ELSE born[i]
                      /\ hint'[i] = IF i = ip THEN until ELSE hint[i]
  BY <1>4, <1>5, <1>6 DEF BudgetTypes
<1>16. \A i \in Ips : born'[i] <= now'
  BY <1>1, <1>2, <1>15 DEF BudgetInv
<1>17. ASSUME NEW x \in ToSet(buckets')
       PROVE  Sound(x, now, spent'[x.ip], born'[x.ip], hint'[x.ip])
  <2>1. CASE x = b
    BY <2>1, <1>9, <1>11, <1>15
  <2>2. CASE x \in ToSet(buckets) /\ x.ip # ip
    <3>1. x \in Bucket
      BY <2>2 DEF BudgetTypes, ToSet
    <3> QED
      BY <2>2, <3>1, <1>15 DEF BudgetInv, Bucket
  <2> QED
    BY <1>12, <2>1, <2>2
<1>18. PreAuthBound'
  <2>1. b.tokens \in Nat /\ taken \in Nat /\ before \in Nat
    BY <1>1, <1>7, <1>9, Constants
  <2>2. before + taken <= Capacity + Refill * (now - from)
    BY <2>1, <1>10, Constants
  <2> QED
    BY <2>2, <1>2, <1>15, BoundOf DEF PreAuthBound
<1> QED
  BY <1>2, <1>12, <1>14, <1>16, <1>17, <1>18 DEF BudgetInv

\* Time only adds to what is owed.
LEMMA TickKeepsBudgets ==
  ASSUME BudgetTypes, BudgetInv, Tick
  PROVE  BudgetTypes' /\ BudgetInv'
<1>1. now \in Nat /\ now' = now + 1 /\ now' \in 0..MaxNow
      /\ UNCHANGED <<buckets, spent, born, hint>>
  BY Constants DEF Tick, BudgetTypes, budgetVars
<1>2. BudgetTypes'
  BY <1>1 DEF BudgetTypes
<1>3. \A b \in ToSet(buckets) : b \in Bucket
  BY DEF BudgetTypes, ToSet
<1>4. \A b \in ToSet(buckets') : Sound(b, now', spent'[b.ip], born'[b.ip], hint'[b.ip])
  BY <1>1, <1>3 DEF Sound, BudgetInv, Bucket
<1>5. ASSUME NEW i \in Ips PROVE spent'[i] <= Capacity + Refill * (now' - born'[i])
  <2>1. spent[i] <= Capacity + Refill * (now - born[i])
    BY BoundOf
  <2>2. born[i] \in Nat /\ spent[i] \in Nat
    BY DEF BudgetTypes
  <2>3. Refill * (now - born[i]) <= Refill * (now' - born[i])
        /\ Refill * (now - born[i]) \in Int /\ Refill * (now' - born[i]) \in Int
    BY <2>2, <1>1, Constants, Monotone
  <2> QED
    BY <2>1, <2>2, <2>3, <1>1, Constants
<1>6. \A i \in Ips : born'[i] <= now'
  BY <1>1 DEF BudgetInv, BudgetTypes
<1>7. Distinct(buckets') /\ Len(buckets') <= MaxKeys
  BY <1>1 DEF BudgetInv
<1> QED
  BY <1>2, <1>4, <1>5, <1>6, <1>7 DEF BudgetInv, PreAuthBound

\* A step that is no arrival and no tick leaves the budgets alone.
LEMMA BudgetsUnchanged ==
  ASSUME BudgetTypes, BudgetInv, UNCHANGED <<now, budgetVars>>
  PROVE  BudgetTypes' /\ BudgetInv'
  BY DEF BudgetTypes, BudgetInv, PreAuthBound, budgetVars, Distinct, ToSet

\* Every step keeps the budgets.
LEMMA BudgetsNext == BudgetTypes /\ BudgetInv /\ [Next]_vars => BudgetTypes' /\ BudgetInv'
<1> SUFFICES ASSUME BudgetTypes, BudgetInv, [Next]_vars PROVE BudgetTypes' /\ BudgetInv'
  OBVIOUS
<1>1. CASE UNCHANGED vars
  BY <1>1, BudgetsUnchanged DEF vars, budgetVars
<1>2. ASSUME NEW c \in Calls, \/ \E status \in {401, 503} : LeaseRefused(c, status)
                              \/ \E peer \in Peers : LeaseVerified(c, peer)
                              \/ LookupFails(c) \/ VaultProxyHandler(c)
                              \/ \E status \in Statuses : Answers(c, status)
                              \/ Throws(c)
      PROVE  UNCHANGED <<now, budgetVars>>
  BY <1>2 DEF LeaseRefused, LeaseVerified, LookupFails, VaultProxyHandler, Answers, Throws
<1> QED
  BY <1>1, <1>2, BudgetsUnchanged, TickKeepsBudgets, ArriveKeepsBudgets DEF Next

\* The budgets are sound at first.
LEMMA BudgetsInit == Init => BudgetTypes /\ BudgetInv
<1> SUFFICES ASSUME Init PROVE BudgetTypes /\ BudgetInv
  OBVIOUS
<1>1. BudgetTypes /\ ToSet(buckets) = {} /\ Len(buckets) = 0 /\ Distinct(buckets)
  BY Constants DEF Init, BudgetTypes, ToSet, Distinct
<1>2. \A i \in Ips : born[i] = 0 /\ spent[i] = 0
  BY DEF Init
<1>3. Refill * (0 - 0) = 0
  BY Constants
<1>4. PreAuthBound
  BY <1>2, <1>3, Constants DEF PreAuthBound, Init
<1> QED
  BY <1>1, <1>2, <1>4, Constants DEF BudgetInv, Init

-----------------------------------------------------------------------------
(***************************************************************************)
(* The window per peer and service.  The charges up to the last window's   *)
(* are before its start, and those more than a limit older are a whole     *)
(* window older: so the charge 2 * limit places later is a window later.   *)
(***************************************************************************)
Rationed(s, w, limit, t) ==
  /\ s \in Seq(0..t) /\ w \in [count : Nat, start : -1..t]
  /\ w.count <= limit /\ w.count <= Len(s)
  /\ w = None => s = <<>>
  /\ w # None => w.start >= 0
  /\ \A m, n \in DOMAIN s : m <= n => s[m] <= s[n]
  /\ \A m \in DOMAIN s : m <= Len(s) - w.count => s[m] <= w.start
  /\ \A m \in DOMAIN s : m <= Len(s) - w.count - limit => s[m] + RateWindow <= w.start
  /\ \A m \in DOMAIN s : m <= Len(s) - 2 * limit => s[m] + RateWindow <= s[m + 2 * limit]

\* A window that is over may be started anew.
LEMMA Reopened ==
  ASSUME NEW t \in Nat, NEW limit \in Nat \ {0}, NEW s, NEW w, Rationed(s, w, limit, t),
         w = None \/ t - w.start >= RateWindow
  PROVE  \/ s = <<>>
         \/ \A m \in DOMAIN s : m <= Len(s) - limit => s[m] + RateWindow <= t
<1> SUFFICES ASSUME s # <<>>, NEW m \in DOMAIN s, m <= Len(s) - limit
             PROVE  s[m] + RateWindow <= t
  OBVIOUS
<1>1. /\ s \in Seq(0..t) /\ w.count \in Nat /\ w.start \in Int /\ w.count <= limit
      /\ t - w.start >= RateWindow /\ Len(s) \in Nat
  BY DEF Rationed
<1>2. s[m] <= w.start /\ s[m] \in Nat
  BY <1>1 DEF Rationed
<1> QED
  BY <1>1, <1>2, Constants

\* A charge at t within the limit of a window that starts at a time by t.
LEMMA ChargedHolds ==
  ASSUME NEW t \in Nat, NEW limit \in Nat \ {0}, NEW s \in Seq(0..t),
         NEW count \in Nat, NEW start \in 0..t,
         count < limit, count <= Len(s),
         \A m, n \in DOMAIN s : m <= n => s[m] <= s[n],
         \A m \in DOMAIN s : m <= Len(s) - count => s[m] <= start,
         \A m \in DOMAIN s : m <= Len(s) - count - limit => s[m] + RateWindow <= start,
         \A m \in DOMAIN s : m <= Len(s) - 2 * limit => s[m] + RateWindow <= s[m + 2 * limit]
  PROVE  Rationed(Append(s, t), [count |-> count + 1, start |-> start], limit, t)
<1> DEFINE z == Append(s, t)
           w == [count |-> count + 1, start |-> start]
<1>1. /\ z \in Seq(0..t) /\ Len(z) = Len(s) + 1 /\ DOMAIN z = 1..(Len(s) + 1)
      /\ DOMAIN s = 1..Len(s) /\ Len(s) \in Nat
      /\ z[Len(s) + 1] = t /\ \A m \in DOMAIN s : z[m] = s[m] /\ s[m] \in 0..t
  OBVIOUS
<1>2. /\ w \in [count : Nat, start : -1..t] /\ w.count = count + 1 /\ w.start = start
      /\ w # None
  BY DEF None
<1> HIDE DEF z, w
<1>10. \A m \in DOMAIN z : m \in Nat /\ (m \in DOMAIN s \/ m = Len(s) + 1)
  BY <1>1
<1>3. ASSUME NEW m \in DOMAIN z, NEW n \in DOMAIN z, m <= n PROVE z[m] <= z[n]
  <2>1. CASE n = Len(s) + 1
    BY <2>1, <1>1, <1>3, <1>10
  <2>2. CASE n \in DOMAIN s
    <3>1. m \in DOMAIN s
      BY <2>2, <1>1, <1>3, <1>10
    <3> QED
      BY <3>1, <2>2, <1>1, <1>3
  <2> QED
    BY <2>1, <2>2, <1>10
<1>4. ASSUME NEW m \in DOMAIN z, m <= Len(z) - w.count PROVE z[m] <= w.start
  <2>1. m <= Len(s) - count /\ m # Len(s) + 1
    BY <1>1, <1>2, <1>4, <1>10
  <2> QED
    BY <2>1, <1>1, <1>2, <1>10
<1>5. ASSUME NEW m \in DOMAIN z, m <= Len(z) - w.count - limit PROVE z[m] + RateWindow <= w.start
  <2>1. m <= Len(s) - count - limit /\ m # Len(s) + 1
    BY <1>1, <1>2, <1>5, <1>10
  <2> QED
    BY <2>1, <1>1, <1>2, <1>10
<1>6. ASSUME NEW m \in DOMAIN z, m <= Len(z) - 2 * limit
      PROVE  z[m] + RateWindow <= z[m + 2 * limit]
  <2>1. m \in DOMAIN s /\ z[m] = s[m] /\ m \in Nat
    BY <1>1, <1>6
  <2>2. CASE m = Len(s) + 1 - 2 * limit
    <3>1. z[m + 2 * limit] = t
      BY <1>1, <2>1, <2>2
    <3>2. m <= Len(s) - count - limit
      BY <1>1, <2>2
    <3> QED
      BY <3>1, <3>2, <2>1, <1>1, Constants
  <2>3. CASE m <= Len(s) - 2 * limit
    <3>1. m + 2 * limit \in DOMAIN s
      BY <1>1, <2>1, <2>3
    <3> QED
      BY <3>1, <2>1, <2>3, <1>1
  <2> QED
    BY <2>1, <2>2, <2>3, <1>1, <1>6
<1>7. w.count <= limit /\ w.count <= Len(z)
  BY <1>1, <1>2
<1>8. (w = None => z = <<>>) /\ (w # None => w.start >= 0)
  BY <1>2
<1>9. Rationed(z, w, limit, t)
  BY <1>1, <1>2, <1>3, <1>4, <1>5, <1>6, <1>7, <1>8 DEF Rationed
<1> QED
  BY <1>9 DEF z, w

\* A set of naturals that is not empty has a least element.
LEMMA LeastOf ==
  ASSUME NEW S, S \subseteq Nat, S # {}
  PROVE  \E a \in S : \A j \in S : a <= j
<1>1. \E a \in S : \A j \in S : ~(<<j, a>> \in OpToRel(<, Nat))
  BY NatLessThanWellFounded, WFMin
<1>2. PICK a \in S : \A j \in S : ~(<<j, a>> \in OpToRel(<, Nat))
  BY <1>1
<1>3. \A j \in S : ~(j < a)
  BY <1>2 DEF OpToRel
<1> QED
  BY <1>3

\* Charges that are rationed are within any span of a window's length at most
\* twice the limit.
LEMMA SpanBound ==
  ASSUME NEW t \in Nat, NEW limit \in Nat \ {0}, NEW s, NEW w, Rationed(s, w, limit, t),
         NEW i \in DOMAIN s
  PROVE  Cardinality({j \in DOMAIN s : s[j] - s[i] \in 0..(RateWindow - 1)}) <= 2 * limit
<1> DEFINE S == {j \in DOMAIN s : s[j] - s[i] \in 0..(RateWindow - 1)}
<1>1. s \in Seq(0..t) /\ DOMAIN s = 1..Len(s) /\ Len(s) \in Nat
  BY DEF Rationed
<1>2. i \in S /\ S \subseteq Nat
  BY <1>1, Constants
<1> HIDE DEF S
<1>3. PICK a \in S : \A j \in S : a <= j
  BY <1>2, LeastOf
<1>4. ASSUME NEW j \in S PROVE j \in a..(a + 2 * limit - 1)
  <2>1. a \in Nat /\ j \in Nat /\ a <= j /\ a \in DOMAIN s /\ j \in DOMAIN s
    BY <1>2, <1>3 DEF S
  <2>2. ASSUME j >= a + 2 * limit PROVE FALSE
    <3>1. a + 2 * limit \in DOMAIN s /\ a <= Len(s) - 2 * limit
      BY <1>1, <2>1, <2>2
    <3>2. s[a] + RateWindow <= s[a + 2 * limit]
      BY <3>1, <2>1 DEF Rationed
    <3>3. s[a + 2 * limit] <= s[j]
      BY <3>1, <2>1, <2>2 DEF Rationed
    <3>4. s[a] - s[i] >= 0 /\ s[j] - s[i] <= RateWindow - 1
      BY <1>1, Constants DEF S
    <3>5. s[a] \in Nat /\ s[j] \in Nat /\ s[i] \in Nat /\ s[a + 2 * limit] \in Nat
      BY <1>1, <2>1, <3>1
    <3> QED
      BY <3>2, <3>3, <3>4, <3>5, Constants
  <2> QED
    BY <2>1, <2>2
<1>5. a \in Nat /\ S \in SUBSET (a..(a + 2 * limit - 1))
  BY <1>2, <1>3, <1>4
<1>6. a + 2 * limit - 1 \in Int /\ a <= a + 2 * limit - 1
  BY <1>5
<1>7. /\ IsFiniteSet(a..(a + 2 * limit - 1))
      /\ Cardinality(a..(a + 2 * limit - 1)) = 2 * limit
  BY <1>5, <1>6, FS_Interval
<1>8. Cardinality(S) <= 2 * limit
  BY <1>5, <1>7, FS_Subset
<1> QED
  BY <1>8 DEF S

Limit(k) == Manifest[k[2]].limit
HasLimit(k) == Declared(k[2]) /\ Limit(k) > 0

WindowTypes ==
  /\ windows \in [Keys -> [count : Nat, start : -1..now]]
  /\ charged \in [Keys -> Seq(0..now)]

WindowInv == \A k \in Keys : HasLimit(k) => Rationed(charged[k], windows[k], Limit(k), now)

\* The handler charges the one window of its call.
LEMMA HandlerKeepsWindows ==
  ASSUME CallTypes, RecordInv, WindowTypes, WindowInv, now \in Nat,
         NEW c \in Calls, VaultProxyHandler(c)
  PROVE  WindowTypes' /\ WindowInv'
<1> DEFINE key == <<calls[c].peer, calls[c].name>>
           limit == Manifest[calls[c].name].limit
           v == ConsumeRateBudget(key, limit)
<1>1. calls[c].pc = "resolve" /\ Declared(calls[c].name) /\ now' = now
  BY DEF VaultProxyHandler
<1>2. calls[c].peer \in Peers /\ calls[c].name \in Names
  BY <1>1 DEF RecordInv, CallInv, CallTypes, Call
<1>3. key \in Keys /\ key[2] = calls[c].name /\ limit = Limit(key) /\ limit \in Int
  BY <1>1, <1>2, Constants DEF Keys, Limit, Declared
<1>4. windows' = [windows EXCEPT ![key] = IF limit <= 0 THEN @
                    ELSE IF v.ok THEN [v.window EXCEPT !.count = @ + 1] ELSE v.window]
  BY DEF VaultProxyHandler
<1>5. charged' = [charged EXCEPT ![key] = IF v.ok THEN Append(@, now) ELSE @]
  BY DEF VaultProxyHandler
<1>6. /\ v.ok <=> limit <= 0 \/ v.window.count < limit
      /\ v.window = IF windows[key] = None \/ now - windows[key].start >= RateWindow
                    THEN [count |-> 0, start |-> now] ELSE windows[key]
  BY DEF ConsumeRateBudget
<1> HIDE DEF key, limit, v
<1>7. /\ windows[key] \in [count : Nat, start : -1..now]
      /\ charged[key] \in Seq(0..now)
  BY <1>3 DEF WindowTypes
<1>8. v.window \in [count : Nat, start : -1..now]
  BY <1>6, <1>7
<1>9. PICK w : w = IF limit <= 0 THEN windows[key]
                   ELSE IF v.ok THEN [v.window EXCEPT !.count = @ + 1] ELSE v.window
  OBVIOUS
<1>10. PICK s : s = IF v.ok THEN Append(charged[key], now) ELSE charged[key]
  OBVIOUS
<1>11. w \in [count : Nat, start : -1..now] /\ s \in Seq(0..now)
  <2>1. [v.window EXCEPT !.count = @ + 1] \in [count : Nat, start : -1..now]
    BY <1>8
  <2>2. now \in 0..now
    OBVIOUS
  <2>3. Append(charged[key], now) \in Seq(0..now)
    BY <2>2, <1>7
  <2>4. w \in [count : Nat, start : -1..now]
    BY <2>1, <1>7, <1>8, <1>9
  <2>5. s \in Seq(0..now)
    BY <2>3, <1>7, <1>10
  <2> QED
    BY <2>4, <2>5
<1>12. \A k \in Keys : /\ windows'[k] = IF k = key THEN w ELSE windows[k]
                       /\ charged'[k] = IF k = key THEN s ELSE charged[k]
  BY <1>3, <1>4, <1>5, <1>9, <1>10 DEF WindowTypes
<1>13. WindowTypes'
  BY <1>1, <1>3, <1>4, <1>5, <1>9, <1>10, <1>11 DEF WindowTypes
<1>14. ASSUME limit > 0 PROVE Rationed(s, w, limit, now)
  <2> DEFINE z == charged[key]
             u == windows[key]
  <2>1. HasLimit(key)
    BY <1>1, <1>3, <1>14 DEF HasLimit
  <2>2. Rationed(z, u, limit, now) /\ limit \in Nat \ {0}
    BY <2>1, <1>3, <1>14 DEF WindowInv
  <2>3. CASE u = None \/ now - u.start >= RateWindow
    <3>1. v.window = [count |-> 0, start |-> now]
      BY <2>3, <1>6
    <3>2. v.ok
      BY <3>1, <1>6, <2>2
    <3>3. w = [count |-> 0 + 1, start |-> now] /\ s = Append(z, now)
      BY <3>1, <3>2, <1>9, <1>10, <1>14, <2>2
    <3> HIDE DEF z, u
    <3>4. \/ z = <<>>
          \/ \A m \in DOMAIN z : m <= Len(z) - limit => z[m] + RateWindow <= now
      BY <2>2, <2>3, Reopened
    <3>5. z \in Seq(0..now) /\ Len(z) \in Nat /\ DOMAIN z = 1..Len(z)
      BY <2>2 DEF Rationed
    <3>6. \A m \in DOMAIN z : m <= Len(z) - 0 - limit => z[m] + RateWindow <= now
      BY <3>4, <3>5, <2>2
    <3>7. \A m \in DOMAIN z : m <= Len(z) - 0 => z[m] <= now
      BY <3>5
    <3>8. /\ \A m, n \in DOMAIN z : m <= n => z[m] <= z[n]
          /\ \A m \in DOMAIN z : m <= Len(z) - 2 * limit => z[m] + RateWindow <= z[m + 2 * limit]
      BY <2>2 DEF Rationed
    <3>9. now \in 0..now /\ 0 \in Nat /\ 0 < limit /\ 0 <= Len(z)
      BY <2>2, <3>5
    <3>10. Rationed(Append(z, now), [count |-> 0 + 1, start |-> now], limit, now)
      BY <2>2, <3>5, <3>6, <3>7, <3>8, <3>9, ChargedHolds
    <3> QED
      BY <3>3, <3>10
  <2>4. CASE ~(u = None \/ now - u.start >= RateWindow) /\ v.ok
    <3>1. v.window = u
      BY <2>4, <1>6
    <3> HIDE DEF z, u
    <3>2. u \in [count : Nat, start : -1..now]
      BY <2>2 DEF Rationed
    <3>3. w = [count |-> u.count + 1, start |-> u.start] /\ s = Append(z, now)
      BY <3>1, <3>2, <2>2, <2>4, <1>9, <1>10 DEF z, u
    <3>4. u.count < limit /\ u.count \in Nat
      BY <3>1, <3>2, <2>2, <2>4, <1>6
    <3>5. /\ z \in Seq(0..now) /\ u.count <= Len(z) /\ Len(z) \in Nat
          /\ \A m, n \in DOMAIN z : m <= n => z[m] <= z[n]
          /\ \A m \in DOMAIN z : m <= Len(z) - u.count => z[m] <= u.start
          /\ \A m \in DOMAIN z : m <= Len(z) - u.count - limit => z[m] + RateWindow <= u.start
          /\ \A m \in DOMAIN z : m <= Len(z) - 2 * limit => z[m] + RateWindow <= z[m + 2 * limit]
      BY <2>2 DEF Rationed
    <3>6. u.start \in 0..now
      BY <3>2, <2>2, <2>4 DEF Rationed
    <3> QED
      BY <3>3, <3>4, <3>5, <3>6, <2>2, ChargedHolds
  <2>5. CASE ~(u = None \/ now - u.start >= RateWindow) /\ ~v.ok
    <3>1. w = u /\ s = z
      BY <2>2, <2>5, <1>6, <1>9, <1>10
    <3> QED
      BY <3>1, <2>2
  <2> QED
    BY <2>3, <2>4, <2>5
<1>15. ASSUME NEW k \in Keys, HasLimit(k) PROVE Rationed(charged'[k], windows'[k], Limit(k), now)
  <2>1. CASE k = key
    BY <2>1, <1>3, <1>12, <1>14, <1>15 DEF HasLimit
  <2>2. CASE k # key
    BY <2>2, <1>12, <1>15 DEF WindowInv
  <2> QED
    BY <2>1, <2>2
<1> QED
  BY <1>1, <1>13, <1>15 DEF WindowInv, HasLimit, Limit, Declared

\* A sequence of times up to t is one of times up to a later one.
LEMMA Later ==
  ASSUME NEW t \in Nat, NEW s \in Seq(0..t)
  PROVE  s \in Seq(0..(t + 1))
<1>1. Len(s) \in Nat /\ s \in [1..Len(s) -> 0..t]
  OBVIOUS
<1>2. s \in [1..Len(s) -> 0..(t + 1)]
  BY <1>1
<1> QED
  BY <1>1, <1>2

\* Time leaves the windows as they are.
LEMMA TickKeepsWindows ==
  ASSUME WindowTypes, WindowInv, now \in Nat, Tick
  PROVE  WindowTypes' /\ WindowInv'
<1>1. now' = now + 1 /\ windows' = windows /\ charged' = charged
  BY DEF Tick, windowVars
<1>2. -1..now \subseteq -1..(now + 1)
  OBVIOUS
<1>3. \A k \in Keys : charged[k] \in Seq(0..(now + 1))
  BY Later DEF WindowTypes
<1>4. \A k \in Keys : windows[k] \in [count : Nat, start : -1..(now + 1)]
  BY <1>2 DEF WindowTypes
<1>5. WindowTypes'
  BY <1>1, <1>3, <1>4 DEF WindowTypes
<1>6. ASSUME NEW k \in Keys, HasLimit(k)
      PROVE  Rationed(charged[k], windows[k], Limit(k), now + 1)
  <2>1. Rationed(charged[k], windows[k], Limit(k), now)
    BY <1>6 DEF WindowInv
  <2>2. charged[k] \in Seq(0..(now + 1)) /\ windows[k] \in [count : Nat, start : -1..(now + 1)]
    BY <1>3, <1>4
  <2> QED
    BY <2>1, <2>2 DEF Rationed
<1> QED
  BY <1>1, <1>5, <1>6 DEF WindowInv, HasLimit, Limit, Declared

\* A step that is neither a tick nor the handler's leaves the windows alone.
LEMMA WindowsUnchanged ==
  ASSUME WindowTypes, WindowInv, UNCHANGED <<now, windowVars>>
  PROVE  WindowTypes' /\ WindowInv'
  BY DEF WindowTypes, WindowInv, HasLimit, Limit, Declared, windowVars

\* Every step keeps the windows.
LEMMA WindowsNext ==
  CallTypes /\ RecordInv /\ BudgetTypes /\ WindowTypes /\ WindowInv /\ [Next]_vars
    => WindowTypes' /\ WindowInv'
<1> SUFFICES ASSUME CallTypes, RecordInv, BudgetTypes, WindowTypes, WindowInv, [Next]_vars
             PROVE  WindowTypes' /\ WindowInv'
  OBVIOUS
<1>1. now \in Nat
  BY Constants DEF BudgetTypes
<1>2. CASE UNCHANGED vars
  BY <1>2, WindowsUnchanged DEF vars, windowVars
<1>3. ASSUME NEW c \in Calls, \/ \E ip \in Ips, name \in Names : Arrive(c, ip, name)
                              \/ \E status \in {401, 503} : LeaseRefused(c, status)
                              \/ \E peer \in Peers : LeaseVerified(c, peer)
                              \/ LookupFails(c)
                              \/ \E status \in Statuses : Answers(c, status)
                              \/ Throws(c)
      PROVE  UNCHANGED <<now, windowVars>>
  BY <1>3 DEF Arrive, LeaseRefused, LeaseVerified, LookupFails, Answers, Throws
<1> QED
  BY <1>1, <1>2, <1>3, WindowsUnchanged, TickKeepsWindows, HandlerKeepsWindows DEF Next

\* No window is open at first.
LEMMA WindowsInit == Init => WindowTypes /\ WindowInv
<1> SUFFICES ASSUME Init PROVE WindowTypes /\ WindowInv
  OBVIOUS
<1>1. None \in [count : Nat, start : -1..0] /\ None.count = 0
  BY DEF None
<1>2. now = 0 /\ \A k \in Keys : windows[k] = None /\ charged[k] = <<>>
  BY DEF Init
<1>3. WindowTypes
  BY <1>1, <1>2 DEF Init, WindowTypes
<1>4. ASSUME NEW k \in Keys, HasLimit(k) PROVE Rationed(<<>>, None, Limit(k), 0)
  <2>1. Limit(k) \in Nat
    BY <1>4, Constants DEF HasLimit, Limit, Declared
  <2> QED
    BY <2>1, <1>1 DEF Rationed
<1> QED
  BY <1>2, <1>3, <1>4 DEF WindowInv

-----------------------------------------------------------------------------
(***************************************************************************)
(* The theorems about the meters                                           *)
(***************************************************************************)
ProxyInv == CallTypes /\ RecordInv /\ BudgetTypes /\ BudgetInv /\ WindowTypes /\ WindowInv

\* The types of all the variables follow from those of the parts.
LEMMA ProxyTypeOK == ProxyInv => TypeOK
<1> SUFFICES ASSUME ProxyInv PROVE TypeOK
  OBVIOUS
<1>1. ASSUME NEW i \in DOMAIN buckets
      PROVE  buckets[i] \in [ip : Ips, tokens : 0..Capacity, last : 0..now]
  <2>1. buckets[i] \in Bucket /\ buckets[i] \in ToSet(buckets)
    BY DEF ProxyInv, BudgetTypes, ToSet
  <2>2. buckets[i].last <= now
    BY <2>1 DEF ProxyInv, BudgetInv, Sound
  <2> QED
    BY <2>1, <2>2 DEF Bucket, ProxyInv, BudgetTypes
<1>2. buckets \in Seq([ip : Ips, tokens : 0..Capacity, last : 0..now])
  <2>1. Len(buckets) \in Nat /\ DOMAIN buckets = 1..Len(buckets) /\ buckets \in Seq(Bucket)
    BY DEF ProxyInv, BudgetTypes
  <2> DEFINE B == [ip : Ips, tokens : 0..Capacity, last : 0..now]
  <2>2. \A i \in DOMAIN buckets : buckets[i] \in B
    BY <1>1
  <2> HIDE DEF B
  <2>3. buckets \in Seq(B)
    BY <2>1, <2>2
  <2> QED
    BY <2>3 DEF B
<1>3. born \in [Ips -> 0..now]
  <2>1. now \in Nat /\ born \in [Ips -> Nat] /\ \A i \in Ips : born[i] <= now
    BY Constants DEF ProxyInv, BudgetTypes, BudgetInv
  <2> QED
    BY <2>1
<1> QED
  BY <1>2, <1>3 DEF ProxyInv, TypeOK, CallTypes, BudgetTypes, WindowTypes

\* A hint that has come around is honoured.
LEMMA ProxyHints == ProxyInv => HintHonoured
<1> SUFFICES ASSUME ProxyInv, NEW i \in Ips, hint[i] # -1, now >= hint[i]
             PROVE  PreAuthBurstLimit(i).ok
  BY DEF HintHonoured
<1>1. BudgetTypes /\ BudgetInv /\ hint[i] \in Int /\ now \in Nat
  BY Constants DEF ProxyInv, BudgetTypes
<1>2. hint[i] <= now
  BY <1>1
<1> QED
  BY <1>1, <1>2, VerdictHolds

\* No span of a window's length has more than twice the limit.
LEMMA ProxySpans == ProxyInv => TwiceTheLimit
<1> SUFFICES ASSUME ProxyInv, NEW k \in Keys, Declared(k[2]), Manifest[k[2]].limit > 0,
                    NEW i \in DOMAIN charged[k]
             PROVE  Cardinality({j \in DOMAIN charged[k] :
                       charged[k][j] - charged[k][i] \in 0..(RateWindow - 1)}) <= 2 * Manifest[k[2]].limit
  BY DEF TwiceTheLimit
<1>1. Rationed(charged[k], windows[k], Limit(k), now) /\ now \in Nat
  BY Constants DEF ProxyInv, WindowInv, HasLimit, Limit, BudgetTypes
<1>2. Limit(k) \in Nat \ {0} /\ Limit(k) = Manifest[k[2]].limit
  BY Constants DEF Limit, Declared
<1> QED
  BY <1>1, <1>2, SpanBound

\* The invariant of the whole proxy holds.
THEOREM ProxyInvariant == Spec => []ProxyInv
<1>1. Init => ProxyInv
  BY BooksInit, BudgetsInit, WindowsInit DEF ProxyInv
<1>2. ProxyInv /\ [Next]_vars => ProxyInv'
  BY BooksNext, BudgetsNext, WindowsNext DEF ProxyInv
<1> QED
  BY <1>1, <1>2, PTL DEF Spec

(***************************************************************************)
(* Both meters hold, whatever the limits: the map of budgets has one       *)
(* bucket per address and stays within its cap, no address is served more  *)
(* than its bucket was worth, whoever comes back when a refusal told it to *)
(* is served, also after an eviction, and no span of a window's length     *)
(* lets through more than twice a service's limit.                         *)
(***************************************************************************)
THEOREM ProxyMetered == Spec => []Metered
<1>1. ProxyInv => BucketsBounded /\ PreAuthBound
  BY DEF ProxyInv, BudgetInv, BucketsBounded, Distinct
<1>2. ProxyInv => Metered
  BY <1>1, ProxyTypeOK, ProxyHints, ProxySpans DEF Metered
<1> QED
  BY <1>2, ProxyInvariant, PTL

-----------------------------------------------------------------------------
(***************************************************************************)
(* Launches.  What holds of the shared files and processes at every        *)
(* moment, and what is more of a launch that nobody interferes with while  *)
(* it starts.                                                              *)
(***************************************************************************)

Starting == {"skills", "write", "mint", "vars", "ports", "companions", "health"}

\* The plans that can be resolved.
Plans == {ResolvePlan(q) : q \in {x \in UNION {Requests[r] : r \in Runs} : Admissible(x)}}

HTypes ==
    /\ pc \in [Runs -> Idle \cup Starting \cup {"running"}]
    /\ plan \in [Runs -> Plans \cup {NoPlan}]
    /\ \A r \in Runs : pc[r] \notin {"idle", "refused"} => plan[r] \in Plans
    /\ cert \in [Runs -> Nat] /\ at \in [Runs -> SUBSET Startable]
    /\ due \subseteq Runs /\ alone \subseteq Runs

\* A file is of a run that has begun and is not torn down, and a policy is of a
\* confined one.
FileOK(f) ==
    /\ f.name \in {"vars", "confinement", "policy"} /\ f.doc.by \in Runs /\ f.doc.roots \in Nat
    /\ pc[f.doc.by] \notin {"idle", "refused", "skills", "ended"}
    /\ f.name = "policy" => plan[f.doc.by].sandbox

\* A process is of a run that has come as far as to start it, and is on a port
\* of its kind, or on none yet.
ProcOK(p) ==
    /\ p.run \in Runs /\ p.port \in Nat
    /\ p.kind = "router" => /\ pc[p.run] \in {"health", "running", "failed", "killed"}
                            /\ p.port \in {0} \cup 8787..8792
    /\ p.kind = "shim" => /\ pc[p.run] \in {"running", "killed"} /\ p.port \in {0, ShimPort}
                          /\ p.doc.mode = plan[p.run].mode
    /\ p.kind = "confined" => /\ pc[p.run] \in {"running", "killed"} /\ p.port = 0
                              /\ p.doc # NoDoc => p.doc.roots = p.doc.cert
    /\ p.kind \notin {"router", "shim", "confined"} =>
          /\ pc[p.run] \in {"companions", "health", "running", "failed", "killed"}
          /\ \E c \in at[p.run] : c.service = p.kind
          /\ p.port = 0 \/ p.port >= 8810

\* No two processes of a kind in a run, no two on a port.
Apart ==
    /\ \A p, q \in procs : p.run = q.run /\ p.kind = q.kind => p = q
    /\ \A p, q \in procs : p.port = q.port /\ p.port # 0 => p = q

\* A launch that is alone, while it starts: the others have come to rest with
\* every process bound, .dev.vars is its own from the check of the ports on, and
\* the router's port is nobody else's after it.
StartsAlone(r) ==
    pc[r] \in Starting =>
        /\ \A s \in Runs : s # r => pc[s] \in Idle
        /\ \A p \in procs : p.run # r => p.port # 0
        /\ pc[r] \in {"ports", "companions", "health"} =>
              /\ \E f \in files : f.name = "vars"
              /\ \A f \in files : f.name = "vars" => f.doc = Doc(r)
        /\ pc[r] \in {"companions", "health"} => \A p \in procs : p.port = RouterPort => p.run = r
        /\ pc[r] = "health" =>
              \A p \in procs : p.run = r /\ p.kind = "router" /\ p.port # 0 => p.doc.mode = plan[r].mode

\* Once it runs: while its router is up no other launch gets past the check of
\* the ports, so that the policy is its own until its harness has read it.
RunsAlone(r) ==
    pc[r] = "running" =>
        /\ r \in due \/ Up(r, "router") # {}
        /\ \A w \in Up(r, "router") :
              /\ w.port = RouterPort /\ w.doc.mode = plan[r].mode
              /\ \A s \in Runs : s # r => pc[s] \notin {"companions", "health", "running"}
              /\ plan[r].sandbox => \A f \in files : f.name = "policy" => f.doc = Doc(r)
              /\ \A h \in Up(r, "confined") : plan[r].sandbox /\ (h.doc # NoDoc => h.doc.strip = plan[r].strip)

FilesInv == \A f \in files : FileOK(f)
ProcsInv == (\A p \in procs : ProcOK(p)) /\ Apart
AloneInv == \A r \in alone : StartsAlone(r) /\ RunsAlone(r)
HInv == HTypes /\ FilesInv /\ ProcsInv /\ AloneInv

\* Every service has one companion, and its ports are beyond those of the
\* router and the shim.
LEMMA CompanionFacts ==
    /\ \A c \in CompanionWorkers : c.service \notin {"router", "shim", "confined"} /\ c.port \in Nat /\ c.port >= 8810
    /\ \A c, d \in CompanionWorkers : c.service = d.service => c = d
<1>1. Bindings \in Seq([binding : STRING, service : STRING])
  BY HarnessAssumption
<1>2. FirstOfService \subseteq 1..Len(Bindings) /\ Len(Bindings) \in Nat
  BY <1>1 DEF FirstOfService
<1>3. ASSUME NEW i \in FirstOfService
      PROVE  /\ Cardinality({j \in FirstOfService : j <= i}) \in Nat \ {0}
             /\ Bindings[i].service \notin {"router", "shim", "confined"}
  <2>1. PICK S : S = {j \in FirstOfService : j <= i}
    OBVIOUS
  <2>2. IsFiniteSet(1..Len(Bindings)) /\ S \subseteq 1..Len(Bindings)
    <3>1. PICK a, b : a = 1 /\ b = Len(Bindings)
      OBVIOUS
    <3>2. a \in Int /\ b \in Int
      BY <1>2, <3>1
    <3>3. IsFiniteSet(a..b)
      BY <3>2, FS_Interval
    <3> QED
      BY <1>2, <2>1, <3>1, <3>3
  <2>3. IsFiniteSet(S)
    BY <2>2, FS_Subset
  <2>4. i \in S
    BY <1>2, <2>1
  <2>5. Cardinality(S) \in Nat /\ Cardinality(S) # 0
    BY <2>3, <2>4, FS_CardinalityType, FS_EmptySet
  <2>6. Bindings[i].service \notin {"router", "shim", "confined"}
    BY <1>2, HarnessAssumption
  <2> QED
    BY <2>1, <2>5, <2>6
<1>4. ASSUME NEW i \in FirstOfService, NEW j \in FirstOfService, Bindings[i].service = Bindings[j].service
      PROVE  i = j
  <2>1. i \in 1..Len(Bindings) /\ j \in 1..Len(Bindings)
    BY <1>2
  <2>2. ~(i < j)
    BY <1>2, <1>4, <2>1 DEF FirstOfService
  <2>3. ~(j < i)
    BY <1>2, <1>4, <2>1 DEF FirstOfService
  <2> QED
    BY <1>2, <2>1, <2>2, <2>3
<1>5. ASSUME NEW c \in CompanionWorkers
      PROVE  \E i \in FirstOfService : /\ c = [service |-> Bindings[i].service,
                                              port |-> 8809 + Cardinality({j \in FirstOfService : j <= i})]
  BY DEF CompanionWorkers
<1>6. ASSUME NEW c \in CompanionWorkers
      PROVE  c.service \notin {"router", "shim", "confined"} /\ c.port \in Nat /\ c.port >= 8810
  <2>1. PICK i \in FirstOfService : c = [service |-> Bindings[i].service,
                                        port |-> 8809 + Cardinality({j \in FirstOfService : j <= i})]
    BY <1>5
  <2>2. PICK n \in Nat \ {0} : n = Cardinality({j \in FirstOfService : j <= i})
    BY <1>3
  <2>3. c.port = 8809 + n /\ c.service = Bindings[i].service
    BY <2>1, <2>2
  <2>4. Bindings[i].service \notin {"router", "shim", "confined"}
    BY <1>3
  <2>5. 8809 + n \in Nat /\ 8809 + n >= 8810
    BY <2>2
  <2> QED
    BY <2>3, <2>4, <2>5
<1>7. ASSUME NEW c \in CompanionWorkers, NEW d \in CompanionWorkers, c.service = d.service
      PROVE  c = d
  <2>1. PICK i \in FirstOfService : c = [service |-> Bindings[i].service,
                                        port |-> 8809 + Cardinality({j \in FirstOfService : j <= i})]
    BY <1>5
  <2>2. PICK k \in FirstOfService : d = [service |-> Bindings[k].service,
                                        port |-> 8809 + Cardinality({j \in FirstOfService : j <= k})]
    BY <1>5
  <2>3. i = k
    BY <1>4, <1>7, <2>1, <2>2
  <2> QED
    BY <2>1, <2>2, <2>3
<1> QED
  BY <1>6, <1>7

LEMMA HomeFacts ==
    /\ Home("router") = 8787
    /\ \A c \in CompanionWorkers : Home(c.service) = c.port
<1>1. ASSUME NEW c \in CompanionWorkers PROVE Home(c.service) = c.port
  <2>1. c.service \notin {"router", "shim"}
    BY CompanionFacts
  <2>2. Home(c.service) = (CHOOSE d \in CompanionWorkers : d.service = c.service).port
    BY <2>1 DEF Home
  <2>3. (CHOOSE d \in CompanionWorkers : d.service = c.service) = c
    BY CompanionFacts
  <2> QED
    BY <2>2, <2>3
<1> QED
  BY <1>1 DEF Home, RouterPort

\* What a plan says.
LEMMA PlanHas ==
    ASSUME NEW p \in Plans
    PROVE  /\ p.sandbox \in BOOLEAN /\ p.setupOnly \in BOOLEAN /\ p.roots \in Nat
           /\ p.strip = EnvStripFor(Targets[p.target], p.mode)
<1>0. PICK r \in Runs : \E q \in Requests[r] : p = ResolvePlan(q)
  BY DEF Plans
<1>1. PICK q \in Requests[r] : p = ResolvePlan(q)
  BY <1>0
<1>2. q.sandbox \in BOOLEAN /\ q.setupOnly \in BOOLEAN /\ Len(q.workdirs) \in Nat
  BY <1>1, HarnessAssumption
<1>3. PICK t, m : t = Targets[q.target] /\ m = ResolveAuth(t, q)
  OBVIOUS
<1>4. p = [target |-> q.target, mode |-> m,
           roots |-> IF q.sandbox THEN Len(q.workdirs) ELSE 1, sandbox |-> q.sandbox,
           setupOnly |-> q.setupOnly, strip |-> EnvStripFor(t, m),
           door |-> q.door, skills |-> q.skills, injection |-> Services[t.service], safe |-> q.safe]
  BY <1>1, <1>3 DEF ResolvePlan, ConfinementManifest
<1> QED
  BY <1>2, <1>3, <1>4

LEMMA HInvInit == HInit => HInv
BY DEF HInit, HInv, HTypes, FilesInv, ProcsInv, Apart, AloneInv, Idle

-----------------------------------------------------------------------------
(* How a run goes on, and what that leaves as it is. *)

Onward(s) ==
    /\ \/ pc'[s] = pc[s]
       \/ pc[s] \in {"idle", "skills"}
       \/ /\ pc[s] \in {"write", "mint", "vars", "ports"}
          /\ pc'[s] \in {"mint", "vars", "ports", "companions", "busy", "failed", "setup", "killed"}
       \/ pc[s] = "companions" /\ pc'[s] \in {"health", "failed", "killed"}
       \/ pc[s] = "health" /\ pc'[s] \in {"running", "failed", "killed"}
       \/ pc[s] = "running" /\ pc'[s] = "killed"
    /\ pc[s] # "idle" => plan'[s] = plan[s]
    /\ at[s] \subseteq at'[s]

LEMMA FilesOn ==
    ASSUME FilesInv, \A s \in Runs : Onward(s)
    PROVE  \A f \in files : FileOK(f)'
<1> SUFFICES ASSUME NEW f \in files PROVE FileOK(f)'
  OBVIOUS
<1>1. PICK s : s = f.doc.by
  OBVIOUS
<1>2. s \in Runs /\ pc[s] \notin {"idle", "refused", "skills", "ended"} /\ FileOK(f) /\ Onward(s)
  BY <1>1 DEF FilesInv, FileOK
<1>3. pc'[s] \notin {"idle", "refused", "skills", "ended"} /\ plan'[s] = plan[s]
  BY <1>2 DEF Onward
<1> QED
  BY <1>1, <1>2, <1>3 DEF FileOK

LEMMA ProcsOn ==
    ASSUME ProcsInv, \A s \in Runs : Onward(s)
    PROVE  \A p \in procs : ProcOK(p)'
<1> SUFFICES ASSUME NEW p \in procs PROVE ProcOK(p)'
  OBVIOUS
<1>1. PICK s : s = p.run
  OBVIOUS
<1>2. s \in Runs /\ ProcOK(p) /\ Onward(s)
  BY <1>1 DEF ProcsInv, ProcOK
<1>3. pc[s] \in {"companions", "health", "running", "failed", "killed"} /\ plan'[s] = plan[s]
  BY <1>1, <1>2 DEF ProcOK, Onward
<1>4. /\ pc[s] \in {"health", "running", "failed", "killed"} => pc'[s] \in {"health", "running", "failed", "killed"}
      /\ pc[s] \in {"running", "killed"} => pc'[s] \in {"running", "killed"}
      /\ pc'[s] \in {"companions", "health", "running", "failed", "killed"}
  BY <1>2, <1>3 DEF Onward
<1>5. \A k : (\E c \in at[s] : c.service = k) => \E c \in at'[s] : c.service = k
  BY <1>2 DEF Onward
<1> QED
  BY <1>1, <1>2, <1>3, <1>4, <1>5 DEF ProcOK

LEMMA FewerApart ==
    ASSUME Apart, procs' \subseteq procs
    PROVE  Apart'
BY DEF Apart

LEMMA OneMoreApart ==
    ASSUME Apart, NEW n, procs' = procs \cup {n}, n.port = 0,
           \A p \in procs : ~(p.run = n.run /\ p.kind = n.kind)
    PROVE  Apart'
BY DEF Apart

LEMMA MovedApart ==
    ASSUME Apart, NEW p \in procs, NEW n, NEW d, procs' = Moved(p, n, d), n = 0 \/ n \notin Ports
    PROVE  Apart'
<1>1. PICK m : m = [run |-> p.run, kind |-> p.kind, port |-> n, doc |-> d]
  OBVIOUS
<1>2. m.run = p.run /\ m.kind = p.kind /\ m.port = n /\ procs' = (procs \ {p}) \cup {m}
  BY <1>1 DEF Moved
<1>3. \A q \in procs : q.port # 0 => q.port \in Ports
  BY DEF Ports
<1> QED
  BY <1>2, <1>3 DEF Apart

\* What Goes does to pc.
LEMMA GoesTo ==
    ASSUME HTypes, NEW r \in Runs, NEW w \in Idle \cup Starting \cup {"running"}, Goes(r, w)
    PROVE  /\ pc' \in [Runs -> Idle \cup Starting \cup {"running"}]
           /\ pc'[r] = w /\ \A s \in Runs : s # r => pc'[s] = pc[s]
BY DEF HTypes, Goes

\* The parts of the invariant that say nothing of being alone.
BaseHInv == HTypes /\ FilesInv /\ ProcsInv

\* A step that starts, moves and writes nothing.
LEMMA QuietStep ==
    ASSUME BaseHInv, \A s \in Runs : Onward(s), HTypes', files' \subseteq files, procs' \subseteq procs
    PROVE  BaseHInv'
<1>1. FilesInv'
  BY FilesOn DEF BaseHInv, FilesInv
<1>2. ProcsInv'
  BY ProcsOn, FewerApart DEF BaseHInv, ProcsInv
<1> QED
  BY <1>1, <1>2 DEF BaseHInv

\* A step that writes a file.
LEMMA WriteStep ==
    ASSUME BaseHInv, \A s \in Runs : Onward(s), HTypes', NEW f,
           files' \subseteq files \cup {f}, FileOK(f)', procs' = procs
    PROVE  BaseHInv'
<1>1. FilesInv'
  BY FilesOn DEF BaseHInv, FilesInv
<1>2. ProcsInv'
  BY ProcsOn, FewerApart DEF BaseHInv, ProcsInv
<1> QED
  BY <1>1, <1>2 DEF BaseHInv

-----------------------------------------------------------------------------
(* The actions, one by one. *)

\* Where only pc moves.
LEMMA PcStep ==
    ASSUME BaseHInv, NEW r \in Runs, NEW w \in Idle \cup Starting \cup {"running"}, Goes(r, w),
           \/ pc[r] = "skills" /\ w \in {"write", "refused"}
           \/ /\ pc[r] \in {"write", "mint", "vars", "ports"}
              /\ w \in {"mint", "vars", "ports", "companions", "busy", "failed", "setup", "killed"}
           \/ pc[r] = "companions" /\ w \in {"health", "failed", "killed"}
           \/ pc[r] = "health" /\ w \in {"running", "failed", "killed"}
           \/ pc[r] = "running" /\ w = "killed",
           UNCHANGED <<plan, at>>, cert' \in [Runs -> Nat], due' \subseteq Runs, alone' \subseteq Runs
    PROVE  HTypes' /\ \A s \in Runs : Onward(s)
<1>1. HTypes
  BY DEF BaseHInv
<1>2. /\ pc' \in [Runs -> Idle \cup Starting \cup {"running"}]
      /\ pc'[r] = w /\ \A s \in Runs : s # r => pc'[s] = pc[s]
  BY <1>1, GoesTo
<1>3. HTypes'
  BY <1>1, <1>2 DEF HTypes
<1>4. \A s \in Runs : Onward(s)
  BY <1>2 DEF Onward
<1> QED
  BY <1>3, <1>4

LEMMA BeginBase ==
    ASSUME BaseHInv, NEW r \in Runs, Begin(r)
    PROVE  BaseHInv'
<1>1. HTypes /\ pc[r] = "idle" /\ UNCHANGED <<cert, at, files, procs, due>>
  BY DEF BaseHInv, Begin
<1>2. PICK q \in Requests[r] :
        IF Admissible(q)
        THEN /\ plan' = [plan EXCEPT ![r] = ResolvePlan(q)]
             /\ Goes(r, IF q.sandbox THEN "skills" ELSE "write")
             /\ alone' \subseteq alone \cup {r}
        ELSE Goes(r, "refused") /\ UNCHANGED <<plan, alone>>
  BY DEF Begin
<1>3. PICK w : w = (IF Admissible(q) THEN IF q.sandbox THEN "skills" ELSE "write" ELSE "refused")
  OBVIOUS
<1>4. Goes(r, w) /\ w \in Idle \cup Starting \cup {"running"} /\ w \in {"skills", "write", "refused"}
  BY <1>2, <1>3 DEF Idle, Starting
<1>5. /\ pc' \in [Runs -> Idle \cup Starting \cup {"running"}]
      /\ pc'[r] = w /\ \A s \in Runs : s # r => pc'[s] = pc[s]
  BY <1>1, <1>4, GoesTo
<1>6. Admissible(q) => ResolvePlan(q) \in Plans
  BY DEF Plans
<1>7. /\ plan' \in [Runs -> Plans \cup {NoPlan}] /\ \A s \in Runs : s # r => plan'[s] = plan[s]
      /\ w # "refused" => plan'[r] \in Plans
  BY <1>1, <1>2, <1>3, <1>6 DEF HTypes
<1>8. alone' \subseteq Runs
  BY <1>1, <1>2 DEF HTypes
<1>9. HTypes'
  BY <1>1, <1>4, <1>5, <1>7, <1>8 DEF HTypes
<1>10. \A s \in Runs : Onward(s)
  BY <1>1, <1>5, <1>7 DEF Onward
<1> QED
  BY <1>1, <1>9, <1>10, QuietStep

LEMMA VerifySkillsBase ==
    ASSUME BaseHInv, NEW r \in Runs, VerifySkills(r)
    PROVE  BaseHInv'
<1>1. PICK w : w = (IF SkillsPass(plan[r].skills) THEN "write" ELSE "refused")
  OBVIOUS
<1>2. w \in {"write", "refused"} /\ w \in Idle \cup Starting \cup {"running"}
  BY <1>1 DEF Idle, Starting
<1>3. Goes(r, w) /\ pc[r] = "skills" /\ UNCHANGED <<plan, cert, at, files, procs, due, alone>>
  BY <1>1 DEF VerifySkills
<1>4. cert' \in [Runs -> Nat] /\ due' \subseteq Runs /\ alone' \subseteq Runs
  BY <1>3 DEF BaseHInv, HTypes
<1>5. HTypes' /\ \A s \in Runs : Onward(s)
  BY <1>2, <1>3, <1>4, PcStep
<1> QED
  BY <1>3, <1>5, QuietStep

\* The fields of a document.
LEMMA DocHas ==
    ASSUME NEW r
    PROVE  Doc(r).by = r /\ Doc(r).mode = plan[r].mode /\ Doc(r).roots = plan[r].roots /\ Doc(r).cert = cert[r]
           /\ Doc(r).strip = plan[r].strip
BY DEF Doc

\* The document of a run that has begun, as a file.
LEMMA DocOK ==
    ASSUME HTypes, NEW r \in Runs, NEW name \in {"vars", "confinement", "policy"},
           pc'[r] \notin {"idle", "refused", "skills", "ended"}, plan' = plan, pc[r] \notin {"idle", "refused"},
           name = "policy" => plan[r].sandbox,
           NEW f, f = [name |-> name, doc |-> Doc(r)]
    PROVE  FileOK(f)'
<1>1. PICK d : d = Doc(r)
  OBVIOUS
<1>2. d.by = r /\ d.roots = plan[r].roots
  BY <1>1, DocHas
<1>3. plan[r].roots \in Nat
  BY PlanHas DEF HTypes
<1>4. f.name = name /\ f.doc = d
  BY <1>1
<1> QED
  BY <1>2, <1>3, <1>4 DEF FileOK

LEMMA WriteConfinementBase ==
    ASSUME BaseHInv, NEW r \in Runs, WriteConfinement(r)
    PROVE  BaseHInv'
<1>1. /\ Goes(r, "mint") /\ pc[r] = "write" /\ UNCHANGED <<plan, cert, at, procs, due, alone>> /\ HTypes
      /\ "mint" \in Idle \cup Starting \cup {"running"}
  BY DEF WriteConfinement, BaseHInv, Starting
<1>2. cert' \in [Runs -> Nat] /\ due' \subseteq Runs /\ alone' \subseteq Runs
  BY <1>1 DEF HTypes
<1>3. HTypes' /\ \A s \in Runs : Onward(s)
  BY <1>1, <1>2, PcStep
<1>4. PICK f : f = [name |-> "confinement", doc |-> Doc(r)]
  OBVIOUS
<1>5. pc'[r] = "mint"
  BY <1>1, GoesTo
<1>6. FileOK(f)'
  BY <1>1, <1>4, <1>5, DocOK
<1>7. files' \subseteq files \cup {f}
  BY <1>4 DEF WriteConfinement, Written
<1> QED
  BY <1>1, <1>3, <1>6, <1>7, WriteStep

LEMMA MintBase ==
    ASSUME BaseHInv, NEW r \in Runs, Mint(r)
    PROVE  BaseHInv'
<1>1. PICK w \in {"vars", "failed"} : Goes(r, w)
  BY DEF Mint
<1>2. pc[r] = "mint" /\ UNCHANGED <<plan, at, files, procs, due, alone>> /\ HTypes /\ w \in Idle \cup Starting \cup {"running"}
  BY DEF Mint, BaseHInv, Starting, Idle
<1>3. \A d \in Of("confinement") : d.roots \in Nat
  BY DEF Of, BaseHInv, FilesInv, FileOK
<1>4. cert' \in [Runs -> Nat]
  BY <1>2, <1>3 DEF Mint, HTypes
<1>5. due' \subseteq Runs /\ alone' \subseteq Runs
  BY <1>2 DEF HTypes
<1>6. HTypes' /\ \A s \in Runs : Onward(s)
  BY <1>1, <1>2, <1>4, <1>5, PcStep
<1> QED
  BY <1>2, <1>6, QuietStep

LEMMA WriteDevVarsBase ==
    ASSUME BaseHInv, NEW r \in Runs, WriteDevVars(r)
    PROVE  BaseHInv'
<1>1. PICK f : f = [name |-> "vars", doc |-> Doc(r)]
  OBVIOUS
<1>2. pc[r] = "vars" /\ UNCHANGED <<plan, cert, at, procs, due, alone>> /\ HTypes
  BY DEF WriteDevVars, BaseHInv
<1>3. PICK w \in {"failed", "setup", "ports"} : Goes(r, w) /\ files' \subseteq files \cup {f}
  BY <1>1 DEF WriteDevVars, Written
<1>4. w \in Idle \cup Starting \cup {"running"}
  BY DEF Idle, Starting
<1>5. cert' \in [Runs -> Nat] /\ due' \subseteq Runs /\ alone' \subseteq Runs
  BY <1>2 DEF HTypes
<1>6. HTypes' /\ \A s \in Runs : Onward(s)
  BY <1>2, <1>3, <1>4, <1>5, PcStep
<1>7. pc'[r] = w
  BY <1>2, <1>3, <1>4, GoesTo
<1>8. FileOK(f)'
  BY <1>1, <1>2, <1>7, DocOK
<1> QED
  BY <1>2, <1>3, <1>6, <1>8, WriteStep

LEMMA AssertPortsFreeBase ==
    ASSUME BaseHInv, NEW r \in Runs, AssertPortsFree(r)
    PROVE  BaseHInv'
<1>1. PICK w \in {"companions", "busy"} : Goes(r, w)
  BY DEF AssertPortsFree
<1>2. /\ pc[r] = "ports" /\ UNCHANGED <<plan, cert, at, files, procs, due, alone>> /\ HTypes
      /\ w \in Idle \cup Starting \cup {"running"}
  BY DEF AssertPortsFree, BaseHInv, Starting, Idle
<1>3. cert' \in [Runs -> Nat] /\ due' \subseteq Runs /\ alone' \subseteq Runs
  BY <1>2 DEF HTypes
<1>4. HTypes' /\ \A s \in Runs : Onward(s)
  BY <1>1, <1>2, <1>3, PcStep
<1> QED
  BY <1>2, <1>4, QuietStep

LEMMA HealthTimeoutBase ==
    ASSUME BaseHInv, NEW r \in Runs, HealthTimeout(r)
    PROVE  BaseHInv'
<1>1. /\ Goes(r, "failed") /\ pc[r] = "health" /\ UNCHANGED <<plan, cert, at, files, procs, due, alone>> /\ HTypes
      /\ "failed" \in Idle \cup Starting \cup {"running"}
  BY DEF HealthTimeout, BaseHInv, Idle
<1>2. cert' \in [Runs -> Nat] /\ due' \subseteq Runs /\ alone' \subseteq Runs
  BY <1>1 DEF HTypes
<1>3. HTypes' /\ \A s \in Runs : Onward(s)
  BY <1>1, <1>2, PcStep
<1> QED
  BY <1>1, <1>3, QuietStep

\* The fields of a process that is started.
LEMMA ProcessHas ==
    ASSUME NEW r, NEW k, NEW d, NEW p, p = Process(r, k, d)
    PROVE  p.run = r /\ p.kind = k /\ p.port = 0 /\ p.doc = d
BY DEF Process

\* A step that starts a process.
LEMMA StartStep ==
    ASSUME BaseHInv, \A s \in Runs : Onward(s), HTypes', FilesInv', NEW n, procs' = procs \cup {n},
           ProcOK(n)', n.port = 0, \A p \in procs : ~(p.run = n.run /\ p.kind = n.kind)
    PROVE  BaseHInv'
<1>1. \A p \in procs : ProcOK(p)'
  BY ProcsOn DEF BaseHInv
<1>2. Apart'
  BY OneMoreApart DEF BaseHInv, ProcsInv
<1> QED
  BY <1>1, <1>2 DEF BaseHInv, ProcsInv

LEMMA StartCompanionBase ==
    ASSUME BaseHInv, NEW r \in Runs, StartCompanion(r)
    PROVE  BaseHInv'
<1>1. PICK c \in Startable \ at[r] : procs' = procs \cup {Process(r, c.service, NoDoc)} /\ at' = [at EXCEPT ![r] = @ \cup {c}]
  BY DEF StartCompanion
<1>2. HTypes /\ pc[r] = "companions" /\ UNCHANGED <<pc, plan, cert, files, due, alone>>
  BY DEF BaseHInv, StartCompanion
<1>3. at' \in [Runs -> SUBSET Startable] /\ at'[r] = at[r] \cup {c} /\ \A s \in Runs : at[s] \subseteq at'[s]
  BY <1>1, <1>2 DEF HTypes
<1>4. HTypes' /\ \A s \in Runs : Onward(s)
  BY <1>2, <1>3 DEF HTypes, Onward
<1>5. FilesInv'
  BY <1>2, <1>4, FilesOn DEF BaseHInv, FilesInv
<1>6. PICK n : n = Process(r, c.service, NoDoc)
  OBVIOUS
<1>7. n.run = r /\ n.kind = c.service /\ n.port = 0 /\ n.doc = NoDoc
  BY <1>6, ProcessHas
<1>8. c.service \notin {"router", "shim", "confined"} /\ \A d \in Startable : d.service = c.service => d = c
  BY CompanionFacts DEF Startable
<1>9. ProcOK(n)'
  BY <1>2, <1>3, <1>7, <1>8 DEF ProcOK
<1>10. ASSUME NEW p \in procs, p.run = n.run, p.kind = n.kind PROVE FALSE
  <2>1. \E d \in at[r] : d.service = c.service
    BY <1>7, <1>8, <1>10 DEF BaseHInv, ProcsInv, ProcOK
  <2>2. at[r] \subseteq Startable
    BY <1>2 DEF HTypes
  <2> QED
    BY <1>1, <1>8, <2>1, <2>2
<1> QED
  BY <1>1, <1>4, <1>5, <1>6, <1>7, <1>9, <1>10, StartStep

LEMMA StartLocalRouterBase ==
    ASSUME BaseHInv, NEW r \in Runs, StartLocalRouter(r)
    PROVE  BaseHInv'
<1>1. HTypes /\ pc[r] = "companions" /\ UNCHANGED <<plan, cert, at, files, due, alone>>
  BY DEF BaseHInv, StartLocalRouter
<1>2. cert' \in [Runs -> Nat] /\ due' \subseteq Runs /\ alone' \subseteq Runs
  BY <1>1 DEF HTypes
<1>3. PICK w \in {"health", "failed"} :
        Goes(r, w) /\ (IF w = "health" THEN procs' = procs \cup {Process(r, "router", NoDoc)} ELSE procs' = procs)
  BY DEF StartLocalRouter
<1>4. w \in Idle \cup Starting \cup {"running"}
  BY DEF Idle, Starting
<1>5. HTypes' /\ \A s \in Runs : Onward(s)
  BY <1>1, <1>2, <1>3, <1>4, PcStep
<1>6. CASE w = "failed"
  BY <1>1, <1>3, <1>5, <1>6, QuietStep
<1>7. CASE w = "health"
  <2>1. PICK n : n = Process(r, "router", NoDoc)
    OBVIOUS
  <2>2. n.run = r /\ n.kind = "router" /\ n.port = 0 /\ n.doc = NoDoc
    BY <2>1, ProcessHas
  <2>3. pc'[r] = "health"
    BY <1>1, <1>3, <1>4, <1>7, GoesTo
  <2>4. ProcOK(n)'
    BY <2>2, <2>3 DEF ProcOK
  <2>5. \A p \in procs : ~(p.run = n.run /\ p.kind = n.kind)
    BY <1>1, <2>2 DEF BaseHInv, ProcsInv, ProcOK
  <2>6. FilesInv'
    BY <1>1, <1>5, FilesOn DEF BaseHInv, FilesInv
  <2> QED
    BY <1>3, <1>5, <1>7, <2>1, <2>2, <2>4, <2>5, <2>6, StartStep
<1> QED
  BY <1>6, <1>7

LEMMA LaunchSessionBase ==
    ASSUME BaseHInv, NEW r \in Runs, LaunchSession(r)
    PROVE  BaseHInv'
<1>1. /\ HTypes /\ pc[r] = "health" /\ UNCHANGED <<plan, cert, at, due, alone>> /\ Goes(r, "running")
      /\ "running" \in Idle \cup Starting \cup {"running"}
  BY DEF BaseHInv, LaunchSession
<1>2. cert' \in [Runs -> Nat] /\ due' \subseteq Runs /\ alone' \subseteq Runs
  BY <1>1 DEF HTypes
<1>3. HTypes' /\ \A s \in Runs : Onward(s)
  BY <1>1, <1>2, PcStep
<1>4. pc'[r] = "running"
  BY <1>1, GoesTo
<1>5. plan[r].sandbox \in BOOLEAN
  BY <1>1, PlanHas DEF HTypes
<1>6. PICK f : f = [name |-> "policy", doc |-> Doc(r)]
  OBVIOUS
<1>7. files' \subseteq files \/ (plan[r].sandbox /\ files' \subseteq files \cup {f})
  BY <1>5, <1>6 DEF LaunchSession, Written
<1>8. plan[r].sandbox => FileOK(f)'
  BY <1>1, <1>4, <1>6, DocOK
<1>9. FilesInv'
  BY <1>3, <1>7, <1>8, FilesOn DEF BaseHInv, FilesInv
<1>10. PICK a, b : a = Process(r, "shim", Doc(r)) /\ b = Process(r, "confined", NoDoc)
  OBVIOUS
<1>11. /\ a.run = r /\ a.kind = "shim" /\ a.port = 0 /\ a.doc.mode = plan[r].mode
       /\ b.run = r /\ b.kind = "confined" /\ b.port = 0 /\ b.doc = NoDoc
  BY <1>10, ProcessHas, DocHas
<1>12. ProcOK(a)' /\ ProcOK(b)'
  BY <1>1, <1>4, <1>11 DEF ProcOK
<1>13. \A p \in procs : p.run = r => p.kind \notin {"shim", "confined"}
  BY <1>1 DEF BaseHInv, ProcsInv, ProcOK
<1>14. procs' \subseteq procs \cup {a, b}
  BY <1>10 DEF LaunchSession
<1>15. Apart'
  BY <1>11, <1>13, <1>14 DEF BaseHInv, ProcsInv, Apart
<1>16. ProcsInv'
  BY <1>3, <1>12, <1>14, <1>15, ProcsOn DEF BaseHInv, ProcsInv
<1> QED
  BY <1>3, <1>9, <1>16 DEF BaseHInv

\* A step of a process: the runs stay where they are.
LEMMA StillOn ==
    ASSUME BaseHInv, UNCHANGED <<pc, plan, cert, at, files, alone>>, due' \subseteq Runs
    PROVE  HTypes' /\ FilesInv' /\ (\A s \in Runs : Onward(s)) /\ \A p \in procs : ProcOK(p)'
<1>1. \A s \in Runs : Onward(s)
  BY DEF Onward
<1> QED
  BY <1>1, FilesOn, ProcsOn DEF BaseHInv, HTypes, FilesInv

LEMMA ExitBase ==
    ASSUME BaseHInv, NEW p \in procs, Exit(p)
    PROVE  BaseHInv'
<1>1. procs' = procs \ {p} /\ due' = Noticed(p) /\ UNCHANGED <<pc, plan, cert, at, files, alone>>
  BY DEF Exit
<1>2. p.run \in Runs /\ due \subseteq Runs
  BY DEF BaseHInv, ProcsInv, ProcOK, HTypes
<1>3. due' \subseteq Runs
  BY <1>1, <1>2 DEF Noticed
<1> QED
  BY <1>1, <1>3, StillOn, QuietStep

\* The fields of a process that has moved.
LEMMA MovedHas ==
    ASSUME NEW p, NEW n, NEW d, NEW m, m = [run |-> p.run, kind |-> p.kind, port |-> n, doc |-> d]
    PROVE  m.run = p.run /\ m.kind = p.kind /\ m.port = n /\ m.doc = d
OBVIOUS

LEMMA MoveStep ==
    ASSUME BaseHInv, NEW p \in procs, NEW n, NEW d, procs' = Moved(p, n, d), n = 0 \/ n \notin Ports,
           UNCHANGED <<pc, plan, cert, at, files, due, alone>>,
           ProcOK([run |-> p.run, kind |-> p.kind, port |-> n, doc |-> d])
    PROVE  BaseHInv'
<1>1. PICK m : m = [run |-> p.run, kind |-> p.kind, port |-> n, doc |-> d]
  OBVIOUS
<1>2. ProcOK(m)
  BY <1>1
<1>3. ProcOK(m)'
  BY <1>2 DEF ProcOK
<1>4. HTypes' /\ FilesInv' /\ \A q \in procs : ProcOK(q)'
  BY StillOn DEF BaseHInv, HTypes
<1>5. Apart'
  BY MovedApart DEF BaseHInv, ProcsInv
<1>6. procs' = (procs \ {p}) \cup {m}
  BY <1>1 DEF Moved
<1> QED
  BY <1>3, <1>4, <1>5, <1>6 DEF BaseHInv, ProcsInv

\* What wrangler reads as it comes up.
ReadVars(p) == IF p.kind = "router" /\ Of("vars") # {} THEN CHOOSE d \in Of("vars") : TRUE ELSE NoDoc

\* It takes a free port of its kind.
LEMMA BindEffect ==
    ASSUME BaseHInv, NEW p \in procs, Bind(p)
    PROVE  \E n \in Nat : /\ procs' = Moved(p, n, ReadVars(p)) /\ n \notin Ports /\ n # 0
                          /\ IF p.kind = "router" THEN n \in 8787..8792 ELSE n >= 8810
<1>1. p.kind \notin {"shim", "confined"} /\ ProcOK(p) /\ HTypes
  BY DEF Bind, BaseHInv, ProcsInv
<1>2. PICK h : h = Home(p.kind)
  OBVIOUS
<1>3. h \in Nat /\ IF p.kind = "router" THEN h = 8787 ELSE h >= 8810
  <2>1. CASE p.kind = "router"
    BY <1>2, <2>1, HomeFacts
  <2>2. CASE p.kind # "router"
    <3>1. PICK c \in at[p.run] : c.service = p.kind
      BY <1>1, <2>2 DEF ProcOK
    <3>2. p.run \in Runs /\ c \in CompanionWorkers
      BY <1>1, <3>1 DEF ProcOK, HTypes, Startable
    <3>3. Home(p.kind) = c.port
      BY <3>1, <3>2, HomeFacts
    <3> QED
      BY <1>2, <2>2, <3>2, <3>3, CompanionFacts
  <2> QED
    BY <2>1, <2>2
<1>4. PICK free : free = {n \in h..(h + 5) : n \notin Ports}
  OBVIOUS
<1>5. free # {} /\ procs' = Moved(p, Min(free), ReadVars(p))
  BY <1>2, <1>4 DEF Bind, ReadVars
<1>6. free \subseteq Nat
  BY <1>3, <1>4
<1>7. \E a \in free : \A j \in free : a <= j
  BY <1>5, <1>6, LeastOf
<1>8. Min(free) \in free
  BY <1>7 DEF Min
<1>9. PICK n : n = Min(free)
  OBVIOUS
<1>10. n \in h..(h + 5) /\ n \notin Ports
  BY <1>4, <1>8, <1>9
<1>11. n \in Nat /\ n # 0 /\ IF p.kind = "router" THEN n \in 8787..8792 ELSE n >= 8810
  BY <1>3, <1>10
<1> QED
  BY <1>5, <1>9, <1>10, <1>11

LEMMA BindBase ==
    ASSUME BaseHInv, NEW p \in procs, Bind(p)
    PROVE  BaseHInv'
<1>1. PICK n \in Nat : /\ procs' = Moved(p, n, ReadVars(p)) /\ n \notin Ports /\ n # 0
                       /\ IF p.kind = "router" THEN n \in 8787..8792 ELSE n >= 8810
  BY BindEffect
<1>2. p.kind \notin {"shim", "confined"} /\ ProcOK(p) /\ UNCHANGED <<pc, plan, cert, at, files, due, alone>>
  BY DEF Bind, BaseHInv, ProcsInv
<1>3. PICK m : m = [run |-> p.run, kind |-> p.kind, port |-> n, doc |-> ReadVars(p)]
  OBVIOUS
<1>4. m.run = p.run /\ m.kind = p.kind /\ m.port = n
  BY <1>3, MovedHas
<1>5. ProcOK(m)
  BY <1>1, <1>2, <1>4 DEF ProcOK
<1> QED
  BY <1>1, <1>2, <1>3, <1>5, MoveStep

LEMMA ListenBase ==
    ASSUME BaseHInv, NEW p \in procs, Listen(p)
    PROVE  BaseHInv'
<1>1. CASE ShimPort \in Ports
  BY <1>1, ExitBase DEF Listen
<1>2. CASE ShimPort \notin Ports
  <2>1. p.kind = "shim" /\ ProcOK(p) /\ procs' = Moved(p, ShimPort, p.doc) /\ UNCHANGED <<pc, plan, cert, at, files, due, alone>>
    BY <1>2 DEF Listen, BaseHInv, ProcsInv
  <2>2. PICK m : m = [run |-> p.run, kind |-> p.kind, port |-> ShimPort, doc |-> p.doc]
    OBVIOUS
  <2>3. m.run = p.run /\ m.kind = p.kind /\ m.port = ShimPort /\ m.doc = p.doc
    BY <2>2, MovedHas
  <2>4. ProcOK(m)
    BY <2>1, <2>3 DEF ProcOK, ShimPort
  <2> QED
    BY <1>2, <2>1, <2>2, <2>4, MoveStep
<1> QED
  BY <1>1, <1>2

LEMMA ConfineBase ==
    ASSUME BaseHInv, NEW p \in procs, Confine(p)
    PROVE  BaseHInv'
<1>1. PICK d \in Of("policy") : d.roots = d.cert /\ procs' = Moved(p, p.port, d)
  BY DEF Confine, VerifyConfinementCommitment
<1>2. p.kind = "confined" /\ ProcOK(p) /\ UNCHANGED <<pc, plan, cert, at, files, due, alone>>
  BY DEF Confine, BaseHInv, ProcsInv
<1>3. p.port = 0
  BY <1>2 DEF ProcOK
<1>4. PICK m : m = [run |-> p.run, kind |-> p.kind, port |-> p.port, doc |-> d]
  OBVIOUS
<1>5. m.run = p.run /\ m.kind = p.kind /\ m.port = p.port /\ m.doc = d
  BY <1>4, MovedHas
<1>6. ProcOK(m)
  BY <1>1, <1>2, <1>5 DEF ProcOK
<1> QED
  BY <1>1, <1>2, <1>3, <1>4, <1>6, MoveStep

\* Everything of a run is gone after its shutdown: its policy too, since only a
\* confined run has one.
LEMMA ShutdownBase ==
    ASSUME BaseHInv, NEW r \in Runs, Shutdown(r)
    PROVE  BaseHInv'
<1>1. /\ HTypes /\ pc[r] = "running" /\ procs' = Others(r) /\ files' = Without(EphemeralPaths(r))
      /\ Goes(r, "ended") /\ UNCHANGED <<plan, cert, at, due, alone>>
      /\ "ended" \in Idle \cup Starting \cup {"running"}
  BY DEF Shutdown, BaseHInv, Idle
<1>2. /\ pc' \in [Runs -> Idle \cup Starting \cup {"running"}]
      /\ pc'[r] = "ended" /\ \A s \in Runs : s # r => pc'[s] = pc[s]
  BY <1>1, GoesTo
<1>3. HTypes'
  BY <1>1, <1>2 DEF HTypes
<1>4. ASSUME NEW f \in files' PROVE FileOK(f)'
  <2>1. f \in files /\ FileOK(f) /\ f.name \notin EphemeralPaths(r)
    BY <1>1, <1>4 DEF BaseHInv, FilesInv, Without
  <2>2. f.doc.by # r
    BY <2>1 DEF FileOK, EphemeralPaths
  <2> QED
    BY <1>1, <1>2, <2>1, <2>2 DEF FileOK
<1>5. ASSUME NEW p \in procs' PROVE ProcOK(p)'
  <2>1. p \in procs /\ ProcOK(p) /\ p.run # r
    BY <1>1, <1>5 DEF BaseHInv, ProcsInv, Others
  <2> QED
    BY <1>1, <1>2, <2>1 DEF ProcOK
<1>6. Apart'
  BY <1>1, FewerApart DEF BaseHInv, ProcsInv, Others
<1> QED
  BY <1>3, <1>4, <1>5, <1>6 DEF BaseHInv, FilesInv, ProcsInv

LEMMA InterruptBase ==
    ASSUME BaseHInv, NEW r \in Runs, Interrupt(r)
    PROVE  BaseHInv'
<1>1. HTypes /\ pc[r] \notin Idle /\ UNCHANGED <<plan, cert, at, files, alone>>
  BY DEF Interrupt, BaseHInv
<1>2. CASE due' = due \cup {r} /\ UNCHANGED <<pc, procs>>
  <2>1. due' \subseteq Runs
    BY <1>1, <1>2 DEF HTypes
  <2> QED
    BY <1>1, <1>2, <2>1, StillOn, QuietStep
<1>3. CASE Goes(r, "killed") /\ due' = due /\ procs' \subseteq procs
  <2>1. "killed" \in Idle \cup Starting \cup {"running"}
    BY DEF Idle
  <2>2. /\ pc' \in [Runs -> Idle \cup Starting \cup {"running"}]
        /\ pc'[r] = "killed" /\ \A s \in Runs : s # r => pc'[s] = pc[s]
    BY <1>1, <1>3, <2>1, GoesTo
  <2>3. HTypes'
    BY <1>1, <1>3, <2>2 DEF HTypes, Idle
  <2>4. pc[r] \in Starting \cup {"running"}
    BY <1>1 DEF HTypes
  <2>5. \A s \in Runs : Onward(s)
    BY <1>1, <2>2, <2>4 DEF Onward, Starting
  <2> QED
    BY <1>1, <1>3, <2>3, <2>5, QuietStep
<1> QED
  BY <1>2, <1>3 DEF Interrupt

LEMMA BaseHStep ==
    ASSUME BaseHInv, HNext
    PROVE  BaseHInv'
<1>1. CASE \E r \in Runs :
             \/ Begin(r) \/ VerifySkills(r) \/ WriteConfinement(r) \/ Mint(r) \/ WriteDevVars(r)
             \/ AssertPortsFree(r) \/ StartCompanion(r) \/ StartLocalRouter(r)
             \/ HealthTimeout(r) \/ LaunchSession(r) \/ Shutdown(r) \/ Interrupt(r)
  BY <1>1, BeginBase, VerifySkillsBase, WriteConfinementBase, MintBase, WriteDevVarsBase, AssertPortsFreeBase,
     StartCompanionBase, StartLocalRouterBase, HealthTimeoutBase, LaunchSessionBase, ShutdownBase, InterruptBase
<1>2. CASE \E p \in procs : Bind(p) \/ Listen(p) \/ Confine(p) \/ Exit(p)
  BY <1>2, BindBase, ListenBase, ConfineBase, ExitBase
<1> QED
  BY <1>1, <1>2 DEF HNext

-----------------------------------------------------------------------------
(* Launches that are alone. *)

\* A run that runs, and what others leave of it.
Aside(r) ==
    /\ pc'[r] = pc[r] /\ plan'[r] = plan[r] /\ cert'[r] = cert[r] /\ due \subseteq due'
    /\ \A p \in procs : p.run = r => p \in procs'
    /\ \A p \in procs' : p.run = r => p \in procs
    /\ (\E w \in Up(r, "router") : w.port = RouterPort) /\ (\A s \in Runs : s # r => pc[s] \notin {"companions", "health", "running"})
         => /\ \A s \in Runs : s # r => pc'[s] \notin {"companions", "health", "running"}
            /\ \A f \in files' : f.name = "policy" => f \in files

LEMMA SameDoc ==
    ASSUME NEW r, plan'[r] = plan[r], cert'[r] = cert[r]
    PROVE  Doc(r)' = Doc(r)
BY DEF Doc

LEMMA RunsStay ==
    ASSUME NEW r \in Runs, RunsAlone(r), Aside(r)
    PROVE  RunsAlone(r)'
<1> SUFFICES ASSUME pc'[r] = "running"
             PROVE  /\ r \in due' \/ Up(r, "router")' # {}
                    /\ \A w \in Up(r, "router")' :
                          /\ w.port = RouterPort /\ w.doc.mode = plan'[r].mode
                          /\ \A s \in Runs : s # r => pc'[s] \notin {"companions", "health", "running"}
                          /\ plan'[r].sandbox => \A f \in files' : f.name = "policy" => f.doc = Doc(r)'
                          /\ \A h \in Up(r, "confined")' : plan'[r].sandbox /\ (h.doc # NoDoc => h.doc.strip = plan'[r].strip)
  BY DEF RunsAlone
<1>1. pc[r] = "running" /\ plan'[r] = plan[r] /\ Doc(r)' = Doc(r) /\ due \subseteq due'
  BY SameDoc DEF Aside
<1>2. Up(r, "router")' = Up(r, "router") /\ Up(r, "confined")' = Up(r, "confined")
  BY DEF Aside, Up
<1>3. r \in due' \/ Up(r, "router")' # {}
  BY <1>1, <1>2 DEF RunsAlone
<1>4. ASSUME NEW w \in Up(r, "router")
      PROVE  /\ w.port = RouterPort /\ w.doc.mode = plan[r].mode
             /\ \A s \in Runs : s # r => pc'[s] \notin {"companions", "health", "running"}
             /\ plan[r].sandbox => \A f \in files' : f.name = "policy" => f.doc = Doc(r)
             /\ \A h \in Up(r, "confined") : plan[r].sandbox /\ (h.doc # NoDoc => h.doc.strip = plan[r].strip)
  <2>1. /\ w.port = RouterPort /\ w.doc.mode = plan[r].mode
        /\ \A s \in Runs : s # r => pc[s] \notin {"companions", "health", "running"}
        /\ plan[r].sandbox => \A f \in files : f.name = "policy" => f.doc = Doc(r)
        /\ \A h \in Up(r, "confined") : plan[r].sandbox /\ (h.doc # NoDoc => h.doc.strip = plan[r].strip)
    BY <1>1, <1>4 DEF RunsAlone
  <2>2. /\ \A s \in Runs : s # r => pc'[s] \notin {"companions", "health", "running"}
        /\ \A f \in files' : f.name = "policy" => f \in files
    BY <1>4, <2>1 DEF Aside
  <2> QED
    BY <2>1, <2>2
<1> QED
  BY <1>1, <1>2, <1>3, <1>4

\* What a run in the course of its launch, or of its end, does to the others.
LEMMA OthersAside ==
    ASSUME BaseHInv, NEW r \in Runs, NEW s \in Runs, s # r,
           \/ VerifySkills(s) \/ WriteConfinement(s) \/ Mint(s) \/ WriteDevVars(s)
           \/ AssertPortsFree(s) \/ StartCompanion(s) \/ StartLocalRouter(s)
           \/ HealthTimeout(s) \/ LaunchSession(s) \/ Shutdown(s) \/ Interrupt(s)
    PROVE  Aside(r)
<1> DEFINE Blocked == /\ \E w \in Up(r, "router") : w.port = RouterPort
                      /\ \A t \in Runs : t # r => pc[t] \notin {"companions", "health", "running"}
<1>t. HTypes /\ pc \in [Runs -> Idle \cup Starting \cup {"running"}] /\ cert \in [Runs -> Nat]
  BY DEF BaseHInv, HTypes
<1>p. Blocked => RouterPort \in Ports
  BY DEF Up, Ports, RouterPort
<1>1. CASE VerifySkills(s)
  BY <1>t, <1>1 DEF VerifySkills, Goes, Aside
<1>2. CASE WriteConfinement(s)
  BY <1>t, <1>2 DEF WriteConfinement, Goes, Aside, Written
<1>3. CASE Mint(s)
  BY <1>t, <1>3 DEF Mint, Goes, Aside
<1>4. CASE WriteDevVars(s)
  BY <1>t, <1>4 DEF WriteDevVars, Goes, Aside, Written
<1>5. CASE AssertPortsFree(s)
  <2>1. /\ UNCHANGED <<plan, cert, at, files, procs, due, alone>>
        /\ \A t \in Runs : t # s => pc'[t] = pc[t]
        /\ pc'[s] = "companions" \/ pc'[s] = "busy"
        /\ Blocked => pc'[s] = "busy"
    BY <1>t, <1>p, <1>5 DEF AssertPortsFree, Goes
  <2> QED
    BY <2>1 DEF Aside
<1>6. CASE StartCompanion(s)
  <2>1. PICK c \in Startable : procs' = procs \cup {Process(s, c.service, NoDoc)}
    BY <1>6 DEF StartCompanion
  <2>2. \A p \in procs' : p.run = r => p \in procs
    BY <2>1, ProcessHas
  <2>3. ~Blocked /\ UNCHANGED <<pc, plan, cert, files, due, alone>>
    BY <1>6 DEF StartCompanion
  <2> QED
    BY <2>1, <2>2, <2>3 DEF Aside
<1>7. CASE StartLocalRouter(s)
  <2>1. procs' = procs \/ procs' = procs \cup {Process(s, "router", NoDoc)}
    BY <1>7 DEF StartLocalRouter
  <2>2. \A p \in procs' : p.run = r => p \in procs
    BY <2>1, ProcessHas
  <2>3. ~Blocked /\ pc'[r] = pc[r] /\ UNCHANGED <<plan, cert, files, due, alone>>
    BY <1>t, <1>7 DEF StartLocalRouter, Goes
  <2> QED
    BY <2>1, <2>2, <2>3 DEF Aside
<1>8. CASE HealthTimeout(s)
  BY <1>t, <1>8 DEF HealthTimeout, Goes, Aside
<1>9. CASE LaunchSession(s)
  <2>1. /\ procs \subseteq procs'
        /\ procs' \subseteq procs \cup {Process(s, "shim", Doc(s)), Process(s, "confined", NoDoc)}
    BY <1>9 DEF LaunchSession
  <2>2. \A p \in procs' : p.run = r => p \in procs
    BY <2>1, ProcessHas
  <2>3. ~Blocked /\ pc'[r] = pc[r] /\ UNCHANGED <<plan, cert, due, alone>>
    BY <1>t, <1>9 DEF LaunchSession, Goes
  <2> QED
    BY <2>1, <2>2, <2>3 DEF Aside
<1>10. CASE Shutdown(s)
  <2>1. ~Blocked /\ pc'[r] = pc[r] /\ UNCHANGED <<plan, cert, due, alone>>
    BY <1>t, <1>10 DEF Shutdown, Goes
  <2>2. (\A p \in procs : p.run = r => p \in procs') /\ \A p \in procs' : p.run = r => p \in procs
    BY <1>10 DEF Shutdown, Others
  <2> QED
    BY <2>1, <2>2 DEF Aside
<1>11. CASE Interrupt(s)
  <2>1. /\ UNCHANGED <<plan, cert, at, files, alone>> /\ due \subseteq due'
        /\ (\A p \in procs : p.run = r => p \in procs') /\ \A p \in procs' : p.run = r => p \in procs
    BY <1>11 DEF Interrupt
  <2>2. \A t \in Runs : pc'[t] = pc[t] \/ (t = s /\ pc'[t] = "killed")
    BY <1>t, <1>11 DEF Interrupt, Goes
  <2> QED
    BY <2>1, <2>2 DEF Aside
<1> QED
  BY <1>1, <1>2, <1>3, <1>4, <1>5, <1>6, <1>7, <1>8, <1>9, <1>10, <1>11

\* While a launch that is alone starts, no other run takes a step but to begin.
LEMMA OthersRest ==
    ASSUME BaseHInv, NEW r \in Runs, StartsAlone(r), RunsAlone(r), NEW s \in Runs, s # r,
           \/ VerifySkills(s) \/ WriteConfinement(s) \/ Mint(s) \/ WriteDevVars(s)
           \/ AssertPortsFree(s) \/ StartCompanion(s) \/ StartLocalRouter(s)
           \/ HealthTimeout(s) \/ LaunchSession(s) \/ Shutdown(s) \/ Interrupt(s)
    PROVE  StartsAlone(r)' /\ RunsAlone(r)'
<1>1. Aside(r)
  BY OthersAside
<1>2. pc[s] \notin Idle
  BY DEF VerifySkills, WriteConfinement, Mint, WriteDevVars, AssertPortsFree, StartCompanion, StartLocalRouter,
         HealthTimeout, LaunchSession, Shutdown, Interrupt, Idle
<1>3. pc[r] \notin Starting
  BY <1>2 DEF StartsAlone
<1>4. pc'[r] \notin Starting
  BY <1>1, <1>3 DEF Aside
<1> QED
  BY <1>1, <1>4, RunsStay DEF StartsAlone

\* A run that begins.
LEMMA BeginAlone ==
    ASSUME BaseHInv, AloneInv, NEW s \in Runs, Begin(s)
    PROVE  AloneInv'
<1>t. HTypes /\ pc \in [Runs -> Idle \cup Starting \cup {"running"}] /\ alone \subseteq Runs
  BY DEF BaseHInv, HTypes
<1>1. pc[s] = "idle" /\ UNCHANGED <<cert, at, files, procs, due>>
  BY DEF Begin
<1>2. PICK q \in Requests[s] :
        IF Admissible(q)
        THEN /\ plan' = [plan EXCEPT ![s] = ResolvePlan(q)]
             /\ Goes(s, IF q.sandbox THEN "skills" ELSE "write")
             /\ alone' = {t \in alone : pc[t] = "running"}
                         \cup (IF (\A t \in Runs : pc[t] \in Idle) /\ (\A p \in procs : p.port # 0)
                               THEN {s} ELSE {})
        ELSE Goes(s, "refused") /\ UNCHANGED <<plan, alone>>
  BY DEF Begin
<1>3. /\ \A t \in Runs : t # s => pc'[t] = pc[t] /\ plan'[t] = plan[t]
      /\ pc'[s] \in {"skills", "write", "refused"}
  BY <1>t, <1>2 DEF Goes, HTypes
<1>4. ASSUME NEW r \in alone', r # s PROVE StartsAlone(r)' /\ RunsAlone(r)'
  <2>1. r \in alone /\ r \in Runs /\ StartsAlone(r) /\ RunsAlone(r)
    BY <1>t, <1>2, <1>4 DEF AloneInv
  <2>2. pc'[r] = pc[r] /\ plan'[r] = plan[r] /\ Doc(r)' = Doc(r)
    BY <1>1, <1>3, <1>4, <2>1, SameDoc
  <2>3. Aside(r)
    BY <1>1, <1>3, <1>4, <2>2 DEF Aside
  <2>4. RunsAlone(r)'
    BY <2>1, <2>3, RunsStay
  <2>5. StartsAlone(r)'
    <3>1. CASE Admissible(q)
      <4>1. pc[r] = "running"
        BY <1>2, <1>4, <3>1
      <4> QED
        BY <2>2, <4>1 DEF StartsAlone, Starting
    <3>2. CASE ~Admissible(q)
      <4>1. pc'[s] = "refused" /\ "refused" \in Idle
        BY <1>t, <1>2, <3>2 DEF Goes, Idle
      <4>2. \A t \in Runs : t # r /\ pc[t] \in Idle => pc'[t] \in Idle
        BY <1>3, <4>1
      <4> QED
        BY <1>1, <2>1, <2>2, <4>2 DEF StartsAlone
    <3> QED
      BY <3>1, <3>2
  <2> QED
    BY <2>4, <2>5
<1>5. ASSUME s \in alone' PROVE StartsAlone(s)' /\ RunsAlone(s)'
  <2>1. RunsAlone(s)'
    BY <1>3 DEF RunsAlone
  <2>2. CASE Admissible(q)
    <3>1. (\A t \in Runs : pc[t] \in Idle) /\ (\A p \in procs : p.port # 0)
      BY <1>1, <1>2, <1>5, <2>2
    <3>2. pc'[s] \notin {"ports", "companions", "health"}
      BY <1>3
    <3> QED
      BY <1>1, <1>3, <2>1, <3>1, <3>2 DEF StartsAlone
  <2>3. CASE ~Admissible(q)
    <3>1. pc'[s] = "refused"
      BY <1>t, <1>2, <2>3 DEF Goes
    <3> QED
      BY <2>1, <3>1 DEF StartsAlone, Starting
  <2> QED
    BY <2>2, <2>3
<1> QED
  BY <1>4, <1>5 DEF AloneInv

\* The launch itself, up to the check of the ports.
LEMMA OwnStart ==
    ASSUME BaseHInv, NEW r \in Runs, StartsAlone(r),
           VerifySkills(r) \/ WriteConfinement(r) \/ Mint(r) \/ WriteDevVars(r) \/ AssertPortsFree(r)
    PROVE  StartsAlone(r)' /\ RunsAlone(r)'
<1>t. HTypes /\ pc \in [Runs -> Idle \cup Starting \cup {"running"}]
  BY DEF BaseHInv, HTypes
<1>1. /\ pc[r] \in {"skills", "write", "mint", "vars", "ports"} /\ pc[r] \in Starting
      /\ UNCHANGED <<plan, at, procs, due, alone>>
      /\ \A s \in Runs : s # r => pc'[s] = pc[s]
      /\ pc'[r] # "running" /\ pc'[r] # "health"
  BY <1>t DEF VerifySkills, WriteConfinement, Mint, WriteDevVars, AssertPortsFree, Goes, Starting
<1>2. RunsAlone(r)'
  BY <1>1 DEF RunsAlone
<1>3. (\A s \in Runs : s # r => pc'[s] \in Idle) /\ \A p \in procs' : p.run # r => p.port # 0
  BY <1>1 DEF StartsAlone
<1>4. CASE WriteDevVars(r) /\ pc'[r] = "ports"
  <2>1. files' = Written("vars", Doc(r)) /\ cert' = cert
    BY <1>t, <1>4 DEF WriteDevVars, Goes
  <2>2. PICK f : f = [name |-> "vars", doc |-> Doc(r)]
    OBVIOUS
  <2>3. f.name = "vars" /\ f.doc = Doc(r) /\ files' = {g \in files : g.name # "vars"} \cup {f}
    BY <2>1, <2>2 DEF Written
  <2>4. Doc(r)' = Doc(r)
    BY <1>1, <2>1, SameDoc
  <2>5. (\E g \in files' : g.name = "vars") /\ \A g \in files' : g.name = "vars" => g.doc = Doc(r)'
    BY <2>3, <2>4
  <2> QED
    BY <1>1, <1>2, <1>3, <1>4, <2>5 DEF StartsAlone
<1>5. CASE AssertPortsFree(r)
  <2>1. UNCHANGED <<cert, files>> /\ pc[r] = "ports" /\ (pc'[r] = "busy" \/ (pc'[r] = "companions" /\ RouterPort \notin Ports))
    BY <1>t, <1>5 DEF AssertPortsFree, Goes
  <2>2. Doc(r)' = Doc(r)
    BY <1>1, <2>1, SameDoc
  <2>3. (\E g \in files' : g.name = "vars") /\ \A g \in files' : g.name = "vars" => g.doc = Doc(r)'
    BY <1>1, <2>1, <2>2 DEF StartsAlone
  <2>4. RouterPort \notin Ports => \A p \in procs' : p.port # RouterPort
    BY <1>1 DEF Ports, RouterPort
  <2> QED
    BY <1>1, <1>2, <1>3, <2>1, <2>3, <2>4 DEF StartsAlone, Starting
<1>6. CASE pc'[r] \notin {"ports", "companions", "health"}
  BY <1>2, <1>3, <1>6 DEF StartsAlone
<1>7. pc'[r] \in {"ports", "companions", "health"} => (WriteDevVars(r) /\ pc'[r] = "ports") \/ AssertPortsFree(r)
  BY <1>t DEF VerifySkills, WriteConfinement, Mint, WriteDevVars, AssertPortsFree, Goes
<1> QED
  BY <1>4, <1>5, <1>6, <1>7

\* The processes it starts.
LEMMA OwnProcesses ==
    ASSUME BaseHInv, NEW r \in Runs, StartsAlone(r), StartCompanion(r) \/ StartLocalRouter(r) \/ HealthTimeout(r)
    PROVE  StartsAlone(r)' /\ RunsAlone(r)'
<1>t. HTypes /\ pc \in [Runs -> Idle \cup Starting \cup {"running"}]
  BY DEF BaseHInv, HTypes
<1>1. /\ pc[r] \in {"companions", "health"} /\ pc[r] \in Starting
      /\ UNCHANGED <<plan, cert, files, due, alone>>
      /\ \A s \in Runs : s # r => pc'[s] = pc[s]
      /\ pc'[r] # "running" /\ (pc'[r] = "failed" \/ pc[r] = "companions")
  BY <1>t DEF StartCompanion, StartLocalRouter, HealthTimeout, Goes, Starting
<1>2. RunsAlone(r)'
  BY <1>1 DEF RunsAlone
<1>3. CASE pc'[r] = "failed"
  BY <1>2, <1>3 DEF StartsAlone, Starting
<1>4. CASE pc[r] = "companions" /\ pc'[r] # "failed"
  <2>1. \E k : procs' = procs \cup {Process(r, k, NoDoc)}
    BY <1>t, <1>4 DEF StartCompanion, StartLocalRouter, HealthTimeout, Goes
  <2>2. PICK n : procs' = procs \cup {n} /\ n.run = r /\ n.port = 0
    BY <2>1, ProcessHas
  <2>3. Doc(r)' = Doc(r)
    BY <1>1, SameDoc
  <2>4. (\A s \in Runs : s # r => pc'[s] \in Idle) /\ \A p \in procs' : p.run # r => p.port # 0
    BY <1>1, <2>2 DEF StartsAlone
  <2>5. (\E f \in files' : f.name = "vars") /\ \A f \in files' : f.name = "vars" => f.doc = Doc(r)'
    BY <1>1, <2>3 DEF StartsAlone
  <2>6. \A p \in procs' : p.port = RouterPort => p.run = r
    BY <1>1, <2>2 DEF StartsAlone
  <2>7. \A p \in procs : p.run = r => p.kind # "router"
    BY <1>4 DEF BaseHInv, ProcsInv, ProcOK
  <2>8. \A p \in procs' : p.run = r /\ p.kind = "router" /\ p.port # 0 => p.doc.mode = plan'[r].mode
    BY <2>2, <2>7
  <2> QED
    BY <1>2, <2>4, <2>5, <2>6, <2>8 DEF StartsAlone
<1> QED
  BY <1>1, <1>3, <1>4

\* The answer on the router's port is that of its own router, which has read its
\* own .dev.vars.
LEMMA OwnLaunch ==
    ASSUME BaseHInv, NEW r \in Runs, StartsAlone(r), LaunchSession(r)
    PROVE  StartsAlone(r)' /\ RunsAlone(r)'
<1>t. HTypes /\ pc \in [Runs -> Idle \cup Starting \cup {"running"}]
  BY DEF BaseHInv, HTypes
<1>1. /\ pc[r] = "health" /\ pc[r] \in Starting /\ pc'[r] = "running" /\ \A s \in Runs : s # r => pc'[s] = pc[s]
      /\ UNCHANGED <<plan, cert, at, due, alone>> /\ Healthy
  BY <1>t DEF LaunchSession, Goes, Starting
<1>2. StartsAlone(r)'
  BY <1>1 DEF StartsAlone, Starting
<1>3. PICK w \in procs : w.kind = "router" /\ w.port = RouterPort
  BY <1>1 DEF Healthy
<1>4. w.run = r /\ w.port # 0
  BY <1>1, <1>3 DEF StartsAlone, RouterPort
<1>5. w.doc.mode = plan[r].mode
  BY <1>1, <1>3, <1>4 DEF StartsAlone
<1>6. plan[r].sandbox \in BOOLEAN
  BY <1>1, <1>t, PlanHas DEF HTypes
<1>7. PICK a, b : a = Process(r, "shim", Doc(r)) /\ b = Process(r, "confined", NoDoc)
  OBVIOUS
<1>8. a.run = r /\ a.kind = "shim" /\ b.run = r /\ b.kind = "confined" /\ b.doc = NoDoc
  BY <1>7, ProcessHas
<1>9. procs \subseteq procs' /\ procs' \subseteq procs \cup {a, b} /\ (~plan[r].sandbox => procs' \subseteq procs \cup {a})
  BY <1>6, <1>7 DEF LaunchSession
<1>10. \A p \in procs : p.run = r => p.kind # "confined"
  BY <1>1 DEF BaseHInv, ProcsInv, ProcOK
<1>11. Up(r, "router")' = {w}
  <2>1. \A p \in procs : p.run = r /\ p.kind = "router" => p = w
    BY <1>3, <1>4 DEF BaseHInv, ProcsInv, Apart
  <2> QED
    BY <1>3, <1>4, <1>8, <1>9, <2>1 DEF Up
<1>12. \A h \in Up(r, "confined")' : h = b /\ plan[r].sandbox
  BY <1>6, <1>8, <1>9, <1>10 DEF Up
<1>13. Doc(r)' = Doc(r)
  BY <1>1, SameDoc
<1>14. plan[r].sandbox => \A f \in files' : f.name = "policy" => f.doc = Doc(r)
  BY DEF LaunchSession, Written
<1>15. \A s \in Runs : s # r => pc'[s] \notin {"companions", "health", "running"}
  BY <1>1 DEF StartsAlone, Idle
<1>16. RunsAlone(r)'
  BY <1>1, <1>3, <1>5, <1>8, <1>11, <1>12, <1>13, <1>14, <1>15 DEF RunsAlone
<1> QED
  BY <1>2, <1>16

LEMMA OwnEnd ==
    ASSUME BaseHInv, NEW r \in Runs, StartsAlone(r), RunsAlone(r), Shutdown(r) \/ Interrupt(r)
    PROVE  StartsAlone(r)' /\ RunsAlone(r)'
<1>t. HTypes /\ pc \in [Runs -> Idle \cup Starting \cup {"running"}]
  BY DEF BaseHInv, HTypes
<1>1. CASE pc'[r] \in {"ended", "killed"}
  BY <1>1 DEF StartsAlone, RunsAlone, Starting
<1>2. CASE /\ pc[r] = "running" /\ due' = due \cup {r} /\ UNCHANGED <<pc, procs>>
           /\ UNCHANGED <<plan, cert, at, files, alone>>
  <2>1. Aside(r)
    BY <1>2 DEF Aside
  <2> QED
    BY <1>2, <2>1, RunsStay DEF StartsAlone, Starting
<1> QED
  BY <1>t, <1>1, <1>2 DEF Shutdown, Interrupt, Goes

\* A process that ends.
LEMMA ExitAlone ==
    ASSUME BaseHInv, NEW r \in Runs, StartsAlone(r), RunsAlone(r), NEW p \in procs, Exit(p)
    PROVE  StartsAlone(r)' /\ RunsAlone(r)'
<1>1. procs' = procs \ {p} /\ due' = Noticed(p) /\ UNCHANGED <<pc, plan, cert, at, files, alone>>
  BY DEF Exit
<1>2. Doc(r)' = Doc(r)
  BY <1>1, SameDoc
<1>3. StartsAlone(r)'
  BY <1>1, <1>2 DEF StartsAlone
<1>4. due \subseteq due' /\ (pc[r] = "running" /\ p.run = r /\ p.kind = "router" => r \in due')
  BY <1>1 DEF Noticed
<1>5. Up(r, "router")' = Up(r, "router") \ {p} /\ Up(r, "confined")' \subseteq Up(r, "confined")
  BY <1>1 DEF Up
<1>6. p \in Up(r, "router") => p.run = r /\ p.kind = "router"
  BY DEF Up
<1>7. pc[r] = "running" => r \in due' \/ Up(r, "router")' # {}
  BY <1>4, <1>5, <1>6 DEF RunsAlone
<1>8. RunsAlone(r)'
  BY <1>1, <1>2, <1>5, <1>7 DEF RunsAlone
<1> QED
  BY <1>3, <1>8

\* A process that takes a port, or reads its policy.
LEMMA MovesAlone ==
    ASSUME BaseHInv, NEW r \in Runs, StartsAlone(r), RunsAlone(r), NEW p \in procs, NEW n, NEW d, procs' = Moved(p, n, d),
           UNCHANGED <<pc, plan, cert, at, files, due, alone>>,
           pc[r] \in Starting /\ p.run # r => p.port # 0 /\ n # 0 /\ n # RouterPort,
           pc[r] = "health" /\ p.run = r /\ p.kind = "router" => d.mode = plan[r].mode,
           pc[r] = "running" /\ p.run = r => p.kind # "router",
           (\E w \in Up(r, "router") : TRUE) /\ pc[r] = "running" /\ p.run = r /\ p.kind = "confined"
              => (d # NoDoc => d.strip = plan[r].strip)
    PROVE  StartsAlone(r)' /\ RunsAlone(r)'
<1>1. PICK m : m = [run |-> p.run, kind |-> p.kind, port |-> n, doc |-> d]
  OBVIOUS
<1>2. m.run = p.run /\ m.kind = p.kind /\ m.port = n /\ m.doc = d /\ procs' = (procs \ {p}) \cup {m}
  BY <1>1, MovedHas DEF Moved
<1>3. Doc(r)' = Doc(r)
  BY SameDoc
<1>4. StartsAlone(r)'
  BY <1>2, <1>3 DEF StartsAlone
<1>5. pc[r] = "running" => Up(r, "router")' = Up(r, "router")
  BY <1>2 DEF Up
<1>6. pc[r] = "running" => \A h \in Up(r, "confined")' :
          \/ h \in Up(r, "confined")
          \/ p \in Up(r, "confined") /\ h.doc = d /\ p.run = r /\ p.kind = "confined"
  BY <1>2 DEF Up
<1>7. RunsAlone(r)'
  BY <1>2, <1>3, <1>5, <1>6 DEF RunsAlone
<1> QED
  BY <1>4, <1>7

LEMMA BindAlone ==
    ASSUME BaseHInv, NEW r \in Runs, StartsAlone(r), RunsAlone(r), NEW p \in procs, Bind(p)
    PROVE  StartsAlone(r)' /\ RunsAlone(r)'
<1>1. PICK n \in Nat : procs' = Moved(p, n, ReadVars(p))
  BY BindEffect
<1>2. p.port = 0 /\ p.kind # "confined" /\ UNCHANGED <<pc, plan, cert, at, files, due, alone>>
  BY DEF Bind
<1>3. ~(pc[r] \in Starting /\ p.run # r)
  BY <1>2 DEF StartsAlone
<1>4. ASSUME pc[r] = "health", p.kind = "router" PROVE ReadVars(p).mode = plan[r].mode
  <2>1. (\E f \in files : f.name = "vars") /\ \A f \in files : f.name = "vars" => f.doc = Doc(r)
    BY <1>4 DEF StartsAlone, Starting
  <2>2. Of("vars") # {} /\ \A x \in Of("vars") : x = Doc(r)
    BY <2>1 DEF Of
  <2>3. ReadVars(p) = Doc(r)
    BY <1>4, <2>2 DEF ReadVars
  <2> QED
    BY <2>3, DocHas
<1>5. ~(pc[r] = "running" /\ p.run = r /\ p.kind = "router")
  BY <1>2 DEF RunsAlone, Up, RouterPort
<1>6. PICK d : d = ReadVars(p)
  OBVIOUS
<1> QED
  BY <1>1, <1>2, <1>3, <1>4, <1>5, <1>6, MovesAlone

LEMMA ListenAlone ==
    ASSUME BaseHInv, NEW r \in Runs, StartsAlone(r), RunsAlone(r), NEW p \in procs, Listen(p)
    PROVE  StartsAlone(r)' /\ RunsAlone(r)'
<1>1. CASE ShimPort \in Ports
  BY <1>1, ExitAlone DEF Listen
<1>2. CASE ShimPort \notin Ports
  <2>1. /\ p.kind = "shim" /\ p.port = 0 /\ procs' = Moved(p, ShimPort, p.doc)
        /\ UNCHANGED <<pc, plan, cert, at, files, due, alone>>
    BY <1>2 DEF Listen
  <2>2. ~(pc[r] \in Starting /\ p.run # r)
    BY <2>1 DEF StartsAlone
  <2> QED
    BY <2>1, <2>2, MovesAlone
<1> QED
  BY <1>1, <1>2

LEMMA ConfineAlone ==
    ASSUME BaseHInv, NEW r \in Runs, StartsAlone(r), RunsAlone(r), NEW p \in procs, Confine(p)
    PROVE  StartsAlone(r)' /\ RunsAlone(r)'
<1>1. PICK d \in Of("policy") : procs' = Moved(p, p.port, d)
  BY DEF Confine
<1>2. p.kind = "confined" /\ p.port = 0 /\ UNCHANGED <<pc, plan, cert, at, files, due, alone>>
  BY DEF Confine, BaseHInv, ProcsInv, ProcOK
<1>3. ~(pc[r] \in Starting /\ p.run # r)
  BY <1>2 DEF StartsAlone
<1>4. ASSUME \E w \in Up(r, "router") : TRUE, pc[r] = "running", p.run = r
      PROVE  d.strip = plan[r].strip
  <2>1. p \in Up(r, "confined")
    BY <1>2, <1>4 DEF Up
  <2>2. \A f \in files : f.name = "policy" => f.doc = Doc(r)
    BY <1>4, <2>1 DEF RunsAlone
  <2>3. d = Doc(r)
    BY <2>2 DEF Of
  <2> QED
    BY <2>3, DocHas
<1> QED
  BY <1>1, <1>2, <1>3, <1>4, MovesAlone

LEMMA AloneStep ==
    ASSUME HInv, HNext
    PROVE  AloneInv'
<1>1. BaseHInv /\ AloneInv /\ alone \subseteq Runs
  BY DEF HInv, BaseHInv, HTypes
<1>2. ASSUME NEW s \in Runs,
             \/ VerifySkills(s) \/ WriteConfinement(s) \/ Mint(s) \/ WriteDevVars(s)
             \/ AssertPortsFree(s) \/ StartCompanion(s) \/ StartLocalRouter(s)
             \/ HealthTimeout(s) \/ LaunchSession(s) \/ Shutdown(s) \/ Interrupt(s)
      PROVE  AloneInv'
  <2>1. alone' = alone
    BY <1>2 DEF VerifySkills, WriteConfinement, Mint, WriteDevVars, AssertPortsFree, StartCompanion, StartLocalRouter,
                HealthTimeout, LaunchSession, Shutdown, Interrupt
  <2>2. ASSUME NEW r \in alone PROVE StartsAlone(r)' /\ RunsAlone(r)'
    <3>1. r \in Runs /\ StartsAlone(r) /\ RunsAlone(r)
      BY <1>1 DEF AloneInv
    <3>2. CASE r # s
      BY <1>1, <1>2, <3>1, <3>2, OthersRest
    <3>3. CASE r = s
      BY <1>1, <1>2, <3>1, <3>3, OwnStart, OwnProcesses, OwnLaunch, OwnEnd
    <3> QED
      BY <3>2, <3>3
  <2> QED
    BY <2>1, <2>2 DEF AloneInv
<1>3. ASSUME NEW p \in procs, Bind(p) \/ Listen(p) \/ Confine(p) \/ Exit(p)
      PROVE  AloneInv'
  <2>1. alone' = alone
    BY <1>3 DEF Bind, Listen, Confine, Exit
  <2>2. ASSUME NEW r \in alone PROVE StartsAlone(r)' /\ RunsAlone(r)'
    <3>1. r \in Runs /\ StartsAlone(r) /\ RunsAlone(r)
      BY <1>1 DEF AloneInv
    <3> QED
      BY <1>1, <1>3, <3>1, BindAlone, ListenAlone, ConfineAlone, ExitAlone
  <2> QED
    BY <2>1, <2>2 DEF AloneInv
<1> QED
  BY <1>1, <1>2, <1>3, BeginAlone DEF HNext

\* The files and the processes of all launches, and what a launch that is alone
\* can count on, at every moment.
THEOREM LaunchInvariant == HSpec => []HInv
<1>1. HInv /\ [HNext]_hVars => HInv'
  <2>1. ASSUME HInv, HNext PROVE HInv'
    BY <2>1, AloneStep, BaseHStep DEF HInv, BaseHInv
  <2>2. ASSUME HInv, UNCHANGED hVars PROVE HInv'
    BY <2>2 DEF HInv, HTypes, FilesInv, FileOK, ProcsInv, ProcOK, Apart, AloneInv, StartsAlone, RunsAlone,
                Up, Doc, hVars
  <2> QED
    BY <2>1, <2>2
<1> QED
  BY HInvInit, <1>1, PTL DEF HSpec

LEMMA HInvHolds == HInv => LaunchesHold
<1> SUFFICES ASSUME HInv PROVE LaunchesHold
  OBVIOUS
<1> USE DEF HInv
<1>1. HarnessTypeOK
  BY DEF HarnessTypeOK, HTypes, FilesInv, FileOK, ProcsInv, Apart, Starting
<1>2. ConfinedAsAttested
  BY DEF ConfinedAsAttested, ProcsInv, ProcOK
<1>3. TornDown
  BY DEF TornDown, FilesInv, FileOK, ProcsInv, ProcOK
<1>4. OwnRouter
  BY DEF OwnRouter, AloneInv, RunsAlone, Up
<1>5. ModesAgree
  <2> DEFINE target(r) == Targets[plan[r].target]
             given(r, h) == (HostEnv \cap (target(r).strip \cup target(r).token)) \ h.doc.strip
  <2> SUFFICES ASSUME NEW r \in alone, pc[r] = "running",
                      NEW h \in Up(r, "confined"), NEW s \in Up(r, "shim"), NEW w \in Up(r, "router"), h.doc # NoDoc
               PROVE  /\ PreserveAuth(s) <=> w.doc.mode = "audit"
                      /\ given(r, h) = IF w.doc.mode = "audit" THEN (HostEnv \cap target(r).token) \ target(r).strip ELSE {}
    BY DEF ModesAgree
  <2>1. w.doc.mode = plan[r].mode /\ h.doc.strip = plan[r].strip
    BY DEF AloneInv, RunsAlone
  <2>2. s.doc.mode = plan[r].mode
    BY DEF Up, ProcsInv, ProcOK
  <2>3. plan[r] \in Plans
    BY DEF HTypes
  <2>4. plan[r].strip = EnvStripFor(target(r), plan[r].mode)
    BY <2>3, PlanHas
  <2>5. h.doc.strip = target(r).strip \cup (IF w.doc.mode # "audit" THEN target(r).token ELSE {})
    BY <2>1, <2>4 DEF EnvStripFor
  <2> QED
    BY <2>1, <2>2, <2>5 DEF PreserveAuth
<1> QED
  BY <1>1, <1>2, <1>3, <1>4, <1>5 DEF LaunchesHold

\* However the launches of any number of runs are interleaved, interrupted and
\* robbed of their processes: a harness runs only as confined as its policy's
\* certificate says, a shutdown leaves nothing of its run, and a session that
\* started alone is served by its own router, in the mode its shim and its
\* harness are in.
THEOREM LaunchesAreSound == HSpec => []LaunchesHold
BY LaunchInvariant, HInvHolds, PTL

-----------------------------------------------------------------------------
(***************************************************************************)
(* Confinement documents (Confinement).  Every dimension of a document is  *)
(* described by all that lies below it; the meet is the intersection of    *)
(* what lies below, and the canonical form keeps the greatest entries.     *)
(***************************************************************************)

Grants == [path : Path, rights : {{"read"}, {"read", "write"}}]
Patterns == [wild : BOOLEAN, labels : Seq(STRING)]

\* Up to which segment a path fixes what it covers.
Stem(p) == IF EndsInSlash(p) THEN Len(p) - 1 ELSE Len(p)

\* Paths are not empty.
LEMMA PathIs ==
  ASSUME NEW p \in Path
  PROVE  p \in Seq(STRING) /\ Len(p) \in Nat \ {0}
<1>1. p \in Seq(STRING) /\ p # <<>>
  BY DEF Path
<1> QED
  BY <1>1, EmptySeq

\* Prefixes, position by position.
LEMMA PrefixIs ==
  ASSUME NEW s \in Seq(STRING), NEW t \in Seq(STRING)
  PROVE  IsPrefix(s, t) <=> Len(s) <= Len(t) /\ \A i \in 1..Len(s) : s[i] = t[i]
<1>1. ASSUME Len(s) <= Len(t)
      PROVE  /\ SubSeq(s, 1, Len(s)) \in Seq(STRING) /\ Len(SubSeq(s, 1, Len(s))) = Len(s)
             /\ SubSeq(t, 1, Len(s)) \in Seq(STRING) /\ Len(SubSeq(t, 1, Len(s))) = Len(s)
             /\ \A i \in 1..Len(s) : SubSeq(s, 1, Len(s))[i] = s[i] /\ SubSeq(t, 1, Len(s))[i] = t[i]
  BY <1>1
<1> QED
  BY <1>1 DEF IsPrefix

\* A path without its last segment.
LEMMA FrontIs ==
  ASSUME NEW p \in Path
  PROVE  /\ Front(p) \in Seq(STRING) /\ Len(p) \in Nat \ {0} /\ Len(Front(p)) = Len(p) - 1
         /\ \A i \in 1..(Len(p) - 1) : Front(p)[i] = p[i]
<1>1. p \in Seq(STRING) /\ Len(p) \in Nat \ {0}
  BY PathIs
<1>2. \A i \in 1..(Len(p) - 1) : p[i] \in STRING
  BY <1>1, ElementOfSeq
<1>3. /\ Front(p) \in Seq(STRING)
      /\ Len(Front(p)) = IF 1 <= Len(p) - 1 THEN (Len(p) - 1) - 1 + 1 ELSE 0
      /\ \A i \in 1..((Len(p) - 1) - 1 + 1) : Front(p)[i] = p[1 + i - 1]
  BY <1>1, <1>2, SubSeqProperties DEF Front
<1>4. PICK n \in Nat : n = Len(p) - 1 /\ Len(p) - 1 \in Int
  BY <1>1
<1>5. Len(Front(p)) = n
  BY <1>3, <1>4
<1>6. \A i \in 1..n : Front(p)[i] = p[i]
  BY <1>3, <1>4
<1> QED
  BY <1>1, <1>3, <1>4, <1>5, <1>6

\* Up to where a path counts.
LEMMA StemIs ==
  ASSUME NEW x \in Path
  PROVE  /\ Len(x) \in Nat /\ Stem(x) \in Nat
         /\ Stem(x) <= Len(x) /\ Len(x) <= Stem(x) + 1
         /\ Stem(x) < Len(x) <=> EndsInSlash(x)
  BY PathIs DEF Stem

\* Whether a path ends in a slash is seen in its last segment.
LEMMA SameEnd ==
  ASSUME NEW x, NEW y, x[Len(x)] = y[Len(y)]
  PROVE  EndsInSlash(x) <=> EndsInSlash(y)
  BY DEF EndsInSlash, Last

\* Two paths that end in a slash end alike.
LEMMA EndsAlike ==
  ASSUME NEW x, NEW y, EndsInSlash(x), EndsInSlash(y)
  PROVE  x[Len(x)] = y[Len(y)]
  BY Zenon DEF EndsInSlash, Last

\* Containment and what lies in a path are the same relation.
LEMMA CoversIs ==
  ASSUME NEW p \in Path, NEW c \in Path
  PROVE  /\ Covers(p, c) <=> Len(c) >= Len(p) /\ \A i \in 1..Stem(p) : c[i] = p[i]
         /\ Covers(p, c) <=> InPath(p, c)
<1>1. p \in Seq(STRING) /\ c \in Seq(STRING) /\ Len(p) \in Nat \ {0} /\ Len(c) \in Nat \ {0}
  BY PathIs
<1>2. ASSUME EndsInSlash(p)
      PROVE  /\ Covers(p, c) <=> Len(c) >= Len(p) /\ \A i \in 1..Stem(p) : c[i] = p[i]
             /\ Covers(p, c) <=> InPath(p, c)
  <2>1. IsPrefix(Front(p), c) <=> Len(p) - 1 <= Len(c) /\ \A i \in 1..(Len(p) - 1) : p[i] = c[i]
    <3>1. PICK f \in Seq(STRING) : /\ f = Front(p) /\ Len(f) = Len(p) - 1
                                   /\ \A i \in 1..(Len(p) - 1) : f[i] = p[i]
      BY FrontIs
    <3>2. IsPrefix(f, c) <=> Len(f) <= Len(c) /\ \A i \in 1..Len(f) : f[i] = c[i]
      BY <1>1, PrefixIs
    <3> QED
      BY <3>1, <3>2
  <2>2. Len(Front(p)) = Len(p) - 1
    BY FrontIs
  <2>3. Covers(p, c) <=> Len(c) >= Len(p) /\ \A i \in 1..(Len(p) - 1) : p[i] = c[i]
    <3>1. Covers(p, c) <=> p = c \/ (Len(c) >= Len(p) /\ IsPrefix(Front(p), c))
      BY <1>2 DEF Covers
    <3> QED
      BY <1>1, <2>1, <3>1
  <2>4. InPath(p, c) <=> IsPrefix(Front(p), c) /\ Front(p) # c
    BY <1>2 DEF InPath, IsStrictPrefix
  <2>5. ASSUME IsPrefix(Front(p), c), Len(c) = Len(p) - 1 PROVE Front(p) = c
    <3>1. Len(Front(p)) = Len(c) /\ \A i \in 1..Len(Front(p)) : Front(p)[i] = c[i]
      BY <1>1, <2>1, <2>5, FrontIs
    <3> QED
      BY <1>1, <3>1, FrontIs, SeqEqual
  <2>6. InPath(p, c) <=> Len(c) >= Len(p) /\ \A i \in 1..(Len(p) - 1) : p[i] = c[i]
    BY <1>1, <2>1, <2>2, <2>4, <2>5
  <2> QED
    BY <1>2, <2>3, <2>6 DEF Stem
<1>3. ASSUME ~EndsInSlash(p)
      PROVE  /\ Covers(p, c) <=> Len(c) >= Len(p) /\ \A i \in 1..Stem(p) : c[i] = p[i]
             /\ Covers(p, c) <=> InPath(p, c)
  <2>1. IsPrefix(p, c) <=> Len(p) <= Len(c) /\ \A i \in 1..Len(p) : p[i] = c[i]
    BY <1>1, PrefixIs
  <2>2. InPath(p, c) <=> IsPrefix(p, c)
    BY <1>3 DEF InPath
  <2>3. ASSUME IsPrefix(p, c), Len(p) = Len(c) PROVE p = c
    BY <1>1, <2>1, <2>3, SeqEqual
  <2>4. Covers(p, c) <=> IsPrefix(p, c)
    <3>1. Covers(p, c) <=> p = c \/ (Len(c) > Len(p) /\ IsPrefix(p, c))
      BY <1>3 DEF Covers
    <3> QED
      BY <1>1, <2>1, <2>3, <3>1
  <2> QED
    BY <1>1, <1>3, <2>1, <2>2, <2>4 DEF Stem
<1> QED
  BY <1>2, <1>3

\* Containment is an order in which what contains one path is a chain.
LEMMA CoversOrder ==
  ASSUME NEW p \in Path, NEW q \in Path, NEW s \in Path
  PROVE  /\ Covers(p, p)
         /\ Covers(p, q) /\ Covers(q, s) => Covers(p, s)
         /\ Covers(p, q) /\ Covers(q, p) => p = q
         /\ Covers(p, s) /\ Covers(q, s) => Covers(p, q) \/ Covers(q, p)
<1>1. ASSUME Covers(p, q), Covers(q, s) PROVE Covers(p, s)
  <2>1. Len(s) >= Len(q) /\ Len(q) >= Len(p) /\ Len(p) \in Nat /\ Len(q) \in Nat /\ Len(s) \in Nat
    BY <1>1, CoversIs, StemIs
  <2>2. ASSUME NEW i \in 1..Stem(p) PROVE s[i] = p[i]
    <3>1. q[i] = p[i]
      BY <1>1, CoversIs
    <3>2. /\ Stem(p) \in Nat /\ Stem(p) <= Len(p) /\ (EndsInSlash(p) => Stem(p) < Len(p))
      BY StemIs
    <3>3. /\ Stem(q) \in Nat /\ Len(q) <= Stem(q) + 1 /\ (Stem(q) < Len(q) => EndsInSlash(q))
      BY StemIs
    <3>4. i \in 1..Stem(q)
      <4>1. CASE i = Len(q)
        <5>1. i = Len(p)
          BY <2>1, <3>2, <4>1
        <5>2. EndsInSlash(q) => EndsInSlash(p)
          BY <3>1, <4>1, <5>1, SameEnd
        <5> QED
          BY <2>1, <3>2, <3>3, <4>1, <5>1, <5>2
      <4>2. CASE i # Len(q)
        BY <2>1, <3>2, <3>3, <4>2
      <4> QED
        BY <4>1, <4>2
    <3> QED
      BY <1>1, <3>1, <3>4, CoversIs
  <2>3. Len(s) >= Len(p)
    BY <2>1
  <2> QED
    BY <2>2, <2>3, CoversIs
<1>2. ASSUME Covers(p, q), Covers(q, p) PROVE p = q
  <2>1. Len(q) >= Len(p) /\ Len(p) >= Len(q) /\ Len(p) \in Nat /\ Len(q) \in Nat
    BY <1>2, CoversIs, StemIs
  <2>2. /\ \A i \in 1..Stem(p) : q[i] = p[i]
        /\ \A i \in 1..Stem(q) : p[i] = q[i]
    BY <1>2, CoversIs
  <2>3. /\ Stem(p) \in Nat /\ Len(p) <= Stem(p) + 1 /\ (Stem(p) < Len(p) => EndsInSlash(p))
        /\ Stem(q) \in Nat /\ Len(q) <= Stem(q) + 1 /\ (Stem(q) < Len(q) => EndsInSlash(q))
    BY StemIs
  <2>4. ASSUME NEW i \in 1..Len(p) PROVE p[i] = q[i]
    <3>1. CASE i <= Stem(p) \/ i <= Stem(q)
      BY <2>1, <2>2, <2>3, <3>1
    <3>2. CASE i > Stem(p) /\ i > Stem(q)
      <4>1. i = Len(p) /\ i = Len(q) /\ Stem(p) < Len(p) /\ Stem(q) < Len(q)
        BY <2>1, <2>3, <3>2
      <4> QED
        BY <2>3, <4>1, EndsAlike
    <3> QED
      BY <2>3, <3>1, <3>2
  <2>5. Len(p) = Len(q) /\ p \in Seq(STRING) /\ q \in Seq(STRING)
    BY <2>1, PathIs
  <2> QED
    BY <2>4, <2>5, SeqEqual
<1>3. ASSUME NEW x \in Path, NEW y \in Path, Covers(x, s), Covers(y, s), Len(x) <= Len(y)
      PROVE  Covers(x, y) \/ Covers(y, x)
  <2>1. /\ \A i \in 1..Stem(x) : s[i] = x[i]
        /\ \A i \in 1..Stem(y) : s[i] = y[i]
    BY <1>3, CoversIs
  <2>2. /\ Len(x) \in Nat /\ Stem(x) \in Nat /\ Stem(x) <= Len(x)
        /\ Len(y) \in Nat /\ Stem(y) \in Nat /\ Len(y) <= Stem(y) + 1
    BY StemIs
  <2>3. CASE Stem(x) <= Stem(y)
    <3>1. ASSUME NEW i \in 1..Stem(x) PROVE y[i] = x[i]
      <4>1. i \in 1..Stem(y)
        BY <2>2, <2>3
      <4> QED
        BY <2>1, <4>1
    <3>2. Len(y) >= Len(x)
      BY <1>3, <2>2
    <3> QED
      BY <3>1, <3>2, CoversIs
  <2>4. CASE Stem(x) > Stem(y)
    <3>1. ASSUME NEW i \in 1..Stem(y) PROVE x[i] = y[i]
      <4>1. i \in 1..Stem(x)
        BY <2>2, <2>4
      <4> QED
        BY <2>1, <4>1
    <3>2. Len(x) >= Len(y)
      BY <1>3, <2>2, <2>4
    <3> QED
      BY <3>1, <3>2, CoversIs
  <2> QED
    BY <2>2, <2>3, <2>4
<1>4. Covers(p, p)
  BY DEF Covers
<1>5. Len(p) <= Len(q) \/ Len(q) <= Len(p)
  BY StemIs
<1> QED
  BY <1>1, <1>2, <1>3, <1>4, <1>5

\* So are host patterns, and a host lies in a pattern as its own pattern does.
LEMMA HostOrder ==
  ASSUME NEW p \in Patterns, NEW q \in Patterns, NEW s \in Patterns
  PROVE  /\ HostCovers(p, p)
         /\ HostCovers(p, q) /\ HostCovers(q, s) => HostCovers(p, s)
         /\ HostCovers(p, q) /\ HostCovers(q, p) => p = q
         /\ HostCovers(p, s) /\ HostCovers(q, s) => HostCovers(p, q) \/ HostCovers(q, p)
<1>1. \A x \in Patterns : x.wild \in BOOLEAN /\ x.labels \in Seq(STRING) /\ Len(x.labels) \in Nat
  BY DEF Patterns
<1>2. \A x, y \in Patterns : IsPrefix(x.labels, y.labels) <=>
        Len(x.labels) <= Len(y.labels) /\ \A i \in 1..Len(x.labels) : x.labels[i] = y.labels[i]
  BY <1>1, PrefixIs
<1>3. ASSUME NEW x \in Patterns, NEW y \in Patterns, x.wild = y.wild, x.labels = y.labels
      PROVE  x = y
  <2>1. x = [wild |-> x.wild, labels |-> x.labels] /\ y = [wild |-> y.wild, labels |-> y.labels]
    BY DEF Patterns
  <2> QED
    BY <1>3, <2>1
<1>4. ASSUME NEW x \in Patterns, NEW y \in Patterns, IsPrefix(x.labels, y.labels),
             Len(x.labels) = Len(y.labels)
      PROVE  x.labels = y.labels
  BY <1>1, <1>2, <1>4, SeqEqual
<1>5. HostCovers(p, p)
  BY DEF HostCovers
<1>6. ASSUME NEW x \in Patterns, NEW y \in Patterns, NEW z \in Patterns,
             IsPrefix(x.labels, y.labels), IsPrefix(y.labels, z.labels)
      PROVE  IsPrefix(x.labels, z.labels)
  BY <1>1, <1>2, <1>6
<1>7. ASSUME HostCovers(p, q), HostCovers(q, s) PROVE HostCovers(p, s)
  <2>1. CASE p = q \/ q = s
    BY <1>7, <2>1
  <2>2. CASE p # q /\ q # s
    <3>1. p.wild /\ q.wild /\ IsPrefix(p.labels, q.labels) /\ IsPrefix(q.labels, s.labels)
      BY <1>7, <2>2 DEF HostCovers
    <3>2. s.wild \/ Len(s.labels) > Len(q.labels)
      BY <1>7, <2>2 DEF HostCovers
    <3>3. s.wild \/ Len(s.labels) > Len(p.labels)
      BY <1>1, <1>2, <3>1, <3>2
    <3> QED
      BY <1>6, <3>1, <3>3 DEF HostCovers
  <2> QED
    BY <2>1, <2>2
<1>8. ASSUME HostCovers(p, q), HostCovers(q, p), p # q PROVE FALSE
  <2>1. p.wild /\ q.wild /\ IsPrefix(p.labels, q.labels) /\ IsPrefix(q.labels, p.labels)
    BY <1>8 DEF HostCovers
  <2>2. Len(p.labels) = Len(q.labels)
    BY <1>1, <1>2, <2>1
  <2> QED
    BY <1>1, <1>3, <1>4, <1>8, <2>1, <2>2
<1>9. ASSUME NEW x \in Patterns, NEW y \in Patterns, HostCovers(x, s), HostCovers(y, s),
             Len(x.labels) <= Len(y.labels)
      PROVE  HostCovers(x, y) \/ HostCovers(y, x)
  <2>1. CASE x = s \/ y = s
    BY <1>9, <2>1
  <2>2. CASE x # s /\ y # s
    <3>1. x.wild /\ y.wild /\ IsPrefix(x.labels, s.labels) /\ IsPrefix(y.labels, s.labels)
      BY <1>9, <2>2 DEF HostCovers
    <3>2. IsPrefix(x.labels, y.labels)
      BY <1>1, <1>2, <1>9, <3>1
    <3> QED
      BY <3>1, <3>2 DEF HostCovers
  <2> QED
    BY <2>1, <2>2
<1> QED
  BY <1>1, <1>5, <1>7, <1>8, <1>9

\* In a finite set with the elements above each given, there is above each one
\* with nothing above it.
LEMMA GreatestAbove ==
  ASSUME NEW P, IsFiniteSet(P), NEW up \in [P -> SUBSET P], NEW o \in P,
         \A x \in P : x \notin up[x],
         \A x \in P : \A y \in up[x] : up[y] \subseteq up[x]
  PROVE  \E m \in P : (m = o \/ m \in up[o]) /\ up[m] = {}
<1> DEFINE Upper == up[o] \cup {o}
           Sizes == {Cardinality(up[y]) : y \in Upper}
<1>1. ASSUME NEW y \in P PROVE IsFiniteSet(up[y]) /\ Cardinality(up[y]) \in Nat
  <2>1. up[y] \in SUBSET P
    OBVIOUS
  <2>2. IsFiniteSet(up[y])
    BY <2>1, FS_Subset
  <2> QED
    BY <2>2, FS_CardinalityType
<1>2. Sizes \subseteq Nat /\ Sizes # {}
  <2>1. o \in Upper /\ Upper \subseteq P
    OBVIOUS
  <2> HIDE DEF Upper
  <2> QED
    BY <1>1, <2>1
<1>3. PICK n \in Sizes : \A k \in Sizes : n <= k
  <2> HIDE DEF Sizes
  <2> QED
    BY <1>2, LeastOf
<1>4. PICK m \in Upper : n = Cardinality(up[m])
  OBVIOUS
<1>5. m \in P
  OBVIOUS
<1>6. ASSUME NEW y \in up[m] PROVE FALSE
  <2>1. y \in P /\ y \in Upper
    BY <1>5
  <2>2. up[y] \in SUBSET up[m] /\ y \notin up[y]
    BY <1>5, <2>1
  <2>3. Cardinality(up[y]) <= Cardinality(up[m]) /\ Cardinality(up[m]) # Cardinality(up[y])
    BY <1>1, <1>5, <2>2, FS_Subset
  <2>4. n <= Cardinality(up[y])
    BY <1>3, <2>1
  <2>5. Cardinality(up[y]) \in Nat /\ Cardinality(up[m]) \in Nat
    BY <1>1, <1>5, <2>1
  <2> QED
    BY <1>4, <2>3, <2>4, <2>5
<1> QED
  BY <1>5, <1>6

\* What lies below a set of grants, and below a set of host patterns.
Narrower(x, y) == Covers(y.path, x.path) /\ x.rights \subseteq y.rights
FsBelow(S) == {g \in Grants : \E e \in S : Narrower(g, e)}
Greatest(S) == {x \in S : \A y \in S : y # x => ~HostCovers(y, x)}
HostsBelow(S) == {h \in Patterns : \E o \in S : HostCovers(o, h)}

\* Grants are ordered by path and rights.
LEMMA GrantOrder ==
  ASSUME NEW a \in Grants, NEW b \in Grants, NEW c \in Grants
  PROVE  /\ Narrower(a, a)
         /\ Narrower(a, b) /\ Narrower(b, c) => Narrower(a, c)
         /\ Narrower(a, b) /\ Narrower(b, a) => a = b
<1>1. \A x \in Grants : x.path \in Path /\ x = [path |-> x.path, rights |-> x.rights]
  BY DEF Grants
<1>2. /\ Covers(a.path, a.path)
      /\ Covers(c.path, b.path) /\ Covers(b.path, a.path) => Covers(c.path, a.path)
      /\ Covers(b.path, a.path) /\ Covers(a.path, b.path) => a.path = b.path
  BY <1>1, CoversOrder
<1>3. a.rights \subseteq b.rights /\ b.rights \subseteq a.rights => a.rights = b.rights
  OBVIOUS
<1>4. a.path = b.path /\ a.rights = b.rights => a = b
  BY <1>1
<1> QED
  BY <1>2, <1>3, <1>4 DEF Narrower

\* Leaving out subsumed grants changes nothing below, and what is left is
\* determined by what is below.
LEMMA DropBelow ==
  ASSUME NEW P, P \subseteq Grants, IsFiniteSet(P)
  PROVE  FsBelow(DropSubsumed(P)) = FsBelow(P)
<1>1. PICK up : up = [x \in P |-> {y \in P : y # x /\ Narrower(x, y)}]
  OBVIOUS
<1>2. /\ up \in [P -> SUBSET P] /\ \A x \in P : x \notin up[x]
      /\ \A x, y \in P : y \in up[x] <=> y # x /\ Narrower(x, y)
  BY <1>1
<1>3. ASSUME NEW x \in P, NEW y \in up[x] PROVE up[y] \subseteq up[x]
  <2>1. y \in P /\ y # x /\ Narrower(x, y)
    BY <1>2
  <2>2. ASSUME NEW z \in up[y] PROVE z \in up[x]
    <3>1. z \in P /\ z # y /\ Narrower(y, z)
      BY <1>2, <2>1
    <3>2. Narrower(x, z) /\ z # x
      BY <2>1, <3>1, GrantOrder
    <3> QED
      BY <1>2, <3>1, <3>2
  <2> QED
    BY <2>2
<1>4. ASSUME NEW x \in P PROVE \E m \in DropSubsumed(P) : Narrower(x, m)
  <2>1. PICK m \in P : (m = x \/ m \in up[x]) /\ up[m] = {}
    BY <1>2, <1>3, GreatestAbove
  <2>2. Narrower(x, m)
    BY <1>2, <2>1, GrantOrder
  <2>3. m \in DropSubsumed(P)
    BY <1>2, <2>1 DEF DropSubsumed, Narrower
  <2> QED
    BY <2>2, <2>3
<1>5. ASSUME NEW g \in FsBelow(P) PROVE g \in FsBelow(DropSubsumed(P))
  <2>1. g \in Grants
    BY DEF FsBelow
  <2>2. PICK e \in P : Narrower(g, e)
    BY DEF FsBelow
  <2>3. PICK m \in DropSubsumed(P) : Narrower(e, m)
    BY <1>4
  <2>4. m \in Grants /\ e \in Grants
    BY DEF DropSubsumed
  <2>5. Narrower(g, m)
    BY <2>1, <2>2, <2>3, <2>4, GrantOrder
  <2> QED
    BY <2>1, <2>3, <2>5 DEF FsBelow
<1>6. ASSUME NEW g \in FsBelow(DropSubsumed(P)) PROVE g \in FsBelow(P)
  BY DEF FsBelow, DropSubsumed
<1> QED
  BY <1>5, <1>6

\* Sets of grants with the same below, of which nothing can be left out, are
\* the same.
LEMMA FsDetermined ==
  ASSUME NEW P, P \subseteq Grants, NEW Q, Q \subseteq Grants,
         DropSubsumed(P) = P, DropSubsumed(Q) = Q, FsBelow(P) = FsBelow(Q)
  PROVE  P = Q
<1>1. ASSUME NEW A, NEW B, A \subseteq Grants, B \subseteq Grants, DropSubsumed(A) = A,
             FsBelow(A) = FsBelow(B), NEW x \in A
      PROVE  x \in B
  <2>1. x \in FsBelow(A)
    BY <1>1, GrantOrder DEF FsBelow
  <2>2. PICK b \in B : Narrower(x, b)
    BY <1>1, <2>1 DEF FsBelow
  <2>3. b \in FsBelow(B)
    BY <1>1, GrantOrder DEF FsBelow
  <2>4. PICK a \in A : Narrower(b, a)
    BY <1>1, <2>3 DEF FsBelow
  <2>5. Narrower(x, a)
    BY <1>1, <2>2, <2>4, GrantOrder
  <2>6. a = x
    BY <1>1, <2>5 DEF DropSubsumed, Narrower
  <2> QED
    BY <1>1, <2>2, <2>4, <2>6, GrantOrder
<1>2. P \subseteq Q
  BY <1>1
<1>3. Q \subseteq P
  BY <1>1
<1> QED
  BY <1>2, <1>3

\* What is left of grants once can be left as it is.
LEMMA DropTwice ==
  ASSUME NEW P
  PROVE  DropSubsumed(DropSubsumed(P)) = DropSubsumed(P)
  BY DEF DropSubsumed

-----------------------------------------------------------------------------
(* The meet of two sets of grants. *)

Inner(a, b) == IF Covers(a.path, b.path) THEN b.path ELSE a.path
Both(q) == [path |-> Inner(q[1], q[2]), rights |-> q[1].rights \cap q[2].rights]
Pairs(l, r) ==
  {q \in {q \in l \X r : q[1].rights \cap q[2].rights # {}} :
      Covers(q[1].path, q[2].path) \/ Covers(q[2].path, q[1].path)}

\* The meet of grants is what is left of the pairs of comparable paths.
LEMMA MeetOfPairs ==
  ASSUME NEW l, NEW r
  PROVE  MeetGrants(l, r) = DropSubsumed({Both(q) : q \in Pairs(l, r)})
  BY DEF MeetGrants, Both, Inner, Pairs

\* A grant of both.
LEMMA BothIs ==
  ASSUME NEW a \in Grants, NEW b \in Grants, a.rights \cap b.rights # {},
         Covers(a.path, b.path) \/ Covers(b.path, a.path)
  PROVE  /\ Both(<<a, b>>) \in Grants
         /\ Both(<<a, b>>).path \in {a.path, b.path}
         /\ Narrower(Both(<<a, b>>), a) /\ Narrower(Both(<<a, b>>), b)
         /\ \A g \in Grants : Narrower(g, a) /\ Narrower(g, b) => Narrower(g, Both(<<a, b>>))
<1>1. \A x \in Grants : x.path \in Path /\ x.rights \in {{"read"}, {"read", "write"}}
  BY DEF Grants
<1>2. Both(<<a, b>>).path = Inner(a, b) /\ Both(<<a, b>>).rights = a.rights \cap b.rights
  BY DEF Both
<1>3. Inner(a, b) \in {a.path, b.path} /\ Covers(a.path, Inner(a, b)) /\ Covers(b.path, Inner(a, b))
  BY <1>1, CoversOrder DEF Inner
<1>4. a.rights \cap b.rights \in {{"read"}, {"read", "write"}}
  BY <1>1
<1>5. Both(<<a, b>>) \in Grants
  BY <1>1, <1>3, <1>4 DEF Both, Grants
<1>6. Narrower(Both(<<a, b>>), a) /\ Narrower(Both(<<a, b>>), b)
  BY <1>2, <1>3 DEF Narrower
<1>7. ASSUME NEW g \in Grants, Narrower(g, a), Narrower(g, b) PROVE Narrower(g, Both(<<a, b>>))
  <2>1. Covers(Inner(a, b), g.path)
    BY <1>3, <1>7 DEF Narrower
  <2>2. g.rights \subseteq a.rights \cap b.rights
    BY <1>7 DEF Narrower
  <2> QED
    BY <1>2, <2>1, <2>2 DEF Narrower
<1> QED
  BY <1>2, <1>3, <1>5, <1>6, <1>7

\* Finitely many grants meet in finitely many.
LEMMA PairsFinite ==
  ASSUME NEW l, NEW r, IsFiniteSet(l), IsFiniteSet(r)
  PROVE  IsFiniteSet({Both(q) : q \in Pairs(l, r)})
<1>1. IsFiniteSet(l \X r)
  BY FS_Product
<1>2. IsFiniteSet(Pairs(l, r))
  <2>1. Pairs(l, r) \in SUBSET (l \X r)
    BY DEF Pairs
  <2> QED
    BY <1>1, <2>1, FS_Subset
<1>3. [q \in Pairs(l, r) |-> Both(q)] \in Surjection(Pairs(l, r), {Both(q) : q \in Pairs(l, r)})
  BY DEF Surjection
<1> QED
  BY <1>2, <1>3, FS_Surjection

\* What the meet of grants lets happen is what both let happen.
LEMMA MeetGrantsIs ==
  ASSUME NEW l, l \subseteq Grants, IsFiniteSet(l), NEW r, r \subseteq Grants, IsFiniteSet(r)
  PROVE  /\ MeetGrants(l, r) \subseteq Grants /\ IsFiniteSet(MeetGrants(l, r))
         /\ FsBelow(MeetGrants(l, r)) = FsBelow(l) \cap FsBelow(r)
         /\ DropSubsumed(MeetGrants(l, r)) = MeetGrants(l, r)
         /\ \A x \in MeetGrants(l, r) : \E y \in l \cup r : x.path = y.path
<1>1. PICK P : P = {Both(q) : q \in Pairs(l, r)}
  OBVIOUS
<1>2. MeetGrants(l, r) = DropSubsumed(P) /\ DropSubsumed(P) \in SUBSET P
  BY <1>1, MeetOfPairs DEF DropSubsumed
<1>3. ASSUME NEW x \in P
      PROVE  \E a \in l : \E b \in r : /\ a.rights \cap b.rights # {} /\ x = Both(<<a, b>>)
                                       /\ Covers(a.path, b.path) \/ Covers(b.path, a.path)
  <2>1. PICK q \in Pairs(l, r) : x = Both(q)
    BY <1>1
  <2>2. q \in l \X r /\ q[1].rights \cap q[2].rights # {} /\ (Covers(q[1].path, q[2].path) \/ Covers(q[2].path, q[1].path))
    BY DEF Pairs
  <2>3. q = <<q[1], q[2]>> /\ q[1] \in l /\ q[2] \in r
    BY <2>2
  <2> QED
    BY <2>1, <2>2, <2>3
<1>4. ASSUME NEW x \in P PROVE x \in Grants
  <2>1. PICK a \in l, b \in r : /\ a.rights \cap b.rights # {} /\ x = Both(<<a, b>>)
                                /\ Covers(a.path, b.path) \/ Covers(b.path, a.path)
    BY <1>3
  <2>2. a \in Grants /\ b \in Grants
    OBVIOUS
  <2> QED
    BY <2>1, <2>2, BothIs
<1>5. IsFiniteSet(P)
  BY <1>1, PairsFinite
<1>6. IsFiniteSet(DropSubsumed(P))
  BY <1>2, <1>5, FS_Subset
<1>7. \A x \in P : \E y \in l \cup r : x.path = y.path
  <2> TAKE x \in P
  <2>1. PICK a \in l, b \in r : /\ a.rights \cap b.rights # {} /\ x = Both(<<a, b>>)
                                /\ Covers(a.path, b.path) \/ Covers(b.path, a.path)
    BY <1>3
  <2>2. x.path \in {a.path, b.path}
    BY <2>1, BothIs
  <2> QED
    BY <2>2
<1>8. ASSUME NEW g \in FsBelow(P) PROVE g \in FsBelow(l) \cap FsBelow(r)
  <2>1. PICK x \in P : Narrower(g, x) /\ g \in Grants
    BY DEF FsBelow
  <2>2. PICK a \in l, b \in r : /\ a.rights \cap b.rights # {} /\ x = Both(<<a, b>>)
                                /\ Covers(a.path, b.path) \/ Covers(b.path, a.path)
    BY <1>3
  <2>3. Narrower(x, a) /\ Narrower(x, b) /\ a \in Grants /\ b \in Grants /\ x \in Grants
    BY <2>2, BothIs
  <2>4. Narrower(g, a) /\ Narrower(g, b)
    BY <2>1, <2>3, GrantOrder
  <2> QED
    BY <2>1, <2>4 DEF FsBelow
<1>9. ASSUME NEW g \in FsBelow(l) \cap FsBelow(r) PROVE g \in FsBelow(P)
  <2>1. PICK a \in l, b \in r : Narrower(g, a) /\ Narrower(g, b) /\ g \in Grants
    BY DEF FsBelow
  <2>2. a \in Grants /\ b \in Grants /\ a.path \in Path /\ b.path \in Path /\ g.path \in Path
    BY <2>1 DEF Grants
  <2>3. Covers(a.path, b.path) \/ Covers(b.path, a.path)
    BY <2>1, <2>2, CoversOrder DEF Narrower
  <2>4. a.rights \cap b.rights # {}
    <3>1. "read" \in g.rights
      BY <2>1 DEF Grants
    <3> QED
      BY <2>1, <3>1 DEF Narrower
  <2>5. <<a, b>> \in Pairs(l, r)
    BY <2>3, <2>4 DEF Pairs
  <2>6. Both(<<a, b>>) \in P
    BY <1>1, <2>5
  <2>7. Narrower(g, Both(<<a, b>>))
    BY <2>1, <2>2, <2>3, <2>4, BothIs
  <2> QED
    BY <2>1, <2>6, <2>7 DEF FsBelow
<1>10. FsBelow(DropSubsumed(P)) = FsBelow(l) \cap FsBelow(r)
  BY <1>4, <1>5, <1>8, <1>9, DropBelow
<1>11. DropSubsumed(P) \subseteq Grants /\ \A x \in DropSubsumed(P) : \E y \in l \cup r : x.path = y.path
  BY <1>2, <1>4, <1>7
<1> QED
  BY <1>2, <1>6, <1>10, <1>11, DropTwice

-----------------------------------------------------------------------------
(* The meet of two sets of host patterns. *)

Kept(l, r) == {a \in l : \E b \in r : HostCovers(b, a)} \cup {b \in r : \E a \in l : HostCovers(a, b)}

\* Leaving out subsumed patterns changes nothing below.
LEMMA GreatestBelow ==
  ASSUME NEW P, P \subseteq Patterns, IsFiniteSet(P)
  PROVE  HostsBelow(Greatest(P)) = HostsBelow(P)
<1>1. PICK up : up = [x \in P |-> {y \in P : y # x /\ HostCovers(y, x)}]
  OBVIOUS
<1>2. /\ up \in [P -> SUBSET P] /\ \A x \in P : x \notin up[x]
      /\ \A x, y \in P : y \in up[x] <=> y # x /\ HostCovers(y, x)
  BY <1>1
<1>3. ASSUME NEW x \in P, NEW y \in up[x] PROVE up[y] \subseteq up[x]
  <2>1. y \in P /\ y # x /\ HostCovers(y, x)
    BY <1>2
  <2>2. ASSUME NEW z \in up[y] PROVE z \in up[x]
    <3>1. z \in P /\ z # y /\ HostCovers(z, y)
      BY <1>2, <2>1
    <3>2. HostCovers(z, x) /\ z # x
      BY <2>1, <3>1, HostOrder
    <3> QED
      BY <1>2, <3>1, <3>2
  <2> QED
    BY <2>2
<1>4. ASSUME NEW x \in P PROVE \E m \in Greatest(P) : HostCovers(m, x)
  <2>1. PICK m \in P : (m = x \/ m \in up[x]) /\ up[m] = {}
    BY <1>2, <1>3, GreatestAbove
  <2>2. HostCovers(m, x)
    BY <1>2, <2>1, HostOrder
  <2>3. m \in Greatest(P)
    BY <1>2, <2>1 DEF Greatest
  <2> QED
    BY <2>2, <2>3
<1>5. ASSUME NEW h \in HostsBelow(P) PROVE h \in HostsBelow(Greatest(P))
  <2>1. PICK e \in P : HostCovers(e, h) /\ h \in Patterns
    BY DEF HostsBelow
  <2>2. PICK m \in Greatest(P) : HostCovers(m, e)
    BY <1>4
  <2>3. m \in Patterns /\ e \in Patterns
    BY DEF Greatest
  <2>4. HostCovers(m, h)
    BY <2>1, <2>2, <2>3, HostOrder
  <2> QED
    BY <2>1, <2>2, <2>4 DEF HostsBelow
<1>6. ASSUME NEW h \in HostsBelow(Greatest(P)) PROVE h \in HostsBelow(P)
  BY DEF HostsBelow, Greatest
<1> QED
  BY <1>5, <1>6

\* Sets of patterns with the same below, of which nothing can be left out, are
\* the same.
LEMMA HostsDetermined ==
  ASSUME NEW P, P \subseteq Patterns, NEW Q, Q \subseteq Patterns,
         Greatest(P) = P, Greatest(Q) = Q, HostsBelow(P) = HostsBelow(Q)
  PROVE  P = Q
<1>1. ASSUME NEW A, NEW B, A \subseteq Patterns, B \subseteq Patterns, Greatest(A) = A,
             HostsBelow(A) = HostsBelow(B), NEW x \in A
      PROVE  x \in B
  <2>1. x \in HostsBelow(A)
    BY <1>1, HostOrder DEF HostsBelow
  <2>2. PICK b \in B : HostCovers(b, x)
    BY <1>1, <2>1 DEF HostsBelow
  <2>3. b \in HostsBelow(B)
    BY <1>1, HostOrder DEF HostsBelow
  <2>4. PICK a \in A : HostCovers(a, b)
    BY <1>1, <2>3 DEF HostsBelow
  <2>5. HostCovers(a, x)
    BY <1>1, <2>2, <2>4, HostOrder
  <2>6. a = x
    BY <1>1, <2>5 DEF Greatest
  <2> QED
    BY <1>1, <2>2, <2>4, <2>6, HostOrder
<1>2. P \subseteq Q
  BY <1>1
<1>3. Q \subseteq P
  BY <1>1
<1> QED
  BY <1>2, <1>3

\* What the meet of patterns lets happen is what both let happen.
LEMMA MeetHostsIs ==
  ASSUME NEW l, l \subseteq Patterns, IsFiniteSet(l), NEW r, r \subseteq Patterns, IsFiniteSet(r)
  PROVE  /\ MeetHosts(l, r) \subseteq l \cup r /\ IsFiniteSet(MeetHosts(l, r))
         /\ HostsBelow(MeetHosts(l, r)) = HostsBelow(l) \cap HostsBelow(r)
         /\ Greatest(MeetHosts(l, r)) = MeetHosts(l, r)
<1>1. MeetHosts(l, r) = Greatest(Kept(l, r))
  BY DEF MeetHosts, Greatest, Kept
<1>2. Kept(l, r) \in SUBSET (l \cup r) /\ Greatest(Kept(l, r)) \in SUBSET Kept(l, r)
  BY DEF Kept, Greatest
<1>3. IsFiniteSet(l \cup r)
  BY FS_Union
<1>4. IsFiniteSet(Kept(l, r))
  BY <1>2, <1>3, FS_Subset
<1>5. IsFiniteSet(Greatest(Kept(l, r)))
  BY <1>2, <1>4, FS_Subset
<1>6. HostsBelow(Greatest(Kept(l, r))) = HostsBelow(Kept(l, r))
  <2>1. Kept(l, r) \subseteq Patterns
    BY <1>2
  <2> QED
    BY <1>4, <2>1, GreatestBelow
<1>7. ASSUME NEW h \in HostsBelow(Kept(l, r)) PROVE h \in HostsBelow(l) \cap HostsBelow(r)
  <2>1. PICK x \in Kept(l, r) : HostCovers(x, h) /\ h \in Patterns
    BY DEF HostsBelow
  <2>2. x \in Patterns
    BY <1>2
  <2>3. PICK a \in l, b \in r : HostCovers(a, x) /\ HostCovers(b, x)
    BY <2>2, HostOrder DEF Kept
  <2>4. a \in Patterns /\ b \in Patterns
    OBVIOUS
  <2>5. HostCovers(a, h) /\ HostCovers(b, h)
    BY <2>1, <2>2, <2>3, <2>4, HostOrder
  <2> QED
    BY <2>1, <2>5 DEF HostsBelow
<1>8. ASSUME NEW h \in HostsBelow(l) \cap HostsBelow(r) PROVE h \in HostsBelow(Kept(l, r))
  <2>1. PICK a \in l, b \in r : HostCovers(a, h) /\ HostCovers(b, h) /\ h \in Patterns
    BY DEF HostsBelow
  <2>2. HostCovers(a, b) \/ HostCovers(b, a)
    BY <2>1, HostOrder
  <2>3. a \in Kept(l, r) \/ b \in Kept(l, r)
    BY <2>2 DEF Kept
  <2> QED
    BY <2>1, <2>3 DEF HostsBelow
<1>9. Greatest(Greatest(Kept(l, r))) = Greatest(Kept(l, r))
  BY DEF Greatest
<1>10. HostsBelow(Kept(l, r)) = HostsBelow(l) \cap HostsBelow(r)
  BY <1>7, <1>8
<1>11. Greatest(Kept(l, r)) \subseteq l \cup r
  BY <1>2
<1> QED
  BY <1>1, <1>5, <1>6, <1>9, <1>10, <1>11

-----------------------------------------------------------------------------
(* Ports, sockets and sources. *)

PortDecls == {<<>>} \cup (Nat \X STRING)
Sockets == [path : STRING, rights : (SUBSET {"connect", "bind"}) \ {{}}]
OnePerPath(S) == \A a, b \in S : a.path = b.path => a = b

PortBelow(p) == {q \in Nat \X STRING : OnPort(p, q)}
SocketsBelow(S) == {x \in STRING \X {"connect", "bind"} : \E e \in S : e.path = x[1] /\ x[2] \in e.rights}
SourceBelow(s) == {s} \ {NoSource}

\* A port is its number and its address.
LEMMA PortIs ==
  ASSUME NEW p \in Nat \X STRING
  PROVE  p # <<>> /\ p[1] \in Nat /\ p[2] \in STRING /\ p = <<p[1], p[2]>> /\ OnPort(p, p)
<1>1. p = <<p[1], p[2]>> /\ p[1] \in Nat /\ p[2] \in STRING
  OBVIOUS
<1>2. p # <<>>
  BY <1>1
<1> QED
  BY <1>1, <1>2 DEF OnPort

\* What the meet of ports lets happen is what both let happen.
LEMMA MeetPortIs ==
  ASSUME NEW l \in PortDecls, NEW r \in PortDecls
  PROVE  /\ MeetPort(l, r) \in {l, r, <<>>}
         /\ PortBelow(MeetPort(l, r)) = PortBelow(l) \cap PortBelow(r)
<1>1. MeetPort(l, r) \in {l, r, <<>>}
  BY DEF MeetPort
<1>2. ASSUME NEW q \in Nat \X STRING
      PROVE  OnPort(MeetPort(l, r), q) <=> OnPort(l, q) /\ OnPort(r, q)
  <2>1. CASE l = <<>> \/ r = <<>>
    BY <2>1 DEF MeetPort, OnPort
  <2>2. CASE l # <<>> /\ r # <<>>
    BY <2>2 DEF MeetPort, OnPort
  <2> QED
    BY <2>1, <2>2
<1> QED
  BY <1>1, <1>2 DEF PortBelow

\* Ports with the same below are the same.
LEMMA PortDetermined ==
  ASSUME NEW p \in PortDecls, NEW q \in PortDecls, PortBelow(p) = PortBelow(q)
  PROVE  p = q
<1>1. CASE p = <<>> \/ q = <<>>
  <2>1. ASSUME NEW x \in PortDecls, x # <<>> PROVE x \in PortBelow(x)
    BY <2>1, PortIs DEF PortDecls, PortBelow
  <2>2. PortBelow(<<>>) = {}
    BY DEF PortBelow, OnPort
  <2> QED
    BY <1>1, <2>1, <2>2
<1>2. CASE p # <<>> /\ q # <<>>
  <2>1. p \in Nat \X STRING /\ q \in Nat \X STRING
    BY <1>2 DEF PortDecls
  <2>2. p = <<p[1], p[2]>> /\ q = <<q[1], q[2]>> /\ p \in PortBelow(p) /\ q \in PortBelow(q)
    BY <2>1, PortIs DEF PortBelow
  <2>3. OnPort(q, p) /\ OnPort(p, q)
    BY <2>2 DEF PortBelow
  <2>4. p[1] = q[1] /\ p[2] = q[2]
    BY <2>3 DEF OnPort
  <2> QED
    BY <2>2, <2>4
<1> QED
  BY <1>1, <1>2

\* What the meet of sockets lets happen is what both let happen.
LEMMA MeetSocketsIs ==
  ASSUME NEW l, l \subseteq Sockets, OnePerPath(l), NEW r, r \subseteq Sockets, OnePerPath(r)
  PROVE  /\ MeetExactGrants(l, r) \subseteq Sockets /\ OnePerPath(MeetExactGrants(l, r))
         /\ SocketsBelow(MeetExactGrants(l, r)) = SocketsBelow(l) \cap SocketsBelow(r)
         /\ \A e \in MeetExactGrants(l, r) : \E g \in l : g.path = e.path
<1>1. PICK M : M = MeetExactGrants(l, r)
  OBVIOUS
<1>2. ASSUME NEW e \in M
      PROVE  \E a \in l : \E b \in r :
               /\ a.path = b.path /\ a.rights \cap b.rights # {}
               /\ e = [path |-> a.path, rights |-> a.rights \cap b.rights]
  <2>1. PICK q \in l \X r : /\ q[1].path = q[2].path /\ q[1].rights \cap q[2].rights # {}
                            /\ e = [path |-> q[1].path, rights |-> q[1].rights \cap q[2].rights]
    BY <1>1 DEF MeetExactGrants
  <2>2. q[1] \in l /\ q[2] \in r
    OBVIOUS
  <2> QED
    BY <2>1, <2>2
<1>3. ASSUME NEW a \in l, NEW b \in r, a.path = b.path, a.rights \cap b.rights # {}
      PROVE  [path |-> a.path, rights |-> a.rights \cap b.rights] \in M
  <2>1. <<a, b>> \in l \X r /\ <<a, b>>[1] = a /\ <<a, b>>[2] = b
    OBVIOUS
  <2> QED
    BY <1>1, <1>3, <2>1 DEF MeetExactGrants
<1>4. \A x \in Sockets : x.path \in STRING /\ x.rights \in SUBSET {"connect", "bind"} /\ x.rights # {}
  BY DEF Sockets
<1>5. ASSUME NEW e \in M PROVE e \in Sockets /\ \E g \in l : g.path = e.path
  <2>1. PICK a \in l, b \in r : /\ a.path = b.path /\ a.rights \cap b.rights # {}
                                /\ e = [path |-> a.path, rights |-> a.rights \cap b.rights]
    BY <1>2
  <2>2. a.path \in STRING /\ a.rights \cap b.rights \in (SUBSET {"connect", "bind"}) \ {{}}
    BY <1>4, <2>1
  <2> QED
    BY <2>1, <2>2 DEF Sockets
<1>6. ASSUME NEW e \in M, NEW f \in M, e.path = f.path PROVE e = f
  <2>1. PICK a \in l, b \in r : /\ a.path = b.path
                                /\ e = [path |-> a.path, rights |-> a.rights \cap b.rights]
    BY <1>2
  <2>2. PICK c \in l, d \in r : /\ c.path = d.path
                                /\ f = [path |-> c.path, rights |-> c.rights \cap d.rights]
    BY <1>2
  <2>3. a = c /\ b = d
    BY <1>6, <2>1, <2>2 DEF OnePerPath
  <2> QED
    BY <2>1, <2>2, <2>3
<1>7. ASSUME NEW x \in SocketsBelow(M) PROVE x \in SocketsBelow(l) \cap SocketsBelow(r)
  <2>1. PICK e \in M : e.path = x[1] /\ x[2] \in e.rights /\ x \in STRING \X {"connect", "bind"}
    BY DEF SocketsBelow
  <2>2. PICK a \in l, b \in r : /\ a.path = b.path
                                /\ e = [path |-> a.path, rights |-> a.rights \cap b.rights]
    BY <1>2
  <2> QED
    BY <2>1, <2>2 DEF SocketsBelow
<1>8. ASSUME NEW x \in SocketsBelow(l) \cap SocketsBelow(r) PROVE x \in SocketsBelow(M)
  <2>1. PICK a \in l, b \in r : /\ a.path = x[1] /\ x[2] \in a.rights /\ b.path = x[1] /\ x[2] \in b.rights
                                /\ x \in STRING \X {"connect", "bind"}
    BY DEF SocketsBelow
  <2>2. [path |-> a.path, rights |-> a.rights \cap b.rights] \in M
    BY <1>3, <2>1
  <2> QED
    BY <2>1, <2>2 DEF SocketsBelow
<1> QED
  BY <1>1, <1>5, <1>6, <1>7, <1>8 DEF OnePerPath

\* Sets of sockets with the same below are the same.
LEMMA SocketsDetermined ==
  ASSUME NEW P, P \subseteq Sockets, OnePerPath(P), NEW Q, Q \subseteq Sockets, OnePerPath(Q),
         SocketsBelow(P) = SocketsBelow(Q)
  PROVE  P = Q
<1>1. \A x \in Sockets : /\ x.path \in STRING /\ x.rights \in SUBSET {"connect", "bind"} /\ x.rights # {}
                         /\ x = [path |-> x.path, rights |-> x.rights]
  BY DEF Sockets
<1>2. ASSUME NEW A, NEW B, A \subseteq Sockets, B \subseteq Sockets, OnePerPath(A), OnePerPath(B),
             SocketsBelow(A) = SocketsBelow(B), NEW x \in A
      PROVE  x \in B
  <2>1. ASSUME NEW C, NEW D, C \subseteq Sockets, SocketsBelow(C) = SocketsBelow(D), NEW e \in C, NEW k \in e.rights
        PROVE  \E g \in D : g.path = e.path /\ k \in g.rights
    <3>1. e.path \in STRING /\ k \in {"connect", "bind"}
      BY <1>1, <2>1
    <3>2. <<e.path, k>> \in SocketsBelow(C)
      BY <2>1, <3>1 DEF SocketsBelow
    <3>3. <<e.path, k>> \in SocketsBelow(D)
      BY <2>1, <3>2
    <3> QED
      BY <3>3 DEF SocketsBelow
  <2>2. PICK k \in x.rights : TRUE
    BY <1>1, <1>2
  <2>3. PICK b \in B : b.path = x.path
    BY <1>2, <2>1
  <2>4. x.rights \subseteq b.rights
    BY <1>2, <2>1, <2>3 DEF OnePerPath
  <2>5. b.rights \subseteq x.rights
    BY <1>2, <2>1, <2>3 DEF OnePerPath
  <2>6. x.rights = b.rights
    BY <2>4, <2>5
  <2>7. x = [path |-> x.path, rights |-> x.rights] /\ b = [path |-> b.path, rights |-> b.rights]
    BY <1>1, <1>2
  <2>8. x = b
    BY <2>3, <2>6, <2>7
  <2> QED
    BY <2>8
<1>3. P \subseteq Q
  BY <1>2
<1>4. Q \subseteq P
  BY <1>2
<1> QED
  BY <1>3, <1>4

\* What the meet of sources lets happen is what both let happen.
LEMMA MeetSourceIs ==
  ASSUME NEW l, NEW r
  PROVE  /\ SourceBelow(IF l = r THEN l ELSE NoSource) = SourceBelow(l) \cap SourceBelow(r)
         /\ SourceBelow(l) = SourceBelow(r) => l = r
  BY DEF SourceBelow

-----------------------------------------------------------------------------
(* Documents. *)

\* All that lies below a document.
Below(d) ==
  ({"fs"} \X FsBelow(d.fs)) \cup ({"host"} \X HostsBelow(d.hosts)) \cup ({"port"} \X PortBelow(d.port))
  \cup ({"socket"} \X SocketsBelow(d.sockets)) \cup ({"source"} \X SourceBelow(d.source))

\* No grant and no pattern can be left out.
Canonical(d) == DropSubsumed(d.fs) = d.fs /\ Greatest(d.hosts) = d.hosts

\* What a document says is said by one of the documents told of.
Told(d) ==
  /\ \A e \in d.fs : \E c \in Docs : \E g \in c.fs : g.path = e.path
  /\ \A o \in d.hosts : \E c \in Docs : o \in c.hosts
  /\ d.port # <<>> => \E c \in Docs : c.port = d.port
  /\ \A e \in d.sockets : \E c \in Docs : \E g \in c.sockets : g.path = e.path

\* The dimensions of a document.
LEMMA DocumentIs ==
  ASSUME NEW d
  PROVE  WellFormed(d) <=>
           /\ d = [fs |-> d.fs, hosts |-> d.hosts, port |-> d.port, sockets |-> d.sockets, source |-> d.source]
           /\ d.fs \subseteq Grants /\ IsFiniteSet(d.fs)
           /\ d.hosts \subseteq Patterns /\ IsFiniteSet(d.hosts)
           /\ d.port \in PortDecls
           /\ d.sockets \subseteq Sockets /\ OnePerPath(d.sockets)
           /\ d.source \in STRING \cup {NoSource}
  BY DEF WellFormed, Document, Grants, Patterns, PortDecls, Sockets, OnePerPath

\* What lies below a document, dimension by dimension.
LEMMA BelowIs ==
  ASSUME NEW d, NEW x
  PROVE  /\ <<"fs", x>> \in Below(d) <=> x \in FsBelow(d.fs)
         /\ <<"host", x>> \in Below(d) <=> x \in HostsBelow(d.hosts)
         /\ <<"port", x>> \in Below(d) <=> x \in PortBelow(d.port)
         /\ <<"socket", x>> \in Below(d) <=> x \in SocketsBelow(d.sockets)
         /\ <<"source", x>> \in Below(d) <=> x \in SourceBelow(d.source)
  BY DEF Below

\* What the meet of documents lets happen is what both let happen, and nothing
\* in it can be left out.
LEMMA MeetIs ==
  ASSUME NEW l, WellFormed(l), NEW r, WellFormed(r)
  PROVE  /\ WellFormed(Meet(l, r)) /\ Canonical(Meet(l, r))
         /\ Below(Meet(l, r)) = Below(l) \cap Below(r)
         /\ Told(l) /\ Told(r) => Told(Meet(l, r))
<1>1. PICK m : m = Meet(l, r)
  OBVIOUS
<1>2. /\ m.fs = MeetGrants(l.fs, r.fs) /\ m.hosts = MeetHosts(l.hosts, r.hosts)
      /\ m.port = MeetPort(l.port, r.port) /\ m.sockets = MeetExactGrants(l.sockets, r.sockets)
      /\ m.source = (IF l.source = r.source THEN l.source ELSE NoSource)
      /\ m = [fs |-> m.fs, hosts |-> m.hosts, port |-> m.port, sockets |-> m.sockets, source |-> m.source]
  BY <1>1 DEF Meet
<1>3. /\ m.fs \subseteq Grants /\ IsFiniteSet(m.fs) /\ FsBelow(m.fs) = FsBelow(l.fs) \cap FsBelow(r.fs)
      /\ DropSubsumed(m.fs) = m.fs /\ \A x \in m.fs : \E y \in l.fs \cup r.fs : x.path = y.path
  BY <1>2, DocumentIs, MeetGrantsIs
<1>4. /\ m.hosts \subseteq l.hosts \cup r.hosts /\ IsFiniteSet(m.hosts)
      /\ HostsBelow(m.hosts) = HostsBelow(l.hosts) \cap HostsBelow(r.hosts)
      /\ Greatest(m.hosts) = m.hosts
  BY <1>2, DocumentIs, MeetHostsIs
<1>5. m.port \in {l.port, r.port, <<>>} /\ PortBelow(m.port) = PortBelow(l.port) \cap PortBelow(r.port)
  BY <1>2, DocumentIs, MeetPortIs
<1>6. /\ m.sockets \subseteq Sockets /\ OnePerPath(m.sockets)
      /\ SocketsBelow(m.sockets) = SocketsBelow(l.sockets) \cap SocketsBelow(r.sockets)
      /\ \A e \in m.sockets : \E g \in l.sockets : g.path = e.path
  BY <1>2, DocumentIs, MeetSocketsIs
<1>7. /\ m.source \in STRING \cup {NoSource}
      /\ SourceBelow(m.source) = SourceBelow(l.source) \cap SourceBelow(r.source)
  BY <1>2, DocumentIs, MeetSourceIs
<1>8. m.hosts \subseteq Patterns /\ m.port \in PortDecls
  BY <1>4, <1>5, DocumentIs DEF PortDecls
<1>9. WellFormed(m)
  BY <1>2, <1>3, <1>4, <1>6, <1>7, <1>8, DocumentIs
<1>10. Below(m) = Below(l) \cap Below(r)
  BY <1>3, <1>4, <1>5, <1>6, <1>7 DEF Below
<1>11. ASSUME Told(l), Told(r) PROVE Told(m)
  <2>1. ASSUME NEW e \in m.fs PROVE \E c \in Docs : \E g \in c.fs : g.path = e.path
    BY <1>3, <1>11 DEF Told
  <2>2. ASSUME NEW o \in m.hosts PROVE \E c \in Docs : o \in c.hosts
    BY <1>4, <1>11 DEF Told
  <2>3. m.port # <<>> => \E c \in Docs : c.port = m.port
    BY <1>5, <1>11 DEF Told
  <2>4. ASSUME NEW e \in m.sockets PROVE \E c \in Docs : \E g \in c.sockets : g.path = e.path
    <3>1. PICK g \in l.sockets : g.path = e.path
      BY <1>6
    <3> QED
      BY <1>11, <3>1 DEF Told
  <2> QED
    BY <2>1, <2>2, <2>3, <2>4 DEF Told
<1> QED
  BY <1>1, <1>3, <1>4, <1>9, <1>10, <1>11 DEF Canonical

\* Canonical documents with the same below are the same.
LEMMA Determined ==
  ASSUME NEW c, WellFormed(c), Canonical(c), NEW d, WellFormed(d), Canonical(d), Below(c) = Below(d)
  PROVE  c = d
<1>1. FsBelow(c.fs) = FsBelow(d.fs)
  <2>1. ASSUME NEW x PROVE x \in FsBelow(c.fs) <=> x \in FsBelow(d.fs)
    BY BelowIs
  <2> QED
    BY <2>1
<1>2. HostsBelow(c.hosts) = HostsBelow(d.hosts)
  <2>1. ASSUME NEW x PROVE x \in HostsBelow(c.hosts) <=> x \in HostsBelow(d.hosts)
    BY BelowIs
  <2> QED
    BY <2>1
<1>3. PortBelow(c.port) = PortBelow(d.port)
  <2>1. ASSUME NEW x PROVE x \in PortBelow(c.port) <=> x \in PortBelow(d.port)
    BY BelowIs
  <2> QED
    BY <2>1
<1>4. SocketsBelow(c.sockets) = SocketsBelow(d.sockets)
  <2>1. ASSUME NEW x PROVE x \in SocketsBelow(c.sockets) <=> x \in SocketsBelow(d.sockets)
    BY BelowIs
  <2> QED
    BY <2>1
<1>5. SourceBelow(c.source) = SourceBelow(d.source)
  <2>1. ASSUME NEW x PROVE x \in SourceBelow(c.source) <=> x \in SourceBelow(d.source)
    BY BelowIs
  <2> QED
    BY <2>1
<1>6. c.fs = d.fs
  BY <1>1, DocumentIs, FsDetermined DEF Canonical
<1>7. c.hosts = d.hosts
  BY <1>2, DocumentIs, HostsDetermined DEF Canonical
<1>8. c.port = d.port
  BY <1>3, DocumentIs, PortDetermined
<1>9. c.sockets = d.sockets
  BY <1>4, DocumentIs, SocketsDetermined
<1>10. c.source = d.source
  BY <1>5, MeetSourceIs
<1>11. /\ c = [fs |-> c.fs, hosts |-> c.hosts, port |-> c.port, sockets |-> c.sockets, source |-> c.source]
       /\ d = [fs |-> d.fs, hosts |-> d.hosts, port |-> d.port, sockets |-> d.sockets, source |-> d.source]
  BY DocumentIs
<1> QED
  BY <1>6, <1>7, <1>8, <1>9, <1>10, <1>11

-----------------------------------------------------------------------------
(* What a document is asked about is a part of what lies below it. *)

GrantAt(f, k) == [path |-> f, rights |-> IF k = "read" THEN {"read"} ELSE {"read", "write"}]
HostAt(h) == [wild |-> FALSE, labels |-> h]
FsQuestions == {"fs"} \X AnyPath \X {"read", "write"}
HostQuestions == {"host"} \X AnyHost
SocketQuestions == {"socket"} \X AnySocket \X {"connect", "bind"}
PortQuestions == {"port"} \X AnyPort
SourceQuestions == {"source"} \X (STRING \cup {NoSource})
Questions == FsQuestions \cup HostQuestions \cup SocketQuestions \cup PortQuestions \cup SourceQuestions
At(x) ==
  IF x[1] = "fs" THEN <<"fs", GrantAt(x[2], x[3])>>
  ELSE IF x[1] = "host" THEN <<"host", HostAt(x[2])>>
  ELSE IF x[1] = "socket" THEN <<"socket", <<x[2], x[3]>>>> ELSE <<x[1], x[2]>>

\* What the documents are asked about.
LEMMA QuestionsTyped ==
  /\ AnyPath \subseteq Path /\ AnyHost \subseteq Seq(STRING)
  /\ AnySocket \subseteq STRING /\ AnyPort \subseteq Nat \X STRING
  BY ConfinementAssumption

\* A file lies in an entry as a grant of it lies below the entry.
LEMMA FsAt ==
  ASSUME NEW S, S \subseteq Grants, NEW f \in AnyPath, NEW k \in {"read", "write"}
  PROVE  GrantAt(f, k) \in FsBelow(S) <=> \E e \in S : InPath(e.path, f) /\ k \in e.rights
<1>1. f \in Path /\ GrantAt(f, k) \in Grants /\ GrantAt(f, k).path = f
  BY QuestionsTyped DEF GrantAt, Grants
<1>2. ASSUME NEW e \in S PROVE Narrower(GrantAt(f, k), e) <=> InPath(e.path, f) /\ k \in e.rights
  <2>1. e.path \in Path /\ e.rights \in {{"read"}, {"read", "write"}}
    BY DEF Grants
  <2>2. Covers(e.path, f) <=> InPath(e.path, f)
    BY <1>1, <2>1, CoversIs
  <2>3. GrantAt(f, k).rights \subseteq e.rights <=> k \in e.rights
    BY <2>1 DEF GrantAt
  <2> QED
    BY <1>1, <2>2, <2>3 DEF Narrower
<1> QED
  BY <1>1, <1>2 DEF FsBelow

\* A host lies in a pattern as its own pattern lies below the pattern.
LEMMA HostsAt ==
  ASSUME NEW S, S \subseteq Patterns, NEW h \in AnyHost
  PROVE  HostAt(h) \in HostsBelow(S) <=> \E o \in S : InHost(o, h)
<1>1. h \in Seq(STRING) /\ HostAt(h) \in Patterns /\ HostAt(h).labels = h /\ HostAt(h).wild = FALSE
  BY QuestionsTyped DEF HostAt, Patterns
<1>2. ASSUME NEW o \in S PROVE HostCovers(o, HostAt(h)) <=> InHost(o, h)
  <2>1. /\ o.wild \in BOOLEAN /\ o.labels \in Seq(STRING)
        /\ o = [wild |-> o.wild, labels |-> o.labels]
    BY DEF Patterns
  <2>2. CASE o.wild
    <3>1. o # HostAt(h)
      BY <1>1, <2>2
    <3>2. IsPrefix(o.labels, h) => (Len(h) > Len(o.labels) <=> o.labels # h)
      <4>1. IsPrefix(o.labels, h) => Len(o.labels) <= Len(h) /\ \A i \in 1..Len(o.labels) : o.labels[i] = h[i]
        BY <1>1, <2>1, PrefixIs
      <4>2. ASSUME IsPrefix(o.labels, h), Len(o.labels) = Len(h) PROVE o.labels = h
        BY <1>1, <2>1, <4>1, <4>2, SeqEqual
      <4>3. Len(h) \in Nat /\ Len(o.labels) \in Nat
        BY <1>1, <2>1
      <4> QED
        BY <4>1, <4>2, <4>3
    <3> QED
      BY <1>1, <2>2, <3>1, <3>2 DEF HostCovers, InHost, IsStrictPrefix
  <2>3. CASE ~o.wild
    <3>1. o = HostAt(h) <=> o.labels = h
      BY <2>1, <2>3 DEF HostAt
    <3> QED
      BY <2>3, <3>1 DEF HostCovers, InHost
  <2> QED
    BY <2>2, <2>3
<1> QED
  BY <1>1, <1>2 DEF HostsBelow

\* What a document lets happen is what of the questions lies below it.
LEMMA AdmitsIs ==
  ASSUME NEW d, WellFormed(d)
  PROVE  Admits(d) = {x \in Questions : At(x) \in Below(d)}
<1>1. /\ d.fs \subseteq Grants /\ d.hosts \subseteq Patterns /\ d.port \in PortDecls
      /\ d.source \in STRING \cup {NoSource}
  BY DocumentIs
<1>2. ASSUME NEW x
      PROVE  x \in Admits(d) <=>
               \/ x \in FsQuestions /\ \E e \in d.fs : InPath(e.path, x[2]) /\ x[3] \in e.rights
               \/ x \in HostQuestions /\ \E o \in d.hosts : InHost(o, x[2])
               \/ x \in SocketQuestions /\ \E e \in d.sockets : e.path = x[2] /\ x[3] \in e.rights
               \/ x \in PortQuestions /\ OnPort(d.port, x[2])
               \/ x \in {"source"} \X {d.source} /\ x[2] # NoSource
  BY DEF Admits, FsQuestions, HostQuestions, SocketQuestions, PortQuestions
<1>3. ASSUME NEW x \in FsQuestions PROVE x \in Admits(d) <=> At(x) \in Below(d)
  <2>1. x[1] = "fs" /\ x[2] \in AnyPath /\ x[3] \in {"read", "write"} /\ x = <<x[1], x[2], x[3]>>
    BY DEF FsQuestions
  <2>2. x \in Admits(d) <=> \E e \in d.fs : InPath(e.path, x[2]) /\ x[3] \in e.rights
    BY <1>2, <2>1 DEF HostQuestions, SocketQuestions, PortQuestions
  <2>3. At(x) = <<"fs", GrantAt(x[2], x[3])>>
    BY <2>1 DEF At
  <2>4. GrantAt(x[2], x[3]) \in FsBelow(d.fs) <=> \E e \in d.fs : InPath(e.path, x[2]) /\ x[3] \in e.rights
    BY <1>1, <2>1, FsAt
  <2>5. <<"fs", GrantAt(x[2], x[3])>> \in Below(d) <=> GrantAt(x[2], x[3]) \in FsBelow(d.fs)
    BY BelowIs
  <2> QED
    BY <2>2, <2>3, <2>4, <2>5
<1>4. ASSUME NEW x \in HostQuestions PROVE x \in Admits(d) <=> At(x) \in Below(d)
  <2>1. x[1] = "host" /\ x[2] \in AnyHost
    BY DEF HostQuestions
  <2>2. x \in Admits(d) <=> \E o \in d.hosts : InHost(o, x[2])
    BY <1>2, <2>1 DEF FsQuestions, SocketQuestions, PortQuestions
  <2>3. At(x) = <<"host", HostAt(x[2])>>
    BY <2>1 DEF At
  <2> QED
    BY <1>1, <2>1, <2>2, <2>3, HostsAt, BelowIs
<1>5. ASSUME NEW x \in SocketQuestions PROVE x \in Admits(d) <=> At(x) \in Below(d)
  <2>1. x[1] = "socket" /\ x[2] \in STRING /\ x[3] \in {"connect", "bind"}
    BY QuestionsTyped DEF SocketQuestions
  <2>2. x \in Admits(d) <=> \E e \in d.sockets : e.path = x[2] /\ x[3] \in e.rights
    BY <1>2, <2>1 DEF FsQuestions, HostQuestions, PortQuestions
  <2>3. At(x) = <<"socket", <<x[2], x[3]>>>>
    BY <2>1 DEF At
  <2>4. <<x[2], x[3]>> \in SocketsBelow(d.sockets) <=> \E e \in d.sockets : e.path = x[2] /\ x[3] \in e.rights
    BY <2>1 DEF SocketsBelow
  <2> QED
    BY <2>2, <2>3, <2>4, BelowIs
<1>6. ASSUME NEW x \in PortQuestions PROVE x \in Admits(d) <=> At(x) \in Below(d)
  <2>1. x[1] = "port" /\ x[2] \in Nat \X STRING
    BY QuestionsTyped DEF PortQuestions
  <2>2. x \in Admits(d) <=> OnPort(d.port, x[2])
    BY <1>2, <2>1 DEF FsQuestions, HostQuestions, SocketQuestions
  <2>3. At(x) = <<"port", x[2]>>
    BY <2>1 DEF At
  <2>4. x[2] \in PortBelow(d.port) <=> OnPort(d.port, x[2])
    BY <2>1 DEF PortBelow
  <2> QED
    BY <2>2, <2>3, <2>4, BelowIs
<1>7. ASSUME NEW x \in SourceQuestions PROVE x \in Admits(d) <=> At(x) \in Below(d)
  <2>1. x[1] = "source" /\ x = <<"source", x[2]>>
    BY DEF SourceQuestions
  <2>2. x \in Admits(d) <=> x[2] = d.source /\ x[2] # NoSource
    BY <1>2, <2>1 DEF FsQuestions, HostQuestions, SocketQuestions, PortQuestions
  <2>3. At(x) = <<"source", x[2]>>
    BY <2>1 DEF At
  <2>4. x[2] \in SourceBelow(d.source) <=> x[2] = d.source /\ x[2] # NoSource
    BY DEF SourceBelow
  <2> QED
    BY <2>2, <2>3, <2>4, BelowIs
<1>8. Admits(d) \subseteq Questions
  BY <1>1, <1>2 DEF Questions, SourceQuestions
<1>9. ASSUME NEW x \in Questions PROVE x \in Admits(d) <=> At(x) \in Below(d)
  BY <1>3, <1>4, <1>5, <1>6, <1>7 DEF Questions
<1> QED
  BY <1>8, <1>9

\* leq is the order of what lies below.
LEMMA LeqIs ==
  ASSUME NEW a, WellFormed(a), NEW b, WellFormed(b)
  PROVE  Leq(a, b) <=> Below(a) \subseteq Below(b)
<1>1. /\ WellFormed(Meet(a, b)) /\ Canonical(Meet(a, b)) /\ Below(Meet(a, b)) = Below(a) \cap Below(b)
      /\ WellFormed(Meet(a, a)) /\ Canonical(Meet(a, a)) /\ Below(Meet(a, a)) = Below(a)
  <2>1. WellFormed(Meet(a, b)) /\ Canonical(Meet(a, b)) /\ Below(Meet(a, b)) = Below(a) \cap Below(b)
    BY MeetIs
  <2>2. WellFormed(Meet(a, a)) /\ Canonical(Meet(a, a)) /\ Below(Meet(a, a)) = Below(a) \cap Below(a)
    BY MeetIs
  <2> QED
    BY <2>1, <2>2
<1>2. Below(a) \subseteq Below(b) <=> Below(a) \cap Below(b) = Below(a)
  OBVIOUS
<1>3. Meet(a, b) = Meet(a, a) <=> Below(Meet(a, b)) = Below(Meet(a, a))
  BY <1>1, Determined
<1> QED
  BY <1>1, <1>2, <1>3 DEF Leq, Normalize

\* The documents told of are well-formed, and say what they say.
LEMMA DocsAre ==
  ASSUME NEW d \in Docs
  PROVE  WellFormed(d) /\ Told(d)
<1>1. WellFormed(d)
  BY ConfinementAssumption
<1> QED
  BY <1>1 DEF Told

\* Files tell the grants of the documents apart.
LEMMA FsTells ==
  ASSUME NEW d, WellFormed(d), Told(d), NEW r \in Docs, Admits(d) \subseteq Admits(r)
  PROVE  FsBelow(d.fs) \subseteq FsBelow(r.fs)
<1>1. d.fs \subseteq Grants /\ r.fs \subseteq Grants
  BY DocsAre, DocumentIs
<1>2. ASSUME NEW e \in d.fs PROVE \E h \in r.fs : Narrower(e, h)
  <2>0. PICK c \in Docs : \E g \in c.fs : g.path = e.path
    BY DEF Told
  <2>1. PICK g \in c.fs : g.path = e.path
    BY <2>0
  <2>2. PICK f \in AnyPath : /\ InPath(g.path, f)
                             /\ \A b \in Docs : \A h \in b.fs : InPath(h.path, f) => Covers(h.path, g.path)
    BY ConfinementAssumption
  <2>3. PICK k \in {"read", "write"} : k \in e.rights /\ ("write" \in e.rights => k = "write")
    <3>1. e.rights \in {{"read"}, {"read", "write"}}
      BY <1>1 DEF Grants
    <3>2. CASE e.rights = {"read"}
      BY <3>2
    <3>3. CASE e.rights = {"read", "write"}
      BY <3>3
    <3> QED
      BY <3>1, <3>2, <3>3
  <2>4. <<"fs", f, k>> \in Admits(d)
    BY <2>1, <2>2, <2>3 DEF Admits
  <2>5. <<"fs", f, k>> \in Admits(r)
    BY <2>4
  <2>6. PICK h \in r.fs : InPath(h.path, f) /\ k \in h.rights
    BY <2>5 DEF Admits
  <2>7. Covers(h.path, e.path)
    BY <2>1, <2>2, <2>6
  <2>8. e.rights \subseteq h.rights
    <3>1. e.rights \in {{"read"}, {"read", "write"}} /\ h.rights \in {{"read"}, {"read", "write"}}
      BY <1>1 DEF Grants
    <3> QED
      BY <2>3, <2>6, <3>1
  <2> QED
    BY <2>7, <2>8 DEF Narrower
<1>3. ASSUME NEW x \in FsBelow(d.fs) PROVE x \in FsBelow(r.fs)
  <2>1. PICK e \in d.fs : Narrower(x, e) /\ x \in Grants
    BY DEF FsBelow
  <2>2. PICK h \in r.fs : Narrower(e, h)
    BY <1>2
  <2>3. e \in Grants /\ h \in Grants
    BY <1>1
  <2>4. Narrower(x, h)
    BY <2>1, <2>2, <2>3, GrantOrder
  <2> QED
    BY <2>1, <2>4 DEF FsBelow
<1> QED
  BY <1>3

\* Hosts tell the patterns of the documents apart.
LEMMA HostsTell ==
  ASSUME NEW d, WellFormed(d), Told(d), NEW r \in Docs, Admits(d) \subseteq Admits(r)
  PROVE  HostsBelow(d.hosts) \subseteq HostsBelow(r.hosts)
<1>1. d.hosts \subseteq Patterns /\ r.hosts \subseteq Patterns
  BY DocsAre, DocumentIs
<1>2. ASSUME NEW o \in d.hosts PROVE \E g \in r.hosts : HostCovers(g, o)
  <2>1. PICK c \in Docs : o \in c.hosts
    BY DEF Told
  <2>2. PICK h \in AnyHost : /\ InHost(o, h)
                             /\ \A b \in Docs : \A g \in b.hosts : InHost(g, h) => HostCovers(g, o)
    BY <2>1, ConfinementAssumption
  <2>3. <<"host", h>> \in Admits(d)
    BY <2>2 DEF Admits
  <2>4. <<"host", h>> \in Admits(r)
    BY <2>3
  <2>5. PICK g \in r.hosts : InHost(g, h)
    BY <2>4 DEF Admits
  <2> QED
    BY <2>2, <2>5
<1>3. ASSUME NEW x \in HostsBelow(d.hosts) PROVE x \in HostsBelow(r.hosts)
  <2>1. PICK o \in d.hosts : HostCovers(o, x) /\ x \in Patterns
    BY DEF HostsBelow
  <2>2. PICK g \in r.hosts : HostCovers(g, o)
    BY <1>2
  <2>3. o \in Patterns /\ g \in Patterns
    BY <1>1
  <2>4. HostCovers(g, x)
    BY <2>1, <2>2, <2>3, HostOrder
  <2> QED
    BY <2>1, <2>4 DEF HostsBelow
<1> QED
  BY <1>3

\* Ports tell the addresses of the documents apart.
LEMMA PortTells ==
  ASSUME NEW d, WellFormed(d), Told(d), NEW r \in Docs, Admits(d) \subseteq Admits(r)
  PROVE  PortBelow(d.port) \subseteq PortBelow(r.port)
<1>1. CASE d.port = <<>>
  BY <1>1 DEF PortBelow, OnPort
<1>2. CASE d.port # <<>>
  <2>1. d.port \in Nat \X STRING
    BY <1>2, DocumentIs DEF PortDecls
  <2>2. PICK c \in Docs : c.port = d.port
    BY <1>2 DEF Told
  <2>3. PICK q \in AnyPort : OnPort(d.port, q) /\ \A b \in Docs : OnPort(b.port, q) => OnPort(b.port, d.port)
    BY <1>2, <2>2, ConfinementAssumption
  <2>4. <<"port", q>> \in Admits(d)
    BY <2>3 DEF Admits
  <2>5. <<"port", q>> \in Admits(r)
    BY <2>4
  <2>6. OnPort(r.port, q)
    BY <2>5 DEF Admits
  <2>7. OnPort(r.port, d.port)
    BY <2>3, <2>6
  <2>8. ASSUME NEW x, OnPort(d.port, x) PROVE OnPort(r.port, x)
    BY <2>7, <2>8 DEF OnPort
  <2> QED
    BY <2>8 DEF PortBelow
<1> QED
  BY <1>1, <1>2

\* Sockets are asked about one by one.
LEMMA SocketsTell ==
  ASSUME NEW d, WellFormed(d), Told(d), NEW r \in Docs, Admits(d) \subseteq Admits(r)
  PROVE  SocketsBelow(d.sockets) \subseteq SocketsBelow(r.sockets)
<1>1. ASSUME NEW x \in SocketsBelow(d.sockets) PROVE x \in SocketsBelow(r.sockets)
  <2>1. PICK e \in d.sockets : e.path = x[1] /\ x[2] \in e.rights /\ x \in STRING \X {"connect", "bind"}
    BY DEF SocketsBelow
  <2>2. x[1] \in AnySocket
    <3>1. PICK c \in Docs : \E g \in c.sockets : g.path = e.path
      BY DEF Told
    <3>2. PICK g \in c.sockets : g.path = e.path
      BY <3>1
    <3> QED
      BY <2>1, <3>2, ConfinementAssumption
  <2>3. x[2] \in {"connect", "bind"}
    BY <2>1
  <2>4. <<"socket", x[1], x[2]>> \in Admits(d)
    BY <2>1, <2>2, <2>3 DEF Admits
  <2>5. <<"socket", x[1], x[2]>> \in Admits(r)
    BY <2>4
  <2>6. \E h \in r.sockets : h.path = x[1] /\ x[2] \in h.rights
    BY <2>5 DEF Admits
  <2> QED
    BY <2>1, <2>6 DEF SocketsBelow
<1> QED
  BY <1>1

\* What is admitted orders the documents as what lies below them does.
LEMMA AdmitsOrder ==
  ASSUME NEW d, WellFormed(d), Told(d), NEW r \in Docs
  PROVE  Admits(d) \subseteq Admits(r) <=> Below(d) \subseteq Below(r)
<1>1. ASSUME Below(d) \subseteq Below(r) PROVE Admits(d) \subseteq Admits(r)
  BY <1>1, DocsAre, AdmitsIs
<1>2. ASSUME Admits(d) \subseteq Admits(r) PROVE Below(d) \subseteq Below(r)
  <2>1. SourceBelow(d.source) \subseteq SourceBelow(r.source)
    <3>1. ASSUME d.source # NoSource PROVE r.source = d.source
      <4>1. <<"source", d.source>> \in Admits(d)
        BY <3>1 DEF Admits
      <4>2. <<"source", d.source>> \in Admits(r)
        BY <1>2, <4>1
      <4> QED
        BY <4>2 DEF Admits
    <3> QED
      BY <3>1 DEF SourceBelow
  <2>2. /\ FsBelow(d.fs) \subseteq FsBelow(r.fs) /\ HostsBelow(d.hosts) \subseteq HostsBelow(r.hosts)
        /\ PortBelow(d.port) \subseteq PortBelow(r.port) /\ SocketsBelow(d.sockets) \subseteq SocketsBelow(r.sockets)
    BY <1>2, FsTells, HostsTell, PortTells, SocketsTell
  <2> QED
    BY <2>1, <2>2 DEF Below
<1> QED
  BY <1>1, <1>2

-----------------------------------------------------------------------------
(* The ratchet. *)

\* Every point holds, of what lies below the first document, what lies below
\* all the restrictions it has applied, in canonical form once it has applied
\* one.
ConfInv ==
  /\ first \in Initials
  /\ DOMAIN held = Points /\ DOMAIN applied = Points
  /\ \A p \in Points :
       /\ WellFormed(held[p]) /\ Told(held[p])
       /\ applied[p] \subseteq Restrictions
       /\ applied[p] # {} => Canonical(held[p])
       /\ Below(held[p]) = {x \in Below(first) : \A r \in applied[p] : x \in Below(r)}

\* Points that were told nothing hold the first document.
LEMMA ConfInitially == ConfInit => ConfInv
<1> SUFFICES ASSUME ConfInit PROVE ConfInv
  OBVIOUS
<1>1. first \in Initials /\ held = [p \in Points |-> first] /\ applied = [p \in Points |-> {}]
  BY DEF ConfInit
<1>2. WellFormed(first) /\ Told(first)
  BY <1>1, DocsAre DEF Docs
<1>3. ASSUME NEW p \in Points
      PROVE  /\ WellFormed(held[p]) /\ Told(held[p])
             /\ applied[p] \subseteq Restrictions /\ applied[p] = {}
             /\ Below(held[p]) = {x \in Below(first) : \A r \in applied[p] : x \in Below(r)}
  BY <1>1, <1>2
<1> QED
  BY <1>1, <1>3 DEF ConfInv

\* A restriction, applied before or not, keeps the invariant.
LEMMA ConfSteps == ConfInv /\ [ConfNext]_confVars => ConfInv'
<1> SUFFICES ASSUME ConfInv, [ConfNext]_confVars PROVE ConfInv'
  OBVIOUS
<1>1. CASE UNCHANGED confVars
  BY <1>1 DEF ConfInv, confVars
<1>2. ASSUME NEW p \in Points, Ratchet(p) PROVE ConfInv'
  <2>1. PICK r \in Restrictions : /\ held' = [held EXCEPT ![p] = Meet(@, r)]
                                  /\ applied' = [applied EXCEPT ![p] = @ \cup {r}]
                                  /\ first' = first
    BY <1>2 DEF Ratchet
  <2>2. /\ first \in Initials /\ DOMAIN held = Points /\ DOMAIN applied = Points
        /\ \A q \in Points :
             /\ WellFormed(held[q]) /\ Told(held[q]) /\ applied[q] \subseteq Restrictions
             /\ applied[q] # {} => Canonical(held[q])
             /\ Below(held[q]) = {x \in Below(first) : \A s \in applied[q] : x \in Below(s)}
    BY DEF ConfInv
  <2>3. WellFormed(r) /\ Told(r)
    BY DocsAre DEF Docs
  <2>4. /\ WellFormed(Meet(held[p], r)) /\ Canonical(Meet(held[p], r)) /\ Told(Meet(held[p], r))
        /\ Below(Meet(held[p], r)) = Below(held[p]) \cap Below(r)
    BY <2>2, <2>3, MeetIs
  <2>5. /\ held'[p] = Meet(held[p], r) /\ applied'[p] = applied[p] \cup {r}
        /\ \A q \in Points \ {p} : held'[q] = held[q] /\ applied'[q] = applied[q]
        /\ DOMAIN held' = Points /\ DOMAIN applied' = Points
    BY <2>1, <2>2
  <2>6. Below(held'[p]) = {x \in Below(first) : \A s \in applied'[p] : x \in Below(s)}
    BY <2>2, <2>4, <2>5
  <2>7. ASSUME NEW q \in Points
        PROVE  /\ WellFormed(held'[q]) /\ Told(held'[q]) /\ applied'[q] \subseteq Restrictions
               /\ applied'[q] # {} => Canonical(held'[q])
               /\ Below(held'[q]) = {x \in Below(first) : \A s \in applied'[q] : x \in Below(s)}
    <3>1. CASE q = p
      BY <2>2, <2>4, <2>5, <2>6, <3>1
    <3>2. CASE q # p
      BY <2>2, <2>5, <3>2
    <3> QED
      BY <3>1, <3>2
  <2>8. ConfInv' <=>
          /\ first' \in Initials /\ DOMAIN held' = Points /\ DOMAIN applied' = Points
          /\ \A q \in Points :
               /\ WellFormed(held'[q]) /\ Told(held'[q]) /\ applied'[q] \subseteq Restrictions
               /\ applied'[q] # {} => Canonical(held'[q])
               /\ Below(held'[q]) = {x \in Below(first') : \A s \in applied'[q] : x \in Below(s)}
    BY DEF ConfInv
  <2> QED
    BY <2>1, <2>2, <2>5, <2>7, <2>8
<1> QED
  BY <1>1, <1>2 DEF ConfNext

\* The three properties of the meet follow from the invariant.
LEMMA ConfImplies == ConfInv => MeetHolds
<1> SUFFICES ASSUME ConfInv PROVE MeetHolds
  OBVIOUS
<1>1. /\ first \in Initials /\ DOMAIN held = Points
      /\ \A q \in Points :
           /\ WellFormed(held[q]) /\ Told(held[q]) /\ applied[q] \subseteq Restrictions
           /\ applied[q] # {} => Canonical(held[q])
           /\ Below(held[q]) = {x \in Below(first) : \A s \in applied[q] : x \in Below(s)}
  BY DEF ConfInv
<1>2. WellFormed(first) /\ \A r \in Restrictions : WellFormed(r) /\ r \in Docs
  BY <1>1, DocsAre DEF Docs
<1>3. AdmitsTheIntersection
  <2> SUFFICES ASSUME NEW p \in Points
               PROVE  Admits(held[p]) = {x \in Admits(first) : \A r \in applied[p] : x \in Admits(r)}
    BY <1>1 DEF AdmitsTheIntersection
  <2>1. /\ Admits(held[p]) = {x \in Questions : At(x) \in Below(held[p])}
        /\ Admits(first) = {x \in Questions : At(x) \in Below(first)}
        /\ \A r \in applied[p] : Admits(r) = {x \in Questions : At(x) \in Below(r)}
    BY <1>1, <1>2, AdmitsIs
  <2>2. Below(held[p]) = {x \in Below(first) : \A s \in applied[p] : x \in Below(s)}
    BY <1>1
  <2> QED
    BY <2>1, <2>2
<1>4. PointsConverge
  <2> SUFFICES ASSUME NEW p \in Points, NEW q \in Points, applied[p] = applied[q], applied[p] # {}
               PROVE  held[p] = held[q]
    BY <1>1 DEF PointsConverge
  <2>1. Below(held[p]) = Below(held[q])
    BY <1>1
  <2> QED
    BY <1>1, <2>1, Determined
<1>5. LeqIsInclusion
  <2> SUFFICES ASSUME NEW p \in Points, NEW r \in Restrictions
               PROVE  Leq(held[p], r) <=> Admits(held[p]) \subseteq Admits(r)
    BY <1>1 DEF LeqIsInclusion
  <2> QED
    BY <1>1, <1>2, LeqIs, AdmitsOrder
<1> QED
  BY <1>3, <1>4, <1>5 DEF MeetHolds

\* The invariant of the ratchet: what lies below a point's document is what lies
\* below all it was told of, and the document is canonical once it was told.
THEOREM ConfInvariant == ConfSpec => []ConfInv
<1>1. ConfInit => ConfInv
  BY ConfInitially
<1>2. ConfInv /\ [ConfNext]_confVars => ConfInv'
  BY ConfSteps
<1> QED
  BY <1>1, <1>2, PTL DEF ConfSpec

\* The meet of confinement documents does what confinement-lattice says: points
\* that are told of the same restrictions, in whatever order and however often,
\* enforce the same document, it admits the intersection of all they were told,
\* and leq is the inclusion of what is admitted.
THEOREM ConfinementMeetHolds == ConfSpec => []MeetHolds
<1>1. ConfInv => MeetHolds
  BY ConfImplies
<1> QED
  BY <1>1, ConfInvariant, PTL
=============================================================================
