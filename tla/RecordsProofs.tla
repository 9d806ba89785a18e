--------------------------- MODULE RecordsProofs ---------------------------
(***************************************************************************)
(* What the records promise, for any set of requests, receipts and peers,  *)
(* any number of epochs and any retention window.  Archive: a receipt an   *)
(* audit may still ask for is there, and is distrusted on the actor's own  *)
(* word only.  Receipts: what a peer accepts is the receipt of its own     *)
(* request, and stays so.  Disclosure: the pages of a chain are the chain. *)
(***************************************************************************)
EXTENDS MCStores, TrustStoreProofs, FiniteSetTheorems, FunctionTheorems, SequenceTheorems

\* An epoch is not recorded as retired before its last use, and not used in
\* times to come.
RetiredAfterUse ==
    \A e \in BundleEpochs :
       /\ lastUse[e] <= day
       /\ bundle[e] # Null /\ bundle[e].status = "retired" /\ bundle[e].retiredAt # Null =>
             lastUse[e] <= bundle[e].retiredAt

\* What an audit may ask for was emitted under an epoch in the window.
DueInWindow == \A r \in due : r.direction = "out" /\ InWindow(lastUse, day, r.epoch)

\* An attached notice that verifies was signed by the actor.
NoticesGrounded ==
    \A e \in BundleEpochs :
       bundle[e] # Null /\ bundle[e].notice # Null /\ VerifyCompromiseNotice(e, bundle[e].notice)
          => bundle[e].notice \in signed

AInv == ATypeOK /\ RetiredAfterUse /\ DueInWindow /\ AuditWindow /\ NoticesGrounded

LEMMA ArchiveInit == AInit => AInv
<1> SUFFICES ASSUME AInit PROVE AInv
  OBVIOUS
<1>1. 0 \in Days
  BY ArchiveAssumption DEF Days
<1>2. /\ day \in Days
      /\ bundle \in [BundleEpochs -> CaBundleEntry \cup {Null}]
      /\ lastUse \in [BundleEpochs -> Days]
  BY <1>1 DEF AInit
<1>3. alarm \in BOOLEAN /\ live \in BOOLEAN
  BY DEF AInit
<1>4. receipts = {} /\ due = {} /\ signed = {}
  BY DEF AInit
<1>5. ATypeOK
  BY <1>2, <1>3, <1>4 DEF ATypeOK
<1>6. RetiredAfterUse /\ NoticesGrounded
  BY DEF AInit, RetiredAfterUse, NoticesGrounded
<1> QED
  BY <1>4, <1>5, <1>6 DEF AInv, DueInWindow, AuditWindow

\* The rows that UpsertCaBundle is called with.
LEMMA RowType ==
    ASSUME NEW row \in [status : {"active", "retired"}, retiredAt : Days \cup {Null}, notice : {Null}]
    PROVE  row \in CaBundleEntry /\ row # Null /\ row.notice = Null
BY ArchiveAssumption DEF CaBundleEntry

LEMMA ShownType ==
    ASSUME ATypeOK, NEW n \in Shown
    PROVE  n \in Notices /\ (n \in signed \/ n.by = 1)
BY ArchiveAssumption DEF Shown, ATypeOK, Notices, BundleEpochs, Days

\* The prune keeps what an audit may ask for: an epoch that is in the window
\* is not expired.
LEMMA PruneKeepsDue ==
    ASSUME AInv
    PROVE  due \subseteq PruneExpiredReceipts
<1>1. SUFFICES ASSUME NEW r \in due PROVE ~Expired(r.epoch)
  BY DEF PruneExpiredReceipts, AInv, AuditWindow
<1>2. r.epoch \in BundleEpochs
  BY DEF AInv, ATypeOK, Receipt
<1>3. lastUse[r.epoch] + Retention >= day
  BY DEF AInv, DueInWindow, InWindow
<1>4. ASSUME Expired(r.epoch) PROVE FALSE
  <2>1. bundle[r.epoch].retiredAt \in Days
    BY <1>2, <1>4 DEF Expired, AInv, ATypeOK, CaBundleEntry
  <2>2. lastUse[r.epoch] <= bundle[r.epoch].retiredAt
    BY <1>2, <1>4 DEF Expired, AInv, RetiredAfterUse
  <2> QED
    BY <1>2, <1>3, <1>4, <2>1, <2>2, ArchiveAssumption DEF Expired, AInv, ATypeOK, Days
<1> QED
  BY <1>4

LEMMA ArchiveStep ==
    ASSUME AInv, [ANext]_aVars
    PROVE  AInv'
<1> USE ArchiveAssumption
<1>1. CASE UNCHANGED <<day, bundle, receipts, lastUse, due, signed>> /\ alarm' \in BOOLEAN
                                                                   /\ live' \in BOOLEAN
  BY <1>1 DEF AInv, ATypeOK, RetiredAfterUse, DueInWindow, AuditWindow, NoticesGrounded, InWindow
<1>2. CASE Construct \/ Evict \/ UNCHANGED aVars
  BY <1>1, <1>2 DEF Construct, Evict, EnsureAlarmScheduled, aVars, AInv, ATypeOK
<1>3. ASSUME NEW pruned \in BOOLEAN, NEW rearmed \in BOOLEAN, Alarm(pruned, rearmed)
      PROVE  AInv'
  <2>1. alarm' \in BOOLEAN /\ live' \in BOOLEAN
    BY <1>3 DEF Alarm
  <2>2. receipts' \subseteq receipts /\ due \subseteq receipts'
    BY <1>3, PruneKeepsDue DEF Alarm, PruneExpiredReceipts, AInv, AuditWindow
  <2> QED
    BY <1>3, <2>1, <2>2 DEF Alarm, AInv, ATypeOK, RetiredAfterUse, DueInWindow, AuditWindow,
                            NoticesGrounded, InWindow
<1>4. ASSUME NEW h \in ReceiptHashes, NEW d \in {"in", "out"}, NEW e \in BundleEpochs,
             UpsertReceipt(h, d, e)
      PROVE  AInv'
  <2> DEFINE r == [hash |-> h, direction |-> d, epoch |-> e]
             Others(s) == {q \in s : ~(q.hash = h /\ q.direction = d)}
  <2>1. r \in Receipt /\ r.direction = d /\ r.epoch = e
    BY DEF Receipt
  <2>2. /\ receipts' = Others(receipts) \cup {r}
        /\ due' = Others(due) \cup (IF d = "out" /\ InWindow(lastUse, day, e) THEN {r} ELSE {})
        /\ UNCHANGED <<day, bundle, alarm, live, lastUse, signed>>
    BY <1>4 DEF UpsertReceipt
  <2> HIDE DEF r
  <2>3. ATypeOK'
    BY <2>1, <2>2 DEF AInv, ATypeOK
  <2>4. AuditWindow'
    BY <2>2 DEF AInv, AuditWindow
  <2>5. DueInWindow'
    BY <2>1, <2>2 DEF AInv, DueInWindow, InWindow
  <2> QED
    BY <2>2, <2>3, <2>4, <2>5 DEF AInv, RetiredAfterUse, NoticesGrounded
<1>5. ASSUME NEW e \in BundleEpochs,
             NEW row \in [status : {"active", "retired"}, retiredAt : Days \cup {Null}, notice : {Null}],
             UpsertCaBundle(e, row)
      PROVE  AInv'
  <2>1. /\ bundle' = [bundle EXCEPT ![e] = row]
        /\ lastUse' = [lastUse EXCEPT ![e] = IF row.status = "active" THEN day ELSE @]
        /\ UNCHANGED <<day, receipts, alarm, live, due, signed>>
    BY <1>5 DEF UpsertCaBundle
  <2>2. row \in CaBundleEntry /\ row # Null /\ row.notice = Null
    BY RowType
  <2>3. ATypeOK'
    BY <2>1, <2>2 DEF AInv, ATypeOK
  <2>4. row.status = "retired" /\ row.retiredAt # Null => lastUse[e] <= row.retiredAt
    BY <1>5 DEF UpsertCaBundle, AInv, ATypeOK, Days
  <2>5. \A x \in BundleEpochs : lastUse'[x] >= lastUse[x] /\ lastUse'[x] <= day
    BY <2>1 DEF AInv, ATypeOK, RetiredAfterUse, Days
  <2>6. RetiredAfterUse'
    BY <2>1, <2>2, <2>4, <2>5 DEF AInv, ATypeOK, RetiredAfterUse, CaBundleEntry
  <2>7. DueInWindow'
    BY <2>1, <2>3, <2>5 DEF AInv, ATypeOK, DueInWindow, InWindow, Receipt, Days
  <2>8. NoticesGrounded'
    BY <2>1, <2>2 DEF AInv, ATypeOK, NoticesGrounded
  <2> QED
    BY <2>1, <2>3, <2>6, <2>7, <2>8 DEF AInv, AuditWindow
<1>6. ASSUME NEW e \in BundleEpochs, NEW n \in Shown, AttachCompromiseNotice(e, n)
      PROVE  AInv'
  <2>1. n \in Notices /\ (n \in signed \/ n.by = 1)
    BY ShownType DEF AInv
  <2>2. /\ bundle[e] \in CaBundleEntry
        /\ bundle' = [bundle EXCEPT ![e] = [bundle[e] EXCEPT !.notice = n]]
        /\ UNCHANGED <<day, receipts, alarm, live, lastUse, due, signed>>
    BY <1>6 DEF AttachCompromiseNotice, AInv, ATypeOK
  <2>3. /\ bundle'[e] \in CaBundleEntry /\ bundle'[e].notice = n
        /\ bundle'[e].status = bundle[e].status /\ bundle'[e].retiredAt = bundle[e].retiredAt
        /\ \A x \in BundleEpochs : x # e => bundle'[x] = bundle[x]
    BY <2>1, <2>2 DEF AInv, ATypeOK, CaBundleEntry
  <2>4. ATypeOK'
    BY <2>2, <2>3 DEF AInv, ATypeOK
  <2>5. RetiredAfterUse' /\ DueInWindow' /\ AuditWindow'
    <3>1. bundle[e] # Null
      BY <1>6 DEF AttachCompromiseNotice
    <3> QED
      BY <2>2, <2>3, <3>1 DEF AInv, RetiredAfterUse, DueInWindow, AuditWindow, InWindow
  <2>6. NoticesGrounded'
    BY <2>1, <2>2, <2>3 DEF AInv, NoticesGrounded, VerifyCompromiseNotice, BundleEpochs
  <2> QED
    BY <2>4, <2>5, <2>6 DEF AInv
<1>7. ASSUME NEW e \in BundleEpochs, NEW at \in Days, SignCompromiseNotice(e, at)
      PROVE  AInv'
  <2>1. [of |-> e, by |-> e + 1, at |-> at] \in Notices
    BY <1>7 DEF SignCompromiseNotice, Notices
  <2> QED
    BY <1>7, <2>1 DEF SignCompromiseNotice, AInv, ATypeOK, RetiredAfterUse, DueInWindow,
                      AuditWindow, NoticesGrounded, InWindow
<1>8. CASE NextDay
  <2>1. day' = day + 1 /\ day' \in Days
    BY <1>8 DEF NextDay, AInv, ATypeOK, Days
  <2>2. /\ lastUse' \in [BundleEpochs -> Days]
        /\ \A x \in BundleEpochs :
              IF bundle[x] = Null \/ bundle[x].status = "active" THEN lastUse'[x] = day + 1
              ELSE lastUse'[x] = lastUse[x]
    BY <1>8, <2>1 DEF NextDay, AInv, ATypeOK
  <2>3. /\ due' = {r \in due : InWindow(lastUse', day', r.epoch)}
        /\ UNCHANGED <<bundle, receipts, alarm, live, signed>>
    BY <1>8 DEF NextDay
  <2>4. ATypeOK'
    BY <2>1, <2>2, <2>3 DEF AInv, ATypeOK
  <2>5. RetiredAfterUse'
    BY <2>1, <2>2, <2>3 DEF AInv, ATypeOK, RetiredAfterUse, Days
  <2>6. DueInWindow' /\ AuditWindow' /\ NoticesGrounded'
    BY <2>3 DEF AInv, DueInWindow, AuditWindow, NoticesGrounded, InWindow
  <2> QED
    BY <2>4, <2>5, <2>6 DEF AInv
<1> QED
  BY <1>2, <1>3, <1>4, <1>5, <1>6, <1>7, <1>8 DEF ANext

\* The invariant of the archive: rows say when an epoch was last used, and what
\* is due is there.
THEOREM ArchiveInvariant == ASpec => []AInv
BY ArchiveInit, ArchiveStep, PTL DEF ASpec

\* A receipt this actor emitted is there while its epoch is in use and for the
\* retention window after, and a receipt is distrusted only when the actor's
\* next key signed that the key of its epoch had leaked: pruneExpiredReceipts,
\* the alarm and attachCompromiseNotice, whatever the operator writes.
THEOREM ArchiveIsReliable == ASpec => []ArchiveHolds
<1>1. AInv => DistrustIsGrounded
  <2> SUFFICES ASSUME AInv, NEW e \in BundleEpochs, NEW t \in Days,
                      e \in DOMAIN Served, ~Trusted(Served[e], e, t)
               PROVE  \E n \in signed : n.of = e /\ n.by = e + 1 /\ t >= n.at
    BY DEF DistrustIsGrounded
  <2>1. bundle[e] # Null /\ Served[e] = bundle[e]
    BY DEF Served
  <2> QED
    BY <2>1 DEF Trusted, AInv, NoticesGrounded, VerifyCompromiseNotice
<1> QED
  BY <1>1, ArchiveInvariant, PTL DEF ArchiveHolds, AInv
-----------------------------------------------------------------------------
(***************************************************************************)
(* Receipts.  What is said of a request and of the receipt, the stream and *)
(* the verdict it has, is said of one record: a step replaces the record   *)
(* of one request, and what others have said or heard stays.               *)
(***************************************************************************)

Kinds == {"json", "sse"}
Commitments == {Commitment(r, k, n, e) : r \in Reqs, k \in Kinds, n \in Nat, e \in Epochs}
Contexts == {<<>>} \cup [signer : {"local", "delegated"}, c : Commitments]
Envelopes == {<<>>} \cup {Sign(e, c) : e \in Epochs, c \in Commitments}
Blocks == [kind : {"data", "comment", "rest"}, n : Nat]
Closing(c, chain) ==
    [kind |-> "close", n |-> 0,
     close |-> Sign(LocalEpoch, [open |-> c, tip |-> chain, count |-> Len(chain), status |-> "ok"])]
Items == Blocks \cup {Closing(c, chain) : c \in Commitments, chain \in Seq(Blocks)}
Verdicts == [ok : BOOLEAN, from : Reqs \cup {"none"}, body : Reqs \cup {"none"}, fp : Nat]

ReqRec ==
    [pc : {"new", "sent", "admitted", "signing", "facts", "retry", "stream", "answered"},
     ts : Nat, now : Nat, kind : Kinds, ctx : Contexts, receipt : Envelopes,
     content : Seq({"data", "comment"}), read : Nat, half : BOOLEAN, chain : Seq(Blocks),
     got : Seq(Items), verdict : Verdicts]

\* Nothing has gone out yet.
Blank(q) == q.receipt = <<>> /\ q.read = 0 /\ q.chain = <<>> /\ q.got = <<>>

\* The context a request is signed under is its own; a local one is of the
\* epoch of the local key, and is not built twice.
ContextIsOwn(r, q) ==
    \E e \in Epochs, s \in {"local", "delegated"} :
       /\ q.ctx = [signer |-> s, c |-> Commitment(r, q.kind, q.now, e)]
       /\ s = "local" => e = LocalEpoch /\ q.pc = "signing"

\* So is the receipt, by the key of the epoch it names.
ReceiptIsOwn(r, q) == \E e \in Epochs : q.receipt = Sign(e, Commitment(r, q.kind, q.now, e))

\* A close event that the peer has comes with the end of the stream, and closes
\* the chain of what was read.
ClosesOwn(r, q) ==
    \A i \in DOMAIN q.got : q.got[i].kind = "close" =>
       /\ q.pc = "answered"
       /\ \E e \in Epochs : q.got[i] = Closing(Commitment(r, q.kind, q.now, e), q.chain)

\* The chain has the data blocks read so far, in their order.
ChainIsRead(q) ==
    /\ \A i, j \in DOMAIN q.chain : i < j => q.chain[i].n < q.chain[j].n
    /\ {q.chain[i].n : i \in DOMAIN q.chain} = {n \in 1..q.read : q.content[n] = "data"}

\* What the peer accepted is of this request, to an auditor as well, and a
\* stream it accepted is the chain.
AcceptedOwn(r, q) ==
    q.verdict.ok =>
       /\ q.pc = "answered" /\ q.verdict.from = r /\ q.verdict.body = r
       /\ q.kind = "json" => VerifyReceiptVArchival(CanonicalRequestBytes(r, q.ts), q.receipt, r, q.verdict.fp)
       /\ q.kind = "sse" => Rolled(q.got) = q.chain

StageOK(r, q) ==
    /\ q.pc \in {"new", "sent", "admitted"} => Blank(q)
    /\ q.pc \in {"signing", "facts", "retry"} => Blank(q) /\ ContextIsOwn(r, q)
    /\ q.pc = "stream" => ReceiptIsOwn(r, q)
    /\ q.receipt # <<>> => ReceiptIsOwn(r, q)

ReqFits(r, q, t) ==
    /\ q \in ReqRec
    /\ q.read <= Len(q.content) /\ q.now <= t
    /\ StageOK(r, q) /\ ClosesOwn(r, q) /\ ChainIsRead(q) /\ AcceptedOwn(r, q)

RInv ==
    /\ config \in Configs /\ clock \in 0..MaxClock /\ epoch \in Epochs
    /\ req \in [Reqs -> ReqRec]
    /\ \A r \in Reqs : ReqFits(r, req[r], clock)

\* A step of one request.
LEMMA OneReq ==
    ASSUME RInv, NEW r \in Reqs, NEW q, ReqFits(r, q, clock),
           req' = [req EXCEPT ![r] = q], UNCHANGED <<config, clock, epoch>>
    PROVE  RInv'
<1>1. q \in ReqRec
  BY DEF ReqFits
<1>2. req' \in [Reqs -> ReqRec]
  BY <1>1 DEF RInv
<1>3. ASSUME NEW o \in Reqs PROVE ReqFits(o, req'[o], clock)
  <2>1. req'[o] = IF o = r THEN q ELSE req[o]
    BY DEF RInv
  <2> QED
    BY <2>1 DEF RInv
<1> QED
  BY <1>2, <1>3 DEF RInv

LEMMA LocalIsEpoch == LocalEpoch \in Epochs /\ MaxClock \in Nat /\ MaxEpoch \in Nat
BY ReceiptsAssumption DEF Epochs

LEMMA RInit == Init => RInv
<1> SUFFICES ASSUME Init PROVE RInv
  OBVIOUS
<1>1. 0 \in 0..MaxClock /\ 1 \in Epochs
  BY ReceiptsAssumption DEF Epochs
<1>2. NoVerdict \in Verdicts /\ ~NoVerdict.ok
  BY DEF Verdicts, NoVerdict
<1>3. NoReq \in ReqRec
  BY <1>2 DEF NoReq, ReqRec, Kinds, Contexts, Envelopes
<1>4. ASSUME NEW r \in Reqs PROVE ReqFits(r, NoReq, 0)
  <2>1. Blank(NoReq) /\ NoReq.pc = "new" /\ NoReq.content = <<>> /\ NoReq.now = 0 /\ ~NoReq.verdict.ok
    BY <1>2 DEF Blank, NoReq
  <2>2. NoReq.read <= Len(NoReq.content) /\ NoReq.now <= 0
    BY <2>1 DEF Blank
  <2>3. StageOK(r, NoReq) /\ ClosesOwn(r, NoReq) /\ AcceptedOwn(r, NoReq)
    BY <2>1 DEF Blank, StageOK, ClosesOwn, AcceptedOwn
  <2>4. ChainIsRead(NoReq)
    BY <2>1 DEF Blank, ChainIsRead
  <2> QED
    BY <1>3, <2>2, <2>3, <2>4 DEF ReqFits
<1>5. req \in [Reqs -> ReqRec] /\ \A r \in Reqs : req[r] = NoReq
  BY <1>3 DEF Init
<1> QED
  BY <1>1, <1>4, <1>5 DEF RInv, Init

LEMMA TickFits == ASSUME RInv, Tick PROVE RInv'
<1>1. clock \in Nat /\ clock' \in 0..MaxClock /\ clock' = clock + 1
  BY LocalIsEpoch DEF RInv, Tick
<1>2. ASSUME NEW r \in Reqs PROVE ReqFits(r, req'[r], clock')
  <2>1. ReqFits(r, req[r], clock) /\ req'[r] = req[r]
    BY DEF RInv, Tick
  <2>2. req[r].now \in Nat
    BY <2>1 DEF ReqFits, ReqRec
  <2> QED
    BY <1>1, <2>1, <2>2 DEF ReqFits
<1> QED
  BY <1>1, <1>2 DEF RInv, Tick

LEMMA RotateFits == ASSUME RInv, Rotate PROVE RInv'
<1>1. epoch' \in Epochs
  BY LocalIsEpoch DEF RInv, Rotate, Epochs
<1>2. ASSUME NEW r \in Reqs PROVE ReqFits(r, req'[r], clock')
  BY DEF RInv, Rotate
<1> QED
  BY <1>1, <1>2 DEF RInv, Rotate

\* What is at hand of a request in each of the steps below.
LEMMA ReqHas ==
    ASSUME RInv, NEW r \in Reqs
    PROVE  /\ req[r] \in ReqRec /\ req[r].now <= clock /\ clock \in Nat /\ epoch \in Epochs
           /\ req[r].read <= Len(req[r].content)
           /\ StageOK(r, req[r]) /\ ClosesOwn(r, req[r]) /\ ChainIsRead(req[r]) /\ AcceptedOwn(r, req[r])
BY LocalIsEpoch DEF RInv, ReqFits

\* A record without anything sent has an empty stream, and no verdict.
LEMMA BlankFits ==
    ASSUME NEW r \in Reqs, NEW q \in ReqRec, Blank(q), ~q.verdict.ok
    PROVE  q.read <= Len(q.content) /\ ClosesOwn(r, q) /\ ChainIsRead(q) /\ AcceptedOwn(r, q)
<1>1. Len(q.content) \in Nat /\ q.read = 0
  BY DEF ReqRec, Blank
<1>2. ClosesOwn(r, q) /\ AcceptedOwn(r, q)
  BY DEF ClosesOwn, AcceptedOwn, Blank
<1>3. ChainIsRead(q)
  <2>1. q.chain = <<>> /\ q.read = 0
    BY DEF Blank
  <2> QED
    BY <2>1 DEF ChainIsRead
<1> QED
  BY <1>1, <1>2, <1>3

LEMMA SendFits == ASSUME RInv, NEW r \in Reqs, NEW kind \in Kinds, Send(r, kind) PROVE RInv'
<1> DEFINE p == req[r]
<1>1. PICK q : q = [p EXCEPT !.pc = "sent", !.ts = clock, !.kind = kind]
  OBVIOUS
<1>2. p \in ReqRec /\ p.pc = "new" /\ Blank(p) /\ ~p.verdict.ok /\ clock \in Nat /\ p.now <= clock
  BY ReqHas DEF Send, StageOK, AcceptedOwn
<1>3. /\ q \in ReqRec /\ q.pc = "sent" /\ q.now = p.now /\ q.receipt = p.receipt /\ q.read = p.read
      /\ q.chain = p.chain /\ q.got = p.got /\ q.verdict = p.verdict
  BY <1>1, <1>2 DEF ReqRec
<1>4. Blank(q) /\ ~q.verdict.ok /\ q.now <= clock
  BY <1>2, <1>3 DEF Blank
<1>5. StageOK(r, q)
  BY <1>3, <1>4 DEF StageOK, Blank
<1>6. ReqFits(r, q, clock)
  BY <1>3, <1>4, <1>5, BlankFits DEF ReqFits
<1>7. req' = [req EXCEPT ![r] = q] /\ UNCHANGED <<config, clock, epoch>>
  BY <1>1 DEF Send
<1> QED
  BY <1>6, <1>7, OneReq

LEMMA AdmitFits == ASSUME RInv, NEW r \in Reqs, Admit(r) PROVE RInv'
<1> DEFINE p == req[r]
<1>1. PICK q : q = [p EXCEPT !.pc = "admitted", !.now = clock]
  OBVIOUS
<1>2. p \in ReqRec /\ p.pc = "sent" /\ Blank(p) /\ ~p.verdict.ok /\ clock \in Nat
  BY ReqHas DEF Admit, StageOK, AcceptedOwn
<1>3. /\ q \in ReqRec /\ q.pc = "admitted" /\ q.now = clock /\ q.receipt = p.receipt /\ q.read = p.read
      /\ q.chain = p.chain /\ q.got = p.got /\ q.verdict = p.verdict
  BY <1>1, <1>2 DEF ReqRec
<1>4. Blank(q) /\ ~q.verdict.ok /\ q.now <= clock
  BY <1>2, <1>3 DEF Blank
<1>5. StageOK(r, q)
  BY <1>3, <1>4 DEF StageOK, Blank
<1>6. ReqFits(r, q, clock)
  BY <1>3, <1>4, <1>5, BlankFits DEF ReqFits
<1>7. req' = [req EXCEPT ![r] = q] /\ UNCHANGED <<config, clock, epoch>>
  BY <1>1 DEF Admit
<1> QED
  BY <1>6, <1>7, OneReq

\* The answer goes out without a receipt.
LEMMA UnsignedFits ==
    ASSUME RInv, NEW r \in Reqs, req[r].pc \in {"admitted", "signing", "facts", "retry"},
           UnsignedAnswer(r), UNCHANGED <<config, clock, epoch>>
    PROVE  RInv'
<1> DEFINE p == req[r]
<1>1. PICK q : q = [p EXCEPT !.pc = "answered"]
  OBVIOUS
<1>2. p \in ReqRec /\ Blank(p) /\ ~p.verdict.ok /\ p.now <= clock
  BY ReqHas DEF StageOK, AcceptedOwn
<1>3. /\ q \in ReqRec /\ q.pc = "answered" /\ q.now = p.now /\ q.receipt = p.receipt /\ q.read = p.read
      /\ q.chain = p.chain /\ q.got = p.got /\ q.verdict = p.verdict
  BY <1>1, <1>2 DEF ReqRec
<1>4. Blank(q) /\ ~q.verdict.ok /\ q.now <= clock
  BY <1>2, <1>3 DEF Blank
<1>5. StageOK(r, q)
  BY <1>3, <1>4 DEF StageOK, Blank
<1>6. ReqFits(r, q, clock)
  BY <1>3, <1>4, <1>5, BlankFits DEF ReqFits
<1>7. req' = [req EXCEPT ![r] = q]
  BY <1>1 DEF UnsignedAnswer
<1> QED
  BY <1>6, <1>7, OneReq

\* A request gets the context it is signed under.
LEMMA ContextFits ==
    ASSUME RInv, NEW r \in Reqs, req[r].pc \in {"admitted", "facts"}, NEW pc \in {"signing", "retry"},
           NEW e \in Epochs, NEW signer \in {"local", "delegated"}, signer = "local" => e = LocalEpoch /\ pc = "signing",
           req' = [req EXCEPT ![r].pc = pc,
                              ![r].ctx = [signer |-> signer, c |-> Commitment(r, req[r].kind, req[r].now, e)]],
           UNCHANGED <<config, clock, epoch>>
    PROVE  RInv'
<1> DEFINE p == req[r]
           ctx == [signer |-> signer, c |-> Commitment(r, p.kind, p.now, e)]
<1>2. p \in ReqRec /\ Blank(p) /\ ~p.verdict.ok /\ p.now <= clock
  BY ReqHas DEF StageOK, AcceptedOwn
<1>a. p.kind \in Kinds /\ p.now \in Nat
  BY <1>2 DEF ReqRec
<1>b. Commitment(r, p.kind, p.now, e) \in Commitments
  BY <1>a DEF Commitments
<1>c. ctx \in Contexts
  BY <1>b DEF Contexts
<1>d. ctx = [signer |-> signer, c |-> Commitment(r, p.kind, p.now, e)]
  OBVIOUS
<1> HIDE DEF ctx
<1>1. PICK q : q = [p EXCEPT !.pc = pc, !.ctx = ctx]
  OBVIOUS
<1>3. /\ q \in ReqRec /\ q.pc = pc /\ q.now = p.now /\ q.receipt = p.receipt /\ q.read = p.read
      /\ q.chain = p.chain /\ q.got = p.got /\ q.verdict = p.verdict /\ q.ctx = ctx /\ q.kind = p.kind
  BY <1>1, <1>2, <1>c DEF ReqRec
<1>4. Blank(q) /\ ~q.verdict.ok /\ q.now <= clock
  BY <1>2, <1>3 DEF Blank
<1>e. ContextIsOwn(r, q)
  BY <1>3, <1>d DEF ContextIsOwn
<1>5. StageOK(r, q)
  BY <1>3, <1>4, <1>e DEF StageOK, Blank
<1>6. ReqFits(r, q, clock)
  BY <1>3, <1>4, <1>5, BlankFits DEF ReqFits
<1>7. req' = [req EXCEPT ![r] = q]
  BY <1>1 DEF ctx
<1> QED
  BY <1>6, <1>7, OneReq

LEMMA ProbeFits == ASSUME RInv, NEW r \in Reqs, ProbeAnswers(r) PROVE RInv'
<1>1. epoch \in Epochs
  BY DEF RInv
<1> QED
  BY <1>1, ContextFits DEF ProbeAnswers, Context

LEMMA LoadFits == ASSUME RInv, NEW r \in Reqs, LoadReceiptSigner(r) PROVE RInv'
<1>1. CASE "key" \in config
  BY <1>1, LocalIsEpoch, ContextFits DEF LoadReceiptSigner, Context
<1>2. CASE "key" \notin config
  BY <1>2, UnsignedFits DEF LoadReceiptSigner
<1> QED
  BY <1>1, <1>2

LEMMA RefreshFits == ASSUME RInv, NEW r \in Reqs, RefreshFacts(r) PROVE RInv'
<1>1. epoch \in Epochs
  BY DEF RInv
<1> QED
  BY <1>1, ContextFits DEF RefreshFacts, Context

\* A receipt is attached to what was blank.
LEMMA SignedFits ==
    ASSUME NEW r \in Reqs, NEW q \in ReqRec, NEW e \in Epochs, NEW t,
           q.receipt = Sign(e, Commitment(r, q.kind, q.now, e)), q.pc \in {"answered", "stream"},
           q.read = 0, q.chain = <<>>, q.got = <<>>, ~q.verdict.ok, q.now <= t
    PROVE  ReqFits(r, q, t)
<1>1. ReceiptIsOwn(r, q)
  BY DEF ReceiptIsOwn
<1>2. StageOK(r, q)
  BY <1>1 DEF StageOK
<1>3. Len(q.content) \in Nat /\ q.read <= Len(q.content)
  BY DEF ReqRec
<1>4. ClosesOwn(r, q) /\ AcceptedOwn(r, q)
  BY DEF ClosesOwn, AcceptedOwn
<1>5. ChainIsRead(q)
  BY DEF ChainIsRead
<1> QED
  BY <1>2, <1>3, <1>4, <1>5 DEF ReqFits

LEMMA SignType ==
    ASSUME NEW r \in Reqs, NEW k \in Kinds, NEW n \in Nat, NEW e \in Epochs
    PROVE  /\ Commitment(r, k, n, e) \in Commitments
           /\ Sign(e, Commitment(r, k, n, e)) \in Envelopes
BY DEF Commitments, Envelopes

LEMMA AttachFits ==
    ASSUME RInv, NEW r \in Reqs, req[r].pc \in {"signing", "retry"}, NEW e \in Epochs,
           req[r].ctx.c = Commitment(r, req[r].kind, req[r].now, e),
           Attach(r, Sign(e, req[r].ctx.c)), UNCHANGED <<config, clock, epoch>>
    PROVE  RInv'
<1> DEFINE p == req[r]
           x == Sign(e, Commitment(r, p.kind, p.now, e))
           pc == IF p.kind = "json" THEN "answered" ELSE "stream"
<1>1. p \in ReqRec /\ Blank(p) /\ ~p.verdict.ok /\ p.now <= clock
  BY ReqHas DEF StageOK, AcceptedOwn
<1>2. x \in Envelopes
  BY <1>1, SignType DEF ReqRec
<1>3. req' = [req EXCEPT ![r].pc = pc, ![r].receipt = x]
  BY DEF Attach
<1>4. pc \in {"answered", "stream"}
  OBVIOUS
<1> HIDE DEF x, pc
<1>5. PICK q : q = [p EXCEPT !.pc = pc, !.receipt = x]
  OBVIOUS
<1>6. /\ q \in ReqRec /\ q.pc = pc /\ q.receipt = x /\ q.now = p.now /\ q.kind = p.kind
      /\ q.read = p.read /\ q.chain = p.chain /\ q.got = p.got /\ q.verdict = p.verdict
  BY <1>1, <1>2, <1>4, <1>5 DEF ReqRec
<1>7. q.receipt = Sign(e, Commitment(r, q.kind, q.now, e))
  BY <1>6 DEF x
<1>8. ReqFits(r, q, clock)
  BY <1>1, <1>4, <1>6, <1>7, SignedFits DEF Blank
<1>9. req' = [req EXCEPT ![r] = q]
  BY <1>3, <1>5
<1> QED
  BY <1>8, <1>9, OneReq

LEMMA SignHeaderFits == ASSUME RInv, NEW r \in Reqs, SignCommitmentToHeader(r) PROVE RInv'
<1>1. ContextIsOwn(r, req[r])
  BY ReqHas DEF StageOK, SignCommitmentToHeader
<1>2. req[r].ctx.c = Commitment(r, req[r].kind, req[r].now, LocalEpoch)
  BY <1>1 DEF ContextIsOwn, SignCommitmentToHeader
<1> QED
  BY <1>2, LocalIsEpoch, AttachFits DEF SignCommitmentToHeader

\* The authority signs no facts but its own of the moment.
LEMMA SignedIsOfEpoch ==
    ASSUME RInv, NEW r \in Reqs, ContextIsOwn(r, req[r]), SignReceipt(req[r].ctx.c)
    PROVE  req[r].ctx.c = Commitment(r, req[r].kind, req[r].now, epoch)
<1>1. PICK e \in Epochs : req[r].ctx.c = Commitment(r, req[r].kind, req[r].now, e)
  BY DEF ContextIsOwn
<1>2. Commitment(r, req[r].kind, req[r].now, e).epoch = e
  BY DEF Commitment
<1>3. e = epoch
  BY <1>1, <1>2 DEF SignReceipt
<1> QED
  BY <1>1, <1>3

LEMMA SignFits == ASSUME RInv, NEW r \in Reqs, SignCommitment(r) PROVE RInv'
<1> DEFINE p == req[r]
<1>1. p \in ReqRec /\ p.pc = "signing" /\ Blank(p) /\ ContextIsOwn(r, p) /\ ~p.verdict.ok
      /\ p.now <= clock /\ epoch \in Epochs
  BY ReqHas DEF StageOK, AcceptedOwn, SignCommitment
<1>2. CASE SignReceipt(p.ctx.c)
  <2>1. p.ctx.c = Commitment(r, p.kind, p.now, epoch)
    BY <1>1, <1>2, SignedIsOfEpoch
  <2>2. Attach(r, Sign(epoch, p.ctx.c)) /\ UNCHANGED <<config, clock, epoch>>
    BY <1>2 DEF SignCommitment
  <2> QED
    BY <1>1, <2>1, <2>2, AttachFits
<1>3. CASE ~SignReceipt(p.ctx.c)
  <2>1. PICK q : q = [p EXCEPT !.pc = "facts"]
    OBVIOUS
  <2>2. /\ q \in ReqRec /\ q.pc = "facts" /\ q.receipt = p.receipt /\ q.now = p.now /\ q.kind = p.kind
        /\ q.read = p.read /\ q.chain = p.chain /\ q.got = p.got /\ q.verdict = p.verdict /\ q.ctx = p.ctx
    BY <1>1, <2>1 DEF ReqRec
  <2>3. p.ctx.signer = "delegated"
    BY DEF SignCommitment
  <2>4. ContextIsOwn(r, q)
    BY <1>1, <2>2, <2>3 DEF ContextIsOwn
  <2>5. Blank(q) /\ ~q.verdict.ok /\ q.now <= clock
    BY <1>1, <2>2 DEF Blank
  <2>6. StageOK(r, q)
    BY <2>2, <2>4, <2>5 DEF StageOK, Blank
  <2>7. ReqFits(r, q, clock)
    BY <2>2, <2>5, <2>6, BlankFits DEF ReqFits
  <2>8. req' = [req EXCEPT ![r] = q] /\ UNCHANGED <<config, clock, epoch>>
    BY <1>3, <2>1 DEF SignCommitment
  <2> QED
    BY <2>7, <2>8, OneReq
<1> QED
  BY <1>2, <1>3

LEMMA RetryFits == ASSUME RInv, NEW r \in Reqs, RetrySign(r) PROVE RInv'
<1>1. req[r].pc = "retry" /\ ContextIsOwn(r, req[r]) /\ epoch \in Epochs
  BY ReqHas DEF StageOK, RetrySign
<1>2. CASE SignReceipt(req[r].ctx.c)
  <2>1. req[r].ctx.c = Commitment(r, req[r].kind, req[r].now, epoch)
    BY <1>1, <1>2, SignedIsOfEpoch
  <2>2. Attach(r, Sign(epoch, req[r].ctx.c)) /\ UNCHANGED <<config, clock, epoch>>
    BY <1>2 DEF RetrySign
  <2> QED
    BY <1>1, <2>1, <2>2, AttachFits
<1>3. CASE ~SignReceipt(req[r].ctx.c)
  BY <1>1, <1>3, UnsignedFits DEF RetrySign
<1> QED
  BY <1>2, <1>3

LEMMA SignFailsFits == ASSUME RInv, NEW r \in Reqs, SignFails(r) PROVE RInv'
BY UnsignedFits DEF SignFails

LEMMA StreamOpenFits ==
    ASSUME RInv, NEW r \in Reqs, NEW content \in Contents, SignStreamOpenToHeader(r, content)
    PROVE  RInv'
<1> DEFINE p == req[r]
           x == Sign(LocalEpoch, Commitment(r, p.kind, p.now, LocalEpoch))
<1>1. p \in ReqRec /\ p.pc = "signing" /\ Blank(p) /\ ContextIsOwn(r, p) /\ ~p.verdict.ok /\ p.now <= clock
  BY ReqHas DEF StageOK, AcceptedOwn, SignStreamOpenToHeader
<1>2. p.ctx.c = Commitment(r, p.kind, p.now, LocalEpoch)
  BY <1>1 DEF ContextIsOwn, SignStreamOpenToHeader
<1>3. x \in Envelopes /\ content \in Seq({"data", "comment"})
  BY <1>1, SignType, LocalIsEpoch, ReceiptsAssumption DEF ReqRec
<1>4. req' = [req EXCEPT ![r].pc = "stream", ![r].receipt = x, ![r].content = content]
  BY <1>2 DEF SignStreamOpenToHeader
<1> HIDE DEF x
<1>5. PICK q : q = [p EXCEPT !.pc = "stream", !.receipt = x, !.content = content]
  OBVIOUS
<1>6. /\ q \in ReqRec /\ q.pc = "stream" /\ q.receipt = x /\ q.now = p.now /\ q.kind = p.kind
      /\ q.read = p.read /\ q.chain = p.chain /\ q.got = p.got /\ q.verdict = p.verdict
  BY <1>1, <1>3, <1>5 DEF ReqRec
<1>7. q.receipt = Sign(LocalEpoch, Commitment(r, q.kind, q.now, LocalEpoch))
  BY <1>6 DEF x
<1>8. ReqFits(r, q, clock)
  BY <1>1, <1>6, <1>7, LocalIsEpoch, SignedFits DEF Blank
<1>9. req' = [req EXCEPT ![r] = q] /\ UNCHANGED <<config, clock, epoch>>
  BY <1>4, <1>5 DEF SignStreamOpenToHeader
<1> QED
  BY <1>8, <1>9, OneReq

\* Nothing of a stream that goes on is a close event.
NoClose(s) == \A i \in DOMAIN s : s[i].kind # "close"

LEMMA Streams ==
    ASSUME RInv, NEW r \in Reqs, Streaming(r)
    PROVE  /\ req[r] \in ReqRec /\ req[r].pc = "stream" /\ ~req[r].verdict.ok /\ ReceiptIsOwn(r, req[r])
           /\ NoClose(req[r].got) /\ ChainIsRead(req[r]) /\ req[r].now <= clock
           /\ req[r].read <= Len(req[r].content)
BY ReqHas DEF Streaming, StageOK, AcceptedOwn, ClosesOwn, NoClose

LEMMA ConcatNoClose ==
    ASSUME NEW s \in Seq(Items), NEW t \in Seq(Items), NoClose(s), NoClose(t)
    PROVE  NoClose(s \o t)
<1>1. SUFFICES ASSUME NEW i \in DOMAIN (s \o t) PROVE (s \o t)[i].kind # "close"
  BY DEF NoClose
<1>2. i \in 1..(Len(s) + Len(t))
  OBVIOUS
<1>3. CASE i <= Len(s)
  BY <1>2, <1>3 DEF NoClose
<1>4. CASE i > Len(s)
  <2>1. i - Len(s) \in DOMAIN t /\ (s \o t)[i] = t[i - Len(s)]
    BY <1>2, <1>4
  <2> QED
    BY <2>1 DEF NoClose
<1> QED
  BY <1>2, <1>3, <1>4

LEMMA AppendNoClose ==
    ASSUME NEW s \in Seq(Items), NoClose(s), NEW b \in Blocks
    PROVE  Append(s, b) \in Seq(Items) /\ NoClose(Append(s, b))
<1>1. b \in Items /\ b.kind # "close"
  BY DEF Items, Blocks
<1>2. ASSUME NEW i \in DOMAIN Append(s, b) PROVE Append(s, b)[i].kind # "close"
  <2>1. i \in 1..(Len(s) + 1)
    BY <1>1
  <2>2. CASE i = Len(s) + 1
    BY <1>1, <2>2
  <2>3. CASE i # Len(s) + 1
    BY <1>1, <2>1, <2>3 DEF NoClose
  <2> QED
    BY <2>2, <2>3
<1> QED
  BY <1>1, <1>2 DEF NoClose

\* The record of a stream whose receipt, kind and time are as they were.
LEMMA StreamFits ==
    ASSUME NEW r \in Reqs, NEW p \in ReqRec, ReceiptIsOwn(r, p), NEW q \in ReqRec, NEW t,
           q.pc \in {"stream", "answered"}, q.receipt = p.receipt, q.kind = p.kind, q.now = p.now,
           q.now <= t, ~q.verdict.ok, q.read <= Len(q.content), ClosesOwn(r, q), ChainIsRead(q)
    PROVE  ReqFits(r, q, t)
<1>1. ReceiptIsOwn(r, q)
  BY DEF ReceiptIsOwn
<1>2. StageOK(r, q) /\ AcceptedOwn(r, q)
  BY <1>1 DEF StageOK, AcceptedOwn
<1> QED
  BY <1>2 DEF ReqFits

LEMMA HalfFits == ASSUME RInv, NEW r \in Reqs, ReadHalf(r) PROVE RInv'
<1> DEFINE p == req[r]
<1>1. PICK q : q = [p EXCEPT !.half = TRUE]
  OBVIOUS
<1>2. /\ p \in ReqRec /\ p.pc = "stream" /\ ~p.verdict.ok /\ ReceiptIsOwn(r, p)
      /\ NoClose(p.got) /\ ChainIsRead(p) /\ p.now <= clock /\ p.read <= Len(p.content)
  BY Streams DEF ReadHalf
<1>3. /\ q \in ReqRec /\ q.pc = p.pc /\ q.receipt = p.receipt /\ q.kind = p.kind /\ q.now = p.now
      /\ q.verdict = p.verdict /\ q.read = p.read /\ q.content = p.content /\ q.got = p.got
      /\ q.chain = p.chain
  BY <1>1, <1>2 DEF ReqRec
<1>4. ClosesOwn(r, q) /\ ChainIsRead(q)
  BY <1>2, <1>3 DEF ClosesOwn, NoClose, ChainIsRead
<1>5. ReqFits(r, q, clock)
  BY <1>2, <1>3, <1>4, StreamFits
<1>6. req' = [req EXCEPT ![r] = q] /\ UNCHANGED <<config, clock, epoch>>
  BY <1>1 DEF ReadHalf
<1> QED
  BY <1>5, <1>6, OneReq

LEMMA CancelFits == ASSUME RInv, NEW r \in Reqs, CancelStream(r) PROVE RInv'
<1> DEFINE p == req[r]
<1>1. PICK q : q = [p EXCEPT !.pc = "answered"]
  OBVIOUS
<1>2. /\ p \in ReqRec /\ p.pc = "stream" /\ ~p.verdict.ok /\ ReceiptIsOwn(r, p)
      /\ NoClose(p.got) /\ ChainIsRead(p) /\ p.now <= clock /\ p.read <= Len(p.content)
  BY Streams DEF CancelStream
<1>3. /\ q \in ReqRec /\ q.pc = "answered" /\ q.receipt = p.receipt /\ q.kind = p.kind /\ q.now = p.now
      /\ q.verdict = p.verdict /\ q.read = p.read /\ q.content = p.content /\ q.got = p.got
      /\ q.chain = p.chain
  BY <1>1, <1>2 DEF ReqRec
<1>4. ClosesOwn(r, q) /\ ChainIsRead(q)
  BY <1>2, <1>3 DEF ClosesOwn, NoClose, ChainIsRead
<1>5. ReqFits(r, q, clock)
  BY <1>2, <1>3, <1>4, StreamFits
<1>6. req' = [req EXCEPT ![r] = q] /\ UNCHANGED <<config, clock, epoch>>
  BY <1>1 DEF CancelStream
<1> QED
  BY <1>5, <1>6, OneReq

\* One more block is read: the chain has it if it is data.
LEMMA ChainGoesOn ==
    ASSUME NEW p \in ReqRec, ChainIsRead(p), p.read < Len(p.content),
           NEW b, b = [kind |-> p.content[p.read + 1], n |-> p.read + 1],
           NEW q \in ReqRec, q.read = p.read + 1, q.content = p.content,
           q.chain = IF b.kind = "comment" THEN p.chain ELSE EventChainStep(p.chain, b)
    PROVE  ChainIsRead(q)
<1>1. p.read \in Nat /\ p.chain \in Seq(Blocks) /\ p.content \in Seq({"data", "comment"})
  BY DEF ReqRec
<1>2. p.content[p.read + 1] \in {"data", "comment"} /\ b.kind = p.content[p.read + 1] /\ b.n = p.read + 1
  BY <1>1
<1>3. b \in Blocks
  BY <1>1, <1>2 DEF Blocks
<1>4. ASSUME NEW i \in DOMAIN p.chain PROVE p.chain[i].n \in 1..p.read
  BY DEF ChainIsRead
<1>5. CASE b.kind = "comment"
  <2>1. q.chain = p.chain
    BY <1>5
  <2>2. {n \in 1..q.read : q.content[n] = "data"} = {n \in 1..p.read : p.content[n] = "data"}
    <3>1. 1..q.read = 1..p.read \cup {p.read + 1}
      BY <1>1
    <3>2. p.content[p.read + 1] # "data"
      BY <1>2, <1>5
    <3> QED
      BY <3>1, <3>2
  <2> QED
    BY <2>1, <2>2 DEF ChainIsRead
<1>6. CASE b.kind # "comment"
  <2>1. q.chain = Append(p.chain, b) /\ p.content[p.read + 1] = "data"
    BY <1>2, <1>6 DEF EventChainStep
  <2>2. DOMAIN q.chain = 1..(Len(p.chain) + 1) /\ DOMAIN p.chain = 1..Len(p.chain) /\ Len(p.chain) \in Nat
    BY <1>1, <1>3, <2>1
  <2>3. /\ \A i \in DOMAIN p.chain : q.chain[i] = p.chain[i]
        /\ q.chain[Len(p.chain) + 1].n = p.read + 1
    <3>1. PICK c : c = p.chain
      OBVIOUS
    <3>2. c \in Seq(Blocks) /\ q.chain = Append(c, b) /\ Len(c) \in Nat
      BY <3>1, <1>1, <2>1, <2>2
    <3>3. \A i \in DOMAIN c : q.chain[i] = c[i]
      BY <3>2, <1>3
    <3>4. q.chain[Len(c) + 1] = b
      BY <3>2, <1>3
    <3> QED
      BY <3>1, <3>3, <3>4, <1>2
  <2>4. ASSUME NEW i \in DOMAIN q.chain, NEW j \in DOMAIN q.chain, i < j
        PROVE  q.chain[i].n < q.chain[j].n
    <3>1. i \in DOMAIN p.chain
      BY <2>2, <2>4
    <3>2. CASE j \in DOMAIN p.chain
      BY <3>1, <3>2, <2>3, <2>4 DEF ChainIsRead
    <3>3. CASE j \notin DOMAIN p.chain
      <4>1. j = Len(p.chain) + 1
        BY <3>3, <2>2
      <4>2. p.chain[i].n \in 1..p.read
        BY <3>1, <1>4
      <4> QED
        BY <3>1, <4>1, <4>2, <2>3, <1>1
    <3> QED
      BY <3>2, <3>3
  <2>5. {q.chain[i].n : i \in DOMAIN q.chain} = {p.chain[i].n : i \in DOMAIN p.chain} \cup {p.read + 1}
    BY <2>2, <2>3
  <2>6. {n \in 1..q.read : q.content[n] = "data"}
          = {n \in 1..p.read : p.content[n] = "data"} \cup {p.read + 1}
    BY <1>1, <2>1
  <2> QED
    BY <2>4, <2>5, <2>6 DEF ChainIsRead
<1> QED
  BY <1>5, <1>6

LEMMA FlushFits == ASSUME RInv, NEW r \in Reqs, FlushPendingEvents(r) PROVE RInv'
<1> DEFINE p == req[r]
           block == [kind |-> p.content[p.read + 1], n |-> p.read + 1]
<1>1. /\ p \in ReqRec /\ p.pc = "stream" /\ ~p.verdict.ok /\ ReceiptIsOwn(r, p)
      /\ NoClose(p.got) /\ ChainIsRead(p) /\ p.now <= clock /\ p.read < Len(p.content)
  BY Streams DEF FlushPendingEvents
<1>2. /\ p.read \in Nat /\ p.chain \in Seq(Blocks) /\ p.content \in Seq({"data", "comment"})
      /\ p.got \in Seq(Items)
  BY <1>1 DEF ReqRec
<1>3. p.content[p.read + 1] \in {"data", "comment"} /\ Len(p.content) \in Nat
  BY <1>1, <1>2
<1>4. PICK b : b = block
  OBVIOUS
<1>5. b \in Blocks /\ b \in Items /\ b.kind # "close"
  BY <1>2, <1>3, <1>4 DEF Blocks, Items
<1>6. PICK chain : chain = IF b.kind = "comment" THEN p.chain ELSE EventChainStep(p.chain, b)
  OBVIOUS
<1>7. chain \in Seq(Blocks)
  BY <1>2, <1>5, <1>6 DEF EventChainStep
<1>8. PICK got \in Receives(p.got, b) :
         req' = [req EXCEPT ![r].read = p.read + 1, ![r].half = FALSE, ![r].got = got, ![r].chain = chain]
  BY <1>4, <1>6 DEF FlushPendingEvents
<1>9. got \in Seq(Items) /\ NoClose(got)
  <2>1. <<b, b>> \in Seq(Items) /\ NoClose(<<b, b>>)
    BY <1>5 DEF NoClose
  <2>2. p.got \o <<b, b>> \in Seq(Items) /\ NoClose(p.got \o <<b, b>>)
    <3>1. PICK s, g : s = <<b, b>> /\ g = p.got
      OBVIOUS
    <3>2. s \in Seq(Items) /\ g \in Seq(Items) /\ NoClose(s) /\ NoClose(g)
      BY <1>1, <1>2, <2>1, <3>1
    <3>3. NoClose(g \o s)
      BY <3>2, ConcatNoClose
    <3>4. g \o s \in Seq(Items)
      BY <3>2
    <3> QED
      BY <3>1, <3>3, <3>4
  <2>3. Append(p.got, b) \in Seq(Items) /\ NoClose(Append(p.got, b))
    BY <1>1, <1>2, <1>5, AppendNoClose
  <2> QED
    BY <1>1, <1>2, <1>8, <2>2, <2>3 DEF Receives
<1>r. PICK read : read = p.read + 1
  OBVIOUS
<1>t. read \in Nat
  BY <1>2, <1>r
<1>10. PICK q : q = [p EXCEPT !.read = read, !.half = FALSE, !.got = got, !.chain = chain]
  OBVIOUS
<1>11. /\ q \in ReqRec /\ q.pc = p.pc /\ q.receipt = p.receipt /\ q.kind = p.kind /\ q.now = p.now
       /\ q.verdict = p.verdict /\ q.read = read /\ q.content = p.content /\ q.got = got
       /\ q.chain = chain
  BY <1>1, <1>t, <1>7, <1>9, <1>10 DEF ReqRec
<1>12. ClosesOwn(r, q)
  BY <1>9, <1>11 DEF ClosesOwn, NoClose
<1>13. ChainIsRead(q)
  BY <1>1, <1>4, <1>6, <1>r, <1>11, ChainGoesOn
<1>14. q.read <= Len(q.content)
  BY <1>1, <1>2, <1>3, <1>r, <1>11
<1>15. ReqFits(r, q, clock)
  BY <1>1, <1>11, <1>12, <1>13, <1>14, StreamFits
<1>16. req' = [req EXCEPT ![r] = q] /\ UNCHANGED <<config, clock, epoch>>
  BY <1>8, <1>r, <1>10 DEF FlushPendingEvents
<1> QED
  BY <1>15, <1>16, OneReq

\* The close event of a stream closes the chain under its own commitment.
LEMMA CloseEventIsOwn ==
    ASSUME RInv, NEW r \in Reqs, Streaming(r)
    PROVE  /\ CloseEvent(r, req[r].chain) \in Items
           /\ \E e \in Epochs : CloseEvent(r, req[r].chain)
                                  = Closing(Commitment(r, req[r].kind, req[r].now, e), req[r].chain)
<1>1. req[r] \in ReqRec /\ ReceiptIsOwn(r, req[r])
  BY Streams
<1>2. req[r].kind \in Kinds /\ req[r].now \in Nat /\ req[r].chain \in Seq(Blocks)
  BY <1>1 DEF ReqRec
<1>3. PICK e \in Epochs : req[r].receipt = Sign(e, Commitment(r, req[r].kind, req[r].now, e))
  BY <1>1 DEF ReceiptIsOwn
<1>4. req[r].receipt.commitment = Commitment(r, req[r].kind, req[r].now, e)
  BY <1>3 DEF Sign
<1>5. CloseEvent(r, req[r].chain) = Closing(Commitment(r, req[r].kind, req[r].now, e), req[r].chain)
  BY <1>4 DEF CloseEvent, Closing
<1>6. Commitment(r, req[r].kind, req[r].now, e) \in Commitments
  BY <1>2, SignType
<1>7. Closing(Commitment(r, req[r].kind, req[r].now, e), req[r].chain) \in Items
  BY <1>2, <1>6 DEF Items
<1> QED
  BY <1>5, <1>7

LEMMA EndFits ==
    ASSUME RInv, NEW r \in Reqs, Streaming(r), NEW got \in Seq(Items),
           \A i \in DOMAIN got : got[i].kind = "close" => got[i] = CloseEvent(r, req[r].chain),
           req' = [req EXCEPT ![r].pc = "answered", ![r].got = got],
           UNCHANGED <<config, clock, epoch>>
    PROVE  RInv'
<1> DEFINE p == req[r]
<1>1. PICK q : q = [p EXCEPT !.pc = "answered", !.got = got]
  OBVIOUS
<1>2. /\ p \in ReqRec /\ ~p.verdict.ok /\ ReceiptIsOwn(r, p)
      /\ ChainIsRead(p) /\ p.now <= clock /\ p.read <= Len(p.content)
  BY Streams
<1>3. /\ q \in ReqRec /\ q.pc = "answered" /\ q.receipt = p.receipt /\ q.kind = p.kind /\ q.now = p.now
      /\ q.verdict = p.verdict /\ q.read = p.read /\ q.content = p.content /\ q.got = got
      /\ q.chain = p.chain
  BY <1>1, <1>2 DEF ReqRec
<1>4. ClosesOwn(r, q)
  BY <1>3, CloseEventIsOwn DEF ClosesOwn
<1>5. ChainIsRead(q)
  BY <1>2, <1>3 DEF ChainIsRead
<1>6. ReqFits(r, q, clock)
  BY <1>2, <1>3, <1>4, <1>5, StreamFits
<1>7. req' = [req EXCEPT ![r] = q]
  BY <1>1
<1> QED
  BY <1>6, <1>7, OneReq

\* What goes before the close event has none.
LEMMA CloseIsLast ==
    ASSUME NEW s \in Seq(Items), NoClose(s), NEW x \in Items
    PROVE  /\ Append(s, x) \in Seq(Items)
           /\ \A i \in DOMAIN Append(s, x) : Append(s, x)[i].kind = "close" => Append(s, x)[i] = x
<1>1. Append(s, x) \in Seq(Items) /\ DOMAIN Append(s, x) = 1..(Len(s) + 1) /\ Len(s) \in Nat
  OBVIOUS
<1>2. ASSUME NEW i \in DOMAIN Append(s, x), i # Len(s) + 1
      PROVE  Append(s, x)[i] = s[i] /\ i \in DOMAIN s
  BY <1>1, <1>2
<1>3. Append(s, x)[Len(s) + 1] = x
  OBVIOUS
<1> QED
  BY <1>1, <1>2, <1>3 DEF NoClose

LEMMA FailsFits == ASSUME RInv, NEW r \in Reqs, StreamFails(r) PROVE RInv'
<1>1. Streaming(r) /\ UNCHANGED <<config, clock, epoch>>
  BY DEF StreamFails
<1>2. req[r] \in ReqRec /\ NoClose(req[r].got)
  BY <1>1, Streams
<1>3. PICK s : s = req[r].got
  OBVIOUS
<1>4. s \in Seq(Items) /\ NoClose(s)
  BY <1>2, <1>3 DEF ReqRec
<1>5. PICK x : x = CloseEvent(r, req[r].chain)
  OBVIOUS
<1>6. x \in Items
  BY <1>1, <1>5, CloseEventIsOwn
<1>7. PICK got \in {s, Append(s, x)} : req' = [req EXCEPT ![r].pc = "answered", ![r].got = got]
  BY <1>3, <1>5 DEF StreamFails
<1>8. got \in Seq(Items) /\ \A i \in DOMAIN got : got[i].kind = "close" => got[i] = x
  <2>1. CASE got = s
    BY <1>4, <2>1 DEF NoClose
  <2>2. CASE got = Append(s, x)
    BY <1>4, <1>6, <2>2, CloseIsLast
  <2> QED
    BY <1>7, <2>1, <2>2
<1> QED
  BY <1>1, <1>5, <1>7, <1>8, EndFits

LEMMA DoneFits == ASSUME RInv, NEW r \in Reqs, StreamDone(r) PROVE RInv'
<1> DEFINE p == req[r]
           tail == IF p.half THEN <<[kind |-> "rest", n |-> p.read + 1]>> ELSE <<>>
<1>1. Streaming(r) /\ UNCHANGED <<config, clock, epoch>>
  BY DEF StreamDone
<1>2. p \in ReqRec /\ NoClose(p.got)
  BY <1>1, Streams
<1>3. p.got \in Seq(Items) /\ p.read + 1 \in Nat
  BY <1>2 DEF ReqRec
<1>4. PICK rest : rest = tail
  OBVIOUS
<1>5. rest \in Seq(Items) /\ NoClose(rest)
  <2>1. PICK b : b = [kind |-> "rest", n |-> p.read + 1]
    OBVIOUS
  <2>2. b \in Items /\ b.kind # "close"
    BY <1>3, <2>1 DEF Items, Blocks
  <2>3. <<b>> \in Seq(Items) /\ NoClose(<<b>>)
    BY <2>2 DEF NoClose
  <2>4. <<>> \in Seq(Items) /\ NoClose(<<>>)
    BY DEF NoClose
  <2> QED
    BY <1>4, <2>1, <2>3, <2>4
<1>6. PICK g : g = p.got
  OBVIOUS
<1>7. g \in Seq(Items) /\ NoClose(g)
  BY <1>2, <1>3, <1>6
<1>8. PICK s : s = g \o rest
  OBVIOUS
<1>9. s \in Seq(Items) /\ NoClose(s)
  <2>1. g \o rest \in Seq(Items)
    BY <1>5, <1>7
  <2>2. NoClose(g \o rest)
    BY <1>5, <1>7, ConcatNoClose
  <2> QED
    BY <1>8, <2>1, <2>2
<1>10. PICK x : x = CloseEvent(r, p.chain)
  OBVIOUS
<1>11. x \in Items
  BY <1>1, <1>10, CloseEventIsOwn
<1>12. s \o <<x>> = Append(s, x)
  BY <1>9, <1>11
<1>13. req' = [req EXCEPT ![r].pc = "answered", ![r].got = s \o <<x>>]
  BY <1>4, <1>6, <1>8, <1>10 DEF StreamDone
<1>14. PICK got : got = Append(s, x)
  OBVIOUS
<1>15. got \in Seq(Items) /\ \A i \in DOMAIN got : got[i].kind = "close" => got[i] = x
  BY <1>9, <1>11, <1>14, CloseIsLast
<1>16. req' = [req EXCEPT ![r].pc = "answered", ![r].got = got]
  BY <1>12, <1>13, <1>14
<1> QED
  BY <1>1, <1>10, <1>15, <1>16, EndFits

\* The peer makes up its mind about a response of its own request.
LEMMA VerdictFits ==
    ASSUME RInv, NEW r \in Reqs, req[r].pc = "answered", NEW fp \in Epochs,
           req[r].kind = "json" =>
             VerifyReceiptVArchival(CanonicalRequestBytes(r, req[r].ts), req[r].receipt, r, fp),
           req[r].kind = "sse" => Rolled(req[r].got) = req[r].chain,
           req' = [req EXCEPT ![r].verdict = [ok |-> TRUE, from |-> r, body |-> r, fp |-> fp]],
           UNCHANGED <<config, clock, epoch>>
    PROVE  RInv'
<1> DEFINE p == req[r]
<1>1. PICK v : v = [ok |-> TRUE, from |-> r, body |-> r, fp |-> fp]
  OBVIOUS
<1>2. v \in Verdicts /\ v.ok /\ v.from = r /\ v.body = r /\ v.fp = fp
  <2>1. fp \in Nat
    BY LocalIsEpoch DEF Epochs
  <2> QED
    BY <1>1, <2>1 DEF Verdicts
<1>3. PICK q : q = [p EXCEPT !.verdict = v]
  OBVIOUS
<1>4. /\ p \in ReqRec /\ p.now <= clock /\ p.read <= Len(p.content)
      /\ StageOK(r, p) /\ ClosesOwn(r, p) /\ ChainIsRead(p)
  BY ReqHas
<1>5. /\ q \in ReqRec /\ q.pc = p.pc /\ q.receipt = p.receipt /\ q.kind = p.kind /\ q.now = p.now
      /\ q.verdict = v /\ q.read = p.read /\ q.content = p.content /\ q.got = p.got
      /\ q.chain = p.chain /\ q.ts = p.ts /\ q.ctx = p.ctx
  BY <1>2, <1>3, <1>4 DEF ReqRec
<1>6. ClosesOwn(r, q) /\ ChainIsRead(q)
  BY <1>4, <1>5 DEF ClosesOwn, ChainIsRead
<1>7. StageOK(r, q)
  BY <1>4, <1>5 DEF StageOK, ReceiptIsOwn
<1>8. AcceptedOwn(r, q)
  BY <1>2, <1>5 DEF AcceptedOwn
<1>9. ReqFits(r, q, clock)
  BY <1>4, <1>5, <1>6, <1>7, <1>8 DEF ReqFits
<1>10. req' = [req EXCEPT ![r] = q]
  BY <1>1, <1>3
<1> QED
  BY <1>9, <1>10, OneReq

\* The fields of a commitment that tell whose it is.
LEMMA CommitmentOf ==
    ASSUME NEW r, NEW k, NEW n, NEW e
    PROVE  /\ Commitment(r, k, n, e).nonce = r /\ Commitment(r, k, n, e).epoch = e
           /\ Commitment(r, k, n, e).actorFp = e
           /\ k = "json" => Commitment(r, k, n, e).body = r
BY DEF Commitment, ActorFp

LEMMA VerifiesFits == ASSUME RInv, NEW r \in Reqs, PeerVerifies(r) PROVE RInv'
<1>1. PICK o \in {q \in Reqs : req[q].receipt # <<>>}, body \in Reqs, view \in 1..epoch, fp \in Epochs :
         /\ VerifyReceiptPLive(r, CanonicalRequestBytes(r, req[r].ts), req[o].receipt, body, fp, view)
         /\ req' = [req EXCEPT ![r].verdict = [ok |-> TRUE, from |-> o, body |-> body, fp |-> fp]]
  BY DEF PeerVerifies
<1>2. req[r].pc = "answered" /\ req[r].kind = "json" /\ UNCHANGED <<config, clock, epoch>>
  BY DEF PeerVerifies
<1>3. ReceiptIsOwn(o, req[o])
  BY ReqHas DEF StageOK
<1>4. PICK e \in Epochs : req[o].receipt = Sign(e, Commitment(o, req[o].kind, req[o].now, e))
  BY <1>3 DEF ReceiptIsOwn
<1>5. req[o].receipt.commitment = Commitment(o, req[o].kind, req[o].now, e)
  BY <1>4 DEF Sign
<1>6. o = r
  BY <1>1, <1>5, CommitmentOf DEF VerifyReceiptPLive
<1>7. body = r
  BY <1>1, <1>2, <1>5, <1>6, CommitmentOf DEF VerifyReceiptPLive
<1>8. VerifyReceiptVArchival(CanonicalRequestBytes(r, req[r].ts), req[r].receipt, r, fp)
  BY <1>1, <1>6, <1>7 DEF VerifyReceiptPLive, VerifyReceiptVArchival
<1> QED
  BY <1>1, <1>2, <1>6, <1>7, <1>8, VerdictFits

LEMMA ClosingHas ==
    ASSUME NEW c, NEW chain
    PROVE  Closing(c, chain).close.commitment.open = c /\ Closing(c, chain).close.commitment.tip = chain
BY DEF Closing, Sign

LEMMA VerifiesCloseFits == ASSUME RInv, NEW r \in Reqs, PeerVerifiesClose(r) PROVE RInv'
<1>1. PICK o \in Reqs : \E b \in Range(req[o].got) :
         /\ b.kind = "close" /\ VerifyStreamClose(r, b.close, Rolled(req[r].got))
         /\ req' = [req EXCEPT ![r].verdict = [ok |-> TRUE, from |-> o, body |-> r, fp |-> LocalEpoch]]
  BY DEF PeerVerifiesClose
<1>2. PICK i \in DOMAIN req[o].got :
         /\ req[o].got[i].kind = "close" /\ VerifyStreamClose(r, req[o].got[i].close, Rolled(req[r].got))
         /\ req' = [req EXCEPT ![r].verdict = [ok |-> TRUE, from |-> o, body |-> r, fp |-> LocalEpoch]]
  BY <1>1 DEF Range
<1>3. /\ req[r].pc = "answered" /\ req[r].kind = "sse" /\ req[r].receipt # <<>>
      /\ UNCHANGED <<config, clock, epoch>>
  BY DEF PeerVerifiesClose
<1>4. ClosesOwn(o, req[o]) /\ ReceiptIsOwn(r, req[r])
  BY <1>3, ReqHas DEF StageOK
<1>5. PICK e \in Epochs : req[o].got[i] = Closing(Commitment(o, req[o].kind, req[o].now, e), req[o].chain)
  BY <1>2, <1>4 DEF ClosesOwn
<1>6. PICK f \in Epochs : req[r].receipt = Sign(f, Commitment(r, req[r].kind, req[r].now, f))
  BY <1>4 DEF ReceiptIsOwn
<1>7. req[r].receipt.commitment = Commitment(r, req[r].kind, req[r].now, f)
  BY <1>6 DEF Sign
<1>8. /\ req[o].got[i].close.commitment.open = Commitment(o, req[o].kind, req[o].now, e)
      /\ req[o].got[i].close.commitment.tip = req[o].chain
  BY <1>5, ClosingHas
<1>9. Commitment(o, req[o].kind, req[o].now, e) = Commitment(r, req[r].kind, req[r].now, f)
  BY <1>2, <1>7, <1>8 DEF VerifyStreamClose
<1>10. o = r
  <2>1. Commitment(o, req[o].kind, req[o].now, e).nonce = o
    BY CommitmentOf
  <2>2. Commitment(r, req[r].kind, req[r].now, f).nonce = r
    BY CommitmentOf
  <2> QED
    BY <1>9, <2>1, <2>2
<1>11. Rolled(req[r].got) = req[r].chain
  BY <1>2, <1>8, <1>10 DEF VerifyStreamClose
<1> QED
  BY <1>2, <1>3, <1>10, <1>11, LocalIsEpoch, VerdictFits

LEMMA RStep == ASSUME RInv, [Next]_vars PROVE RInv'
<1>1. CASE Tick \/ Rotate
  BY <1>1, TickFits, RotateFits
<1>2. ASSUME NEW r \in Reqs,
             \/ \E kind \in {"json", "sse"} : Send(r, kind)
             \/ Admit(r) \/ ProbeAnswers(r) \/ LoadReceiptSigner(r)
             \/ SignCommitmentToHeader(r) \/ SignCommitment(r) \/ RefreshFacts(r) \/ RetrySign(r)
             \/ SignFails(r)
      PROVE  RInv'
  BY <1>2, SendFits, AdmitFits, ProbeFits, LoadFits, SignHeaderFits, SignFits, RefreshFits, RetryFits,
     SignFailsFits DEF Kinds
<1>3. ASSUME NEW r \in Reqs,
             \/ \E content \in Contents : SignStreamOpenToHeader(r, content)
             \/ ReadHalf(r) \/ FlushPendingEvents(r) \/ StreamDone(r) \/ StreamFails(r) \/ CancelStream(r)
             \/ PeerVerifies(r) \/ PeerVerifiesClose(r)
      PROVE  RInv'
  BY <1>3, StreamOpenFits, HalfFits, FlushFits, DoneFits, FailsFits, CancelFits, VerifiesFits,
     VerifiesCloseFits
<1>4. CASE UNCHANGED vars
  <2>1. config' = config /\ clock' = clock /\ epoch' = epoch /\ req' = req
    BY <1>4 DEF vars
  <2> QED
    BY <2>1 DEF RInv
<1> QED
  BY <1>1, <1>2, <1>3, <1>4 DEF Next

\* The invariant of receipts: what a request has is its own.
THEOREM ReceiptsInvariant == Spec => []RInv
<1>1. Init => RInv
  BY RInit
<1>2. RInv /\ [Next]_vars => RInv'
  BY RStep
<1> QED
  BY <1>1, <1>2, PTL DEF Spec

LEMMA RInvTypes == RInv => TypeOK
BY DEF RInv, ReqFits, ReqRec, TypeOK

LEMMA RInvHolds == RInv => ReceiptsHold
<1> SUFFICES ASSUME RInv PROVE ReceiptsHold
  OBVIOUS
<1>1. ASSUME NEW r \in Reqs, req[r].receipt # <<>>
      PROVE  /\ VerifyEd25519(req[r].receipt.commitment.epoch, req[r].receipt)
             /\ req[r].receipt.commitment.actorFp = ActorFp(req[r].receipt.commitment.epoch)
  <2>1. ReceiptIsOwn(r, req[r])
    BY <1>1, ReqHas DEF StageOK
  <2>2. PICK e \in Epochs : req[r].receipt = Sign(e, Commitment(r, req[r].kind, req[r].now, e))
    BY <2>1 DEF ReceiptIsOwn
  <2>3. PICK c : c = Commitment(r, req[r].kind, req[r].now, e)
    OBVIOUS
  <2>4. c.epoch = e /\ c.actorFp = e
    BY <2>3, CommitmentOf
  <2>5. req[r].receipt = Sign(e, c)
    BY <2>2, <2>3
  <2> QED
    BY <2>4, <2>5 DEF Sign, VerifyEd25519, ActorFp
<1>2. EmittedVerifies
  BY <1>1 DEF EmittedVerifies
<1>3. AcceptedIsGenuine /\ AcceptedStaysAuditable
  BY ReqHas DEF AcceptedOwn, AcceptedIsGenuine, AcceptedStaysAuditable
<1>4. ClosedIsPrefix
  BY ReqHas DEF AcceptedOwn, ChainIsRead, ClosedIsPrefix
<1> QED
  BY <1>2, <1>3, <1>4 DEF ReceiptsHold

\* Receipts hold, whatever rotates, is lost, repeated or spliced in on the way.
THEOREM ReceiptsAreGenuine == Spec => []ReceiptsHold
BY ReceiptsInvariant, RInvHolds, PTL

-----------------------------------------------------------------------------
(***************************************************************************)
(* Disclosure.  A peer's rows have the seqs 1..n without a hole, so the    *)
(* rows from a seq on, in order, are numbered from there; and a reader who *)
(* holds a cursor holds the rows before it.                                *)
(***************************************************************************)

\* A set of naturals that is not empty has a least element.
LEMMA LeastNat ==
    ASSUME NEW S, S \subseteq Nat, S # {}
    PROVE  \E a \in S : \A j \in S : a <= j
<1>1. \E a \in S : \A j \in S : ~(<<j, a>> \in OpToRel(<, Nat))
  BY NatLessThanWellFounded, WFMin
<1>2. PICK a \in S : \A j \in S : ~(<<j, a>> \in OpToRel(<, Nat))
  BY <1>1
<1>3. \A j \in S : ~(j < a)
  BY <1>2 DEF OpToRel
<1> QED
  BY <1>3

\* Below a row of a peer there is one for each seq.
LEMMA NoHole ==
    ASSUME TSTypeOK, ChainLinked, NEW a \in attestations, NEW m \in 1..a.seq
    PROVE  \E b \in attestations : b.peer = a.peer /\ b.seq = m
<1> DEFINE Seated(x) == \E b \in attestations : b.peer = a.peer /\ b.seq = x
           Missing == {d \in 0..a.seq : a.seq - d >= 1 /\ ~Seated(a.seq - d)}
<1>1. a.seq \in Nat
  BY DEF TSTypeOK, Attestation
<1>2. SUFFICES ASSUME ~Seated(m) PROVE FALSE
  OBVIOUS
<1>3. a.seq - m \in Missing
  <2>1. a.seq - m \in 0..a.seq /\ a.seq - (a.seq - m) = m /\ m >= 1
    BY <1>1
  <2> QED
    BY <2>1, <1>2
<1>4. PICK d \in Missing : \A x \in Missing : d <= x
  <2>1. Missing \subseteq Nat /\ Missing # {}
    BY <1>1, <1>3
  <2> HIDE DEF Missing
  <2> QED
    BY <2>1, LeastNat
<1>5. d \in 0..a.seq /\ a.seq - d >= 1 /\ ~Seated(a.seq - d)
  OBVIOUS
<1>6. d # 0
  <2>1. Seated(a.seq)
    OBVIOUS
  <2> QED
    BY <1>1, <1>5, <2>1
<1>7. d - 1 \notin Missing /\ d - 1 \in 0..a.seq /\ a.seq - (d - 1) >= 1
  BY <1>1, <1>4, <1>5, <1>6
<1>8. PICK c \in attestations : c.peer = a.peer /\ c.seq = a.seq - (d - 1)
  BY <1>7
<1>9. c.seq # 1
  BY <1>1, <1>5, <1>6, <1>8
<1>10. PICK b \in attestations : b.peer = c.peer /\ b.seq + 1 = c.seq
  BY <1>9 DEF ChainLinked
<1>11. b.seq \in Nat
  BY DEF TSTypeOK, Attestation
<1>12. b.seq = a.seq - d
  BY <1>1, <1>5, <1>8, <1>10, <1>11
<1> QED
  BY <1>5, <1>8, <1>10, <1>12

\* The rows of a peer with seqs in an interval that the chain reaches are as
\* many as the interval has seqs.
LEMMA RowsCounted ==
    ASSUME TSTypeOK, ChainLinked, NEW p, NEW lo \in Nat \ {0}, NEW hi \in Nat, lo <= hi + 1,
           NEW T, T = {b \in RowsOf(p) : lo <= b.seq /\ b.seq <= hi},
           \A m \in lo..hi : \E b \in RowsOf(p) : b.seq = m
    PROVE  IsFiniteSet(T) /\ Cardinality(T) = hi - lo + 1
<1> DEFINE f == [b \in T |-> b.seq]
<1>1. \A b \in T : b \in attestations /\ b.seq \in Nat /\ b.seq \in lo..hi /\ b.peer = p
  BY DEF RowsOf, TSTypeOK, Attestation
<1>2. f \in [T -> lo..hi]
  BY <1>1
<1>3. \A b, c \in T : f[b] = f[c] => b = c
  BY <1>1 DEF ChainLinked
<1>4. \A m \in lo..hi : \E b \in T : f[b] = m
  <2>1. SUFFICES ASSUME NEW m \in lo..hi PROVE \E b \in T : b.seq = m
    OBVIOUS
  <2>2. PICK b \in RowsOf(p) : b.seq = m
    OBVIOUS
  <2> QED
    BY <2>2
<1> HIDE DEF f
<1>5. f \in Bijection(T, lo..hi)
  BY <1>2, <1>3, <1>4 DEF Bijection, Injection, Surjection, IsInjective
<1>6. ExistsBijection(lo..hi, T)
  <2>1. ExistsBijection(T, lo..hi)
    BY <1>5 DEF ExistsBijection
  <2> QED
    BY <2>1, Fun_ExistsBijSymmetric
<1>7. IsFiniteSet(lo..hi) /\ Cardinality(lo..hi) = hi - lo + 1
  <2>1. lo \in Int /\ hi \in Int
    OBVIOUS
  <2>2. IsFiniteSet(lo..hi) /\ Cardinality(lo..hi) = IF lo > hi THEN 0 ELSE hi - lo + 1
    BY <2>1, FS_Interval
  <2> QED
    BY <2>2
<1> QED
  BY <1>6, <1>7, FS_Bijection

LEMMA FunIsSeq ==
    ASSUME NEW A, NEW n \in Nat, NEW f \in [1..n -> A]
    PROVE  f \in Seq(A) /\ DOMAIN f = 1..n
OBVIOUS

LEMMA OrderBySeqAt ==
    ASSUME NEW S
    PROVE  /\ DOMAIN OrderBySeq(S) = 1..Cardinality(S)
           /\ \A i \in 1..Cardinality(S) :
                 OrderBySeq(S)[i] = CHOOSE a \in S : Cardinality({c \in S : c.seq < a.seq}) = i - 1
           /\ \A A : (\A i \in 1..Cardinality(S) : OrderBySeq(S)[i] \in A) =>
                      OrderBySeq(S) \in [1..Cardinality(S) -> A]
BY DEF OrderBySeq

\* The rows of a peer from a seq on, in order: the i-th is numbered from there.
\* From 0 on is from 1 on, where the chain begins.
LEMMA OrderedFrom ==
    ASSUME TSTypeOK, ChainLinked, HeadExists, NEW p \in Peers, NEW from \in Nat,
           NEW lo, lo = IF from = 0 THEN 1 ELSE from,
           NEW S, S = {a \in RowsOf(p) : a.seq >= from}
    PROVE  /\ OrderBySeq(S) \in Seq(attestations)
           /\ \A i \in DOMAIN OrderBySeq(S) : /\ OrderBySeq(S)[i].seq = lo + i - 1
                                              /\ OrderBySeq(S)[i].peer = p
<1>1. \A b \in RowsOf(p) : b \in attestations /\ b.peer = p /\ b.seq \in Nat \ {0}
  BY DEF RowsOf, TSTypeOK, Attestation
<1>2. lo \in Nat \ {0} /\ S = {a \in RowsOf(p) : lo <= a.seq}
  BY <1>1
<1>3. CASE S = {}
  <2>1. Cardinality(S) = 0
    BY <1>3, FS_EmptySet
  <2>2. OrderBySeq(S) \in [1..0 -> attestations] /\ DOMAIN OrderBySeq(S) = 1..0
    <3>1. \A i \in 1..Cardinality(S) : OrderBySeq(S)[i] \in attestations
      BY <2>1
    <3>2. OrderBySeq(S) \in [1..Cardinality(S) -> attestations]
      BY <3>1, OrderBySeqAt
    <3> QED
      BY <2>1, <3>2
  <2>3. OrderBySeq(S) \in Seq(attestations)
    BY <2>2, FunIsSeq
  <2>4. DOMAIN OrderBySeq(S) = {}
    BY <2>2
  <2> QED
    BY <2>3, <2>4
<1>4. CASE S # {}
  <2>1. PICK h \in attestations : IsHead(h, p)
    BY <1>4 DEF HeadExists
  <2>2. h \in RowsOf(p) /\ h.seq \in Nat \ {0} /\ h.peer = p /\ \A b \in RowsOf(p) : b.seq <= h.seq
    BY <2>1, <1>1 DEF IsHead
  <2>3. lo <= h.seq
    BY <1>1, <1>2, <1>4, <2>2
  <2>4. ASSUME NEW m \in lo..h.seq PROVE \E b \in RowsOf(p) : b.seq = m
    <3>1. m \in 1..h.seq
      BY <1>2, <2>2
    <3>2. \E b \in attestations : b.peer = h.peer /\ b.seq = m
      BY <3>1, <2>1, NoHole
    <3> QED
      BY <3>2, <2>2 DEF RowsOf
  <2>5. Cardinality(S) = h.seq - lo + 1
    <3>1. S = {b \in RowsOf(p) : lo <= b.seq /\ b.seq <= h.seq}
      BY <1>2, <2>2
    <3>2. lo <= h.seq + 1
      BY <1>2, <2>2, <2>3
    <3> QED
      BY <1>2, <2>2, <2>4, <3>1, <3>2, RowsCounted
  <2>6. ASSUME NEW a \in S PROVE Cardinality({b \in S : b.seq < a.seq}) = a.seq - lo
    <3>1. a \in RowsOf(p) /\ a.seq \in Nat \ {0} /\ lo <= a.seq /\ a.seq <= h.seq
      BY <1>1, <1>2, <2>2
    <3>2. PICK hi : hi = a.seq - 1
      OBVIOUS
    <3>3. hi \in Nat /\ lo <= hi + 1 /\ hi <= h.seq
      BY <1>2, <2>2, <3>1, <3>2
    <3>4. PICK T : T = {b \in S : b.seq < a.seq}
      OBVIOUS
    <3>5. T = {b \in RowsOf(p) : lo <= b.seq /\ b.seq <= hi}
      BY <1>1, <1>2, <3>1, <3>2, <3>4
    <3>6. \A m \in lo..hi : \E b \in RowsOf(p) : b.seq = m
      BY <1>2, <2>2, <2>4, <3>3
    <3>7. Cardinality(T) = hi - lo + 1
      BY <1>2, <3>3, <3>5, <3>6, RowsCounted
    <3>8. Cardinality(T) = a.seq - lo
      BY <1>2, <3>1, <3>2, <3>7
    <3> QED
      BY <3>4, <3>8
  <2>7. ASSUME NEW i \in 1..Cardinality(S)
        PROVE  /\ OrderBySeq(S)[i] \in S
               /\ OrderBySeq(S)[i].seq = lo + i - 1
    <3>1. i \in Nat /\ lo + i - 1 \in lo..h.seq
      BY <1>2, <2>2, <2>5
    <3>2. PICK b \in RowsOf(p) : b.seq = lo + i - 1
      BY <3>1, <2>4
    <3>3. b \in S
      BY <1>2, <3>1, <3>2
    <3>4. Cardinality({c \in S : c.seq < b.seq}) = i - 1
      BY <1>2, <2>6, <3>1, <3>2, <3>3
    <3>5. OrderBySeq(S)[i] = CHOOSE a \in S : Cardinality({c \in S : c.seq < a.seq}) = i - 1
      BY OrderBySeqAt
    <3>6. /\ OrderBySeq(S)[i] \in S
          /\ Cardinality({c \in S : c.seq < OrderBySeq(S)[i].seq}) = i - 1
      BY <3>3, <3>4, <3>5
    <3>7. PICK a \in S : a = OrderBySeq(S)[i]
      BY <3>6
    <3>8. a.seq \in Nat /\ a.seq - lo = i - 1
      <4>1. Cardinality({c \in S : c.seq < a.seq}) = i - 1
        BY <3>6, <3>7
      <4>2. Cardinality({c \in S : c.seq < a.seq}) = a.seq - lo
        BY <2>6
      <4> QED
        BY <1>1, <4>1, <4>2
    <3>9. a.seq = lo + i - 1
      BY <1>2, <3>1, <3>8
    <3> QED
      BY <3>7, <3>9
  <2>8. Cardinality(S) \in Nat
    BY <1>2, <2>2, <2>3, <2>5
  <2>9. S \subseteq attestations /\ \A a \in S : a.peer = p
    BY <1>1
  <2>10. OrderBySeq(S) \in [1..Cardinality(S) -> attestations]
    BY <2>7, <2>9, OrderBySeqAt
  <2>11. OrderBySeq(S) \in Seq(attestations) /\ DOMAIN OrderBySeq(S) = 1..Cardinality(S)
    BY <2>8, <2>10, FunIsSeq
  <2> QED
    BY <2>7, <2>9, <2>11
<1> QED
  BY <1>3, <1>4

LEMMA ListedFrom ==
    ASSUME TSTypeOK, ChainLinked, HeadExists, NEW p \in Peers, NEW from \in Nat, NEW limit \in Nat,
           NEW lo, lo = IF from = 0 THEN 1 ELSE from,
           NEW page, page = ListAttestationsForPeer(p, from, limit)
    PROVE  page \in Seq(attestations) /\ \A i \in DOMAIN page : page[i].seq = lo + i - 1 /\ page[i].peer = p
<1>1. PICK S : S = {a \in RowsOf(p) : a.seq >= from}
  OBVIOUS
<1>2. PICK rows_ : rows_ = OrderBySeq(S)
  OBVIOUS
<1>3. rows_ \in Seq(attestations) /\ \A i \in DOMAIN rows_ : rows_[i].seq = lo + i - 1 /\ rows_[i].peer = p
  BY <1>1, <1>2, OrderedFrom
<1>4. PICK n : n = IF Len(rows_) < limit THEN Len(rows_) ELSE limit
  OBVIOUS
<1>5. n \in 0..Len(rows_) /\ Len(rows_) \in Nat
  BY <1>3, <1>4
<1>6. page = SubSeq(rows_, 1, n)
  BY <1>1, <1>2, <1>4 DEF ListAttestationsForPeer
<1>7. page \in Seq(attestations) /\ DOMAIN page = 1..n /\ \A i \in 1..n : page[i] = rows_[i]
  BY <1>3, <1>5, <1>6
<1>8. ASSUME NEW i \in DOMAIN page PROVE page[i].seq = lo + i - 1 /\ page[i].peer = p
  <2>1. i \in DOMAIN rows_ /\ page[i] = rows_[i]
    BY <1>3, <1>5, <1>7
  <2> QED
    BY <1>3, <2>1
<1> QED
  BY <1>7, <1>8

SignedCursors == [peer : Peers, from : Nat]
Cursors == {NoCursor, Forged} \cup SignedCursors

ReaderRec ==
    [pc : {"idle", "probe", "list", "pending"}, peer : Peers \cup {NoRef},
     cursor : Cursors, rejected : BOOLEAN,
     page : Seq(Attestation), got : Seq(Attestation), status : {0, 200, 404}]

\* What PagesAreTheChain says of the rows one reader has.
Collected(got, rs) ==
    \A i \in DOMAIN got : got[i].seq = i /\ got[i].peer = got[1].peer /\ got[i] \in rs

\* A cursor goes on where the rows end.
Follows(cursor, got) ==
    cursor \in SignedCursors /\ got # <<>> /\ cursor.peer = got[1].peer /\ cursor.from = Len(got) + 1

\* The rows of the next page go on where the rows end.
GoesOn(page, got, p, rs) ==
    \A i \in DOMAIN page : page[i].seq = Len(got) + i /\ page[i].peer = p /\ page[i] \in rs

\* A request that is not refused begins anew or goes on with its peer.
Begun(q) ==
    IF q.cursor = NoCursor THEN q.got = <<>> ELSE Follows(q.cursor, q.got) /\ q.cursor.peer = q.peer

ReaderOK(q, rs) ==
    /\ q \in ReaderRec
    /\ Collected(q.got, rs)
    /\ q.pc = "idle" => q.cursor = NoCursor \/ Follows(q.cursor, q.got)
    /\ q.pc # "idle" => q.peer \in Peers /\ (q.rejected \/ Begun(q))
    /\ q.pc \in {"list", "pending"} => ~q.rejected
    /\ q.pc = "pending" => GoesOn(q.page, q.got, q.peer, rs)

DInv ==
    /\ TSTypeOK /\ SafeInv
    /\ reader \in [Readers -> ReaderRec]
    /\ \A r \in Readers : ReaderOK(reader[r], attestations)

LEMMA OneReader ==
    ASSUME DInv, NEW r \in Readers, NEW q, ReaderOK(q, attestations),
           reader' = [reader EXCEPT ![r] = q], UNCHANGED tsVars
    PROVE  DInv'
<1>1. q \in ReaderRec
  BY DEF ReaderOK
<1>2. reader' \in [Readers -> ReaderRec]
  BY <1>1 DEF DInv
<1>3. attestations' = attestations /\ pending' = pending /\ sweep' = sweep
  BY DEF tsVars
<1>4. ASSUME NEW o \in Readers PROVE ReaderOK(reader'[o], attestations)
  <2>1. reader'[o] = IF o = r THEN q ELSE reader[o]
    BY DEF DInv
  <2> QED
    BY <2>1 DEF DInv
<1>5. [TSNext]_tsVars
  OBVIOUS
<1>6. TSTypeOK' /\ SafeInv'
  BY <1>5, SafeStep DEF DInv
<1> QED
  BY <1>2, <1>3, <1>4, <1>6 DEF DInv

LEMMA DInvInit == DInit => DInv
<1> SUFFICES ASSUME DInit PROVE DInv
  OBVIOUS
<1>1. TSTypeOK /\ SafeInv
  BY SafeInit DEF DInit
<1>2. NoPage \in ReaderRec /\ NoPage.got = <<>> /\ NoPage.pc = "idle" /\ NoPage.cursor = NoCursor
  BY DEF NoPage, ReaderRec, Cursors
<1>3. ReaderOK(NoPage, attestations)
  BY <1>2 DEF ReaderOK, Collected
<1>4. reader = [r \in Readers |-> NoPage]
  BY DEF DInit
<1> QED
  BY <1>1, <1>2, <1>3, <1>4 DEF DInv

\* Whatever the tables do, the rows a reader has stay in the chain.
LEMMA TablesMove == ASSUME DInv, TSNext /\ UNCHANGED reader PROVE DInv'
<1>1. attestations \subseteq attestations' /\ TSTypeOK' /\ SafeInv'
  BY ChainGrows, SafeStep DEF DInv
<1>2. ASSUME NEW r \in Readers PROVE ReaderOK(reader'[r], attestations')
  <2>1. ReaderOK(reader[r], attestations) /\ reader'[r] = reader[r]
    BY DEF DInv
  <2> QED
    BY <1>1, <2>1 DEF ReaderOK, Collected, GoesOn
<1> QED
  BY <1>1, <1>2 DEF DInv

LEMMA AskFits ==
    ASSUME DInv, NEW r \in Readers, NEW p \in Peers, NEW granted \in BOOLEAN, NEW cursor,
           Ask(r, p, granted, cursor)
    PROVE  DInv'
<1> DEFINE o == reader[r]
<1>1. /\ ReaderOK(o, attestations) /\ o \in ReaderRec /\ o.pc = "idle"
      /\ cursor \in {NoCursor, Forged, o.cursor}
  BY DEF DInv, ReaderOK, Ask
<1>2. cursor \in Cursors
  BY <1>1 DEF ReaderRec, Cursors
<1>3. PICK rejected : rejected = (~granted \/ ~VerifyCursor(p, cursor))
  OBVIOUS
<1>4. PICK got : got = IF cursor = NoCursor THEN <<>> ELSE o.got
  OBVIOUS
<1>5. rejected \in BOOLEAN /\ got \in Seq(Attestation) /\ Collected(got, attestations)
  <2>1. o.got \in Seq(Attestation) /\ Collected(o.got, attestations)
    BY <1>1 DEF ReaderRec, ReaderOK
  <2>2. <<>> \in Seq(Attestation) /\ Collected(<<>>, attestations)
    BY DEF Collected
  <2> QED
    BY <1>3, <1>4, <2>1, <2>2
<1>6. PICK q : q = [NoPage EXCEPT !.pc = "probe", !.peer = p, !.cursor = cursor,
                                  !.rejected = rejected, !.got = got]
  OBVIOUS
<1>7. q = [pc |-> "probe", peer |-> p, cursor |-> cursor, rejected |-> rejected,
           page |-> <<>>, got |-> got, status |-> 0]
  BY <1>6 DEF NoPage
<1>8. /\ q \in ReaderRec /\ q.pc = "probe" /\ q.peer = p /\ q.cursor = cursor
      /\ q.rejected = rejected /\ q.got = got
  <2>1. <<>> \in Seq(Attestation)
    BY EmptySeq
  <2> QED
    BY <1>2, <1>5, <1>7, <2>1 DEF ReaderRec
<1>9. ASSUME ~rejected PROVE Begun(q)
  <2>1. VerifyCursor(p, cursor)
    BY <1>3, <1>9
  <2>2. CASE cursor = NoCursor
    BY <2>2, <1>4, <1>8 DEF Begun
  <2>3. CASE cursor # NoCursor
    <3>1. cursor # Forged /\ cursor.peer = p /\ cursor = o.cursor
      BY <1>1, <2>1, <2>3 DEF VerifyCursor
    <3>2. Follows(cursor, o.got)
      BY <1>1, <2>3, <3>1 DEF ReaderOK
    <3> QED
      BY <1>4, <1>8, <2>3, <3>1, <3>2 DEF Begun
  <2> QED
    BY <2>2, <2>3
<1>10. ReaderOK(q, attestations)
  BY <1>5, <1>8, <1>9 DEF ReaderOK
<1>11. reader' = [reader EXCEPT ![r] = q] /\ UNCHANGED tsVars
  BY <1>3, <1>4, <1>6 DEF Ask
<1> QED
  BY <1>10, <1>11, OneReader

LEMMA NotFoundFits == ASSUME DInv, NEW r \in Readers, NotFound(r), UNCHANGED tsVars PROVE DInv'
<1> DEFINE p == reader[r]
<1>1. PICK q : q = [p EXCEPT !.pc = "idle", !.status = 404, !.cursor = NoCursor]
  OBVIOUS
<1>2. ReaderOK(p, attestations) /\ p \in ReaderRec
  BY DEF DInv, ReaderOK
<1>3. q \in ReaderRec /\ q.pc = "idle" /\ q.cursor = NoCursor /\ q.got = p.got
  <2>1. NoCursor \in Cursors
    BY DEF Cursors
  <2>2. PICK o, status : o = p /\ status = 404
    OBVIOUS
  <2>3. o \in ReaderRec /\ status \in {0, 200, 404} /\ q = [o EXCEPT !.pc = "idle", !.status = status, !.cursor = NoCursor]
    BY <1>1, <1>2, <2>2
  <2>6. q = [pc |-> "idle", peer |-> o.peer, cursor |-> NoCursor, rejected |-> o.rejected,
             page |-> o.page, got |-> o.got, status |-> status]
    BY <2>3 DEF ReaderRec
  <2>7. /\ o.peer \in Peers \cup {NoRef} /\ o.rejected \in BOOLEAN
        /\ o.page \in Seq(Attestation) /\ o.got \in Seq(Attestation)
    BY <2>3 DEF ReaderRec
  <2>4. q \in ReaderRec
    BY <2>1, <2>3, <2>6, <2>7 DEF ReaderRec
  <2>5. q.pc = "idle" /\ q.cursor = NoCursor /\ q.got = o.got
    BY <2>6
  <2> QED
    BY <2>2, <2>4, <2>5
<1>4. ReaderOK(q, attestations)
  BY <1>2, <1>3 DEF ReaderOK
<1>5. reader' = [reader EXCEPT ![r] = q]
  BY <1>1 DEF NotFound
<1> QED
  BY <1>4, <1>5, OneReader

LEMMA ProbeReaderFits == ASSUME DInv, NEW r \in Readers, Probe(r) PROVE DInv'
<1> DEFINE p == reader[r]
<1>1. CASE p.rejected \/ ~PeerHasChain(p.peer)
  BY <1>1, NotFoundFits DEF Probe
<1>2. CASE ~(p.rejected \/ ~PeerHasChain(p.peer))
  <2>1. PICK q : q = [p EXCEPT !.pc = "list"]
    OBVIOUS
  <2>2. ReaderOK(p, attestations) /\ p \in ReaderRec /\ p.pc = "probe" /\ ~p.rejected
    BY <1>2 DEF DInv, ReaderOK, Probe
  <2>3. /\ q \in ReaderRec /\ q.pc = "list" /\ q.cursor = p.cursor /\ q.got = p.got
        /\ q.peer = p.peer /\ q.rejected = p.rejected
    BY <2>1, <2>2 DEF ReaderRec
  <2>4. ReaderOK(q, attestations)
    BY <2>2, <2>3 DEF ReaderOK, Begun
  <2>5. reader' = [reader EXCEPT ![r] = q] /\ UNCHANGED tsVars
    BY <1>2, <2>1 DEF Probe
  <2> QED
    BY <2>4, <2>5, OneReader
<1> QED
  BY <1>1, <1>2

LEMMA ListFits == ASSUME DInv, NEW r \in Readers, ListAttestations(r) PROVE DInv'
<1> DEFINE p == reader[r]
<1>1. /\ ReaderOK(p, attestations) /\ p \in ReaderRec /\ p.pc = "list" /\ ~p.rejected
      /\ p.peer \in Peers /\ Begun(p)
  BY DEF DInv, ReaderOK, ListAttestations
<1>2. PICK from : from = IF p.cursor = NoCursor THEN 0 ELSE p.cursor.from
  OBVIOUS
<1>3. PICK page : page = ListAttestationsForPeer(p.peer, from, PageSize + 1)
  OBVIOUS
<1>4. PICK lo : lo = IF from = 0 THEN 1 ELSE from
  OBVIOUS
<1>5. from \in Nat /\ lo = Len(p.got) + 1 /\ Len(p.got) \in Nat
  <2>1. p.got \in Seq(Attestation)
    BY <1>1 DEF ReaderRec
  <2>2. CASE p.cursor = NoCursor
    BY <1>1, <1>2, <1>4, <2>1, <2>2 DEF Begun
  <2>3. CASE p.cursor # NoCursor
    <3>1. from = Len(p.got) + 1
      BY <1>1, <1>2, <2>3 DEF Begun, Follows
    <3> QED
      BY <1>4, <2>1, <3>1
  <2> QED
    BY <2>2, <2>3
<1>6. page \in Seq(attestations) /\ \A i \in DOMAIN page : page[i].seq = lo + i - 1 /\ page[i].peer = p.peer
  <2>1. TSTypeOK /\ ChainLinked /\ HeadExists /\ PageSize + 1 \in Nat
    BY DisclosureAssumption DEF DInv, SafeInv
  <2> QED
    BY <1>1, <1>3, <1>4, <1>5, <2>1, ListedFrom
<1>7. page \in Seq(Attestation) /\ \A i \in DOMAIN page : page[i] \in attestations /\ i \in Nat
  BY <1>6 DEF DInv, TSTypeOK
<1>8. GoesOn(page, p.got, p.peer, attestations)
  BY <1>5, <1>6, <1>7 DEF GoesOn
<1>9. PICK q : q = [p EXCEPT !.pc = "pending", !.page = page]
  OBVIOUS
<1>10. /\ q \in ReaderRec /\ q.pc = "pending" /\ q.cursor = p.cursor /\ q.got = p.got
       /\ q.peer = p.peer /\ q.rejected = p.rejected /\ q.page = page
  BY <1>1, <1>7, <1>9 DEF ReaderRec
<1>11. ReaderOK(q, attestations)
  BY <1>1, <1>8, <1>10 DEF ReaderOK, Begun
<1>12. reader' = [reader EXCEPT ![r] = q] /\ UNCHANGED tsVars
  BY <1>2, <1>3, <1>9 DEF ListAttestations
<1> QED
  BY <1>11, <1>12, OneReader

\* The first k rows t of a page, put after the rows before it.
AddsRows(got, page, p, rs, k, t, all) ==
    /\ got \in Seq(Attestation) /\ page \in Seq(Attestation)
    /\ Collected(got, rs) /\ GoesOn(page, got, p, rs) /\ (got = <<>> \/ got[1].peer = p)
    /\ k \in 0..Len(page) /\ t = SubSeq(page, 1, k) /\ all = got \o t

RowsAdded(got, p, rs, k, t, all) ==
    /\ t \in Seq(Attestation) /\ Len(t) = k /\ (k > 0 => t[k].seq = Len(got) + k)
    /\ all \in Seq(Attestation) /\ Len(all) = Len(got) + k /\ Collected(all, rs)
    /\ k > 0 => all # <<>> /\ all[1].peer = p

LEMMA PageAdds ==
    ASSUME NEW got, NEW page, NEW p, NEW rs, NEW k, NEW t, NEW all,
           AddsRows(got, page, p, rs, k, t, all)
    PROVE  RowsAdded(got, p, rs, k, t, all)
<1> USE DEF AddsRows
<1>1. /\ Len(page) \in Nat /\ Len(got) \in Nat /\ k \in Nat /\ k <= Len(page)
      /\ DOMAIN got = 1..Len(got) /\ DOMAIN page = 1..Len(page)
  OBVIOUS
<1>2. t \in Seq(Attestation) /\ Len(t) = k /\ \A i \in 1..k : t[i] = page[i]
  BY <1>1
<1>3. all \in Seq(Attestation) /\ Len(all) = Len(got) + k /\ DOMAIN all = 1..(Len(got) + k)
  BY <1>1, <1>2
<1>4. \A i \in 1..Len(got) : all[i] = got[i]
  BY <1>1, <1>2
<1>5. \A i \in 1..k : all[Len(got) + i] = page[i]
  <2>1. \A i \in 1..k : all[Len(got) + i] = t[i]
    BY <1>1, <1>2
  <2> QED
    BY <1>2, <2>1
<1>6. \A i \in 1..k : page[i].seq = Len(got) + i /\ page[i].peer = p /\ page[i] \in rs
  <2>1. SUFFICES ASSUME NEW i \in 1..k
                 PROVE  page[i].seq = Len(got) + i /\ page[i].peer = p /\ page[i] \in rs
    OBVIOUS
  <2>2. i \in DOMAIN page
    BY <1>1
  <2> QED
    BY <2>2 DEF GoesOn
<1>7. ASSUME NEW i \in DOMAIN all PROVE all[i].seq = i /\ all[i].peer = all[1].peer /\ all[i] \in rs
  <2>1. CASE Len(got) = 0
    <3>1. i \in 1..k /\ 1 \in 1..k /\ all[i] = page[i] /\ all[1] = page[1]
      BY <1>1, <1>3, <1>5, <2>1
    <3> QED
      BY <1>6, <2>1, <3>1
  <2>2. CASE Len(got) # 0 /\ i <= Len(got)
    <3>1. i \in DOMAIN got /\ all[i] = got[i] /\ all[1] = got[1]
      BY <1>1, <1>3, <1>4, <2>2
    <3> QED
      BY <3>1 DEF Collected
  <2>3. CASE Len(got) # 0 /\ i > Len(got)
    <3>1. all[1] = got[1] /\ got[1].peer = p
      BY <1>1, <1>4, <2>3
    <3>2. i - Len(got) \in 1..k /\ i = Len(got) + (i - Len(got))
      BY <1>1, <1>3, <2>3
    <3>3. all[i] = page[i - Len(got)]
      BY <1>5, <3>2
    <3> QED
      BY <1>6, <3>1, <3>2, <3>3
  <2> QED
    BY <1>1, <1>3, <2>1, <2>2, <2>3
<1>8. ASSUME k > 0
      PROVE  t[k].seq = Len(got) + k /\ all # <<>> /\ all[1].peer = p
  <2>1. k \in 1..k /\ t[k].seq = Len(got) + k
    BY <1>1, <1>2, <1>6, <1>8
  <2>2. all # <<>>
    <3>1. Len(all) # 0
      BY <1>1, <1>3, <1>8
    <3>2. Len(<<>>) = 0
      OBVIOUS
    <3> QED
      BY <3>1, <3>2, Zenon
  <2>3. CASE Len(got) = 0
    <3>1. 1 \in 1..k /\ all[1] = page[1]
      BY <1>1, <1>5, <1>8, <2>3
    <3> QED
      BY <1>6, <2>1, <2>2, <3>1
  <2>4. CASE Len(got) # 0
    <3>1. all[1] = got[1] /\ got[1].peer = p
      BY <1>1, <1>4, <2>4
    <3> QED
      BY <2>1, <2>2, <3>1
  <2> QED
    BY <2>3, <2>4
<1> QED
  BY <1>2, <1>3, <1>7, <1>8 DEF Collected, RowsAdded

LEMMA DiscloseFits == ASSUME DInv, NEW r \in Readers, Disclose(r) PROVE DInv'
<1> DEFINE p == reader[r]
<1>1. /\ p \in ReaderRec /\ p.pc = "pending" /\ ~p.rejected /\ p.peer \in Peers /\ Begun(p)
      /\ Collected(p.got, attestations) /\ GoesOn(p.page, p.got, p.peer, attestations)
  BY DEF DInv, ReaderOK, Disclose
<1>2. CASE p.page = <<>> /\ ListPendingForPeer(p.peer) = {}
  BY <1>2, NotFoundFits DEF Disclose
<1>3. CASE ~(p.page = <<>> /\ ListPendingForPeer(p.peer) = {})
  <2>1. p.page \in Seq(Attestation) /\ p.got \in Seq(Attestation)
    BY <1>1 DEF ReaderRec
  <2>2. p.got = <<>> \/ p.got[1].peer = p.peer
    BY <1>1 DEF Begun, Follows
  <2>3. PICK k : k = IF Len(p.page) > PageSize THEN PageSize ELSE Len(p.page)
    OBVIOUS
  <2>4. k \in 0..Len(p.page) /\ (Len(p.page) > PageSize => k = PageSize /\ k > 0)
    BY <2>1, <2>3, DisclosureAssumption
  <2>5. PICK page : page = SubSeq(p.page, 1, k)
    OBVIOUS
  <2>6. PICK all : all = p.got \o page
    OBVIOUS
  <2>7. /\ page \in Seq(Attestation) /\ Len(page) = k /\ (k > 0 => page[k].seq = Len(p.got) + k)
        /\ all \in Seq(Attestation) /\ Len(all) = Len(p.got) + k /\ Collected(all, attestations)
        /\ k > 0 => all # <<>> /\ all[1].peer = p.peer
    <3>1. AddsRows(p.got, p.page, p.peer, attestations, k, page, all)
      BY <1>1, <2>1, <2>2, <2>4, <2>5, <2>6 DEF AddsRows
    <3>2. RowsAdded(p.got, p.peer, attestations, k, page, all)
      BY <3>1, PageAdds
    <3> QED
      BY <3>2 DEF RowsAdded
  <2>8. PICK cursor : cursor = IF Len(p.page) > PageSize THEN NextCursor(p.peer, page) ELSE NoCursor
    OBVIOUS
  <2>9. cursor \in Cursors /\ (cursor = NoCursor \/ Follows(cursor, all))
    <3>1. CASE Len(p.page) > PageSize
      <4>1. Last(page).seq = Len(all) /\ Len(all) \in Nat
        BY <2>4, <2>7, <3>1 DEF Last
      <4>2. cursor = [peer |-> p.peer, from |-> Len(all) + 1]
        BY <2>8, <3>1, <4>1 DEF NextCursor, SignCursor
      <4>3. cursor \in SignedCursors /\ cursor.peer = p.peer /\ cursor.from = Len(all) + 1
        BY <1>1, <4>1, <4>2 DEF SignedCursors
      <4>4. all # <<>> /\ all[1].peer = p.peer
        BY <2>4, <2>7, <3>1
      <4> QED
        BY <4>3, <4>4 DEF Follows, Cursors
    <3>2. CASE ~(Len(p.page) > PageSize)
      BY <2>8, <3>2 DEF Cursors
    <3> QED
      BY <3>1, <3>2
  <2>10. PICK status : status = 200
    OBVIOUS
  <2>11. PICK q : q = [NoPage EXCEPT !.peer = p.peer, !.got = all, !.status = status, !.cursor = cursor]
    OBVIOUS
  <2>12. NoPage \in ReaderRec /\ NoPage.pc = "idle"
    BY DEF NoPage, ReaderRec, Cursors
  <2>13. /\ p.peer \in Peers \cup {NoRef} /\ status \in {0, 200, 404}
    BY <1>1, <2>10
  <2>14. q \in ReaderRec
    BY <2>7, <2>9, <2>11, <2>12, <2>13 DEF ReaderRec
  <2>15. q.pc = "idle" /\ q.cursor = cursor /\ q.got = all
    BY <2>11, <2>12 DEF ReaderRec
  <2>16. ReaderOK(q, attestations)
    BY <2>7, <2>9, <2>14, <2>15 DEF ReaderOK
  <2>17. reader' = [reader EXCEPT ![r] = q] /\ UNCHANGED tsVars
    BY <1>3, <2>3, <2>5, <2>6, <2>8, <2>10, <2>11 DEF Disclose
  <2> QED
    BY <2>16, <2>17, OneReader
<1> QED
  BY <1>2, <1>3

LEMMA DStep == ASSUME DInv, [DNext]_dVars PROVE DInv'
<1>1. CASE TSNext /\ UNCHANGED reader
  BY <1>1, TablesMove
<1>2. CASE ReaderNext
  <2>1. PICK r \in Readers :
          \/ \E p \in Peers, granted \in BOOLEAN, cursor \in {NoCursor, Forged, reader[r].cursor} :
               Ask(r, p, granted, cursor)
          \/ Probe(r) \/ ListAttestations(r) \/ Disclose(r)
    BY <1>2 DEF ReaderNext
  <2> QED
    BY <2>1, AskFits, ProbeReaderFits, ListFits, DiscloseFits
<1>3. CASE UNCHANGED dVars
  <2>1. UNCHANGED tsVars /\ reader' = reader
    BY <1>3 DEF dVars
  <2>2. TSTypeOK' /\ SafeInv' /\ attestations' = attestations
    BY <2>1, SafeStep DEF DInv, tsVars
  <2> QED
    BY <2>1, <2>2 DEF DInv
<1> QED
  BY <1>1, <1>2, <1>3 DEF DNext

\* The invariant of the reader: a cursor goes on where its rows end.
THEOREM DisclosureInvariant == DSpec => []DInv
<1>1. DInv /\ [DNext]_dVars => DInv'
  BY DStep
<1> QED
  BY DInvInit, <1>1, PTL DEF DSpec

\* The pages a reader collects along the cursors are the peer's chain, for any
\* page size and whatever is attested between them.
THEOREM DisclosurePagesAreTheChain == DSpec => []PagesAreTheChain
<1>1. DInv => PagesAreTheChain
  BY DEF DInv, ReaderOK, Collected, PagesAreTheChain
<1> QED
  BY <1>1, DisclosureInvariant, PTL

-----------------------------------------------------------------------------
(***************************************************************************)
(* The records side by side, as they are model-checked.                    *)
(***************************************************************************)

\* The tables, the archive and the requests are of their types throughout.
THEOREM RecordsTypes == MCSpec => []RecordsTypeOK
<1> DEFINE Inv == AInv /\ TSTypeOK /\ SafeInv /\ RInv
<1>1. MCInit => Inv
  BY ArchiveInit, SafeInit, RInit DEF MCInit, DInit
<1>2. Inv /\ [MCNext]_mcVars => Inv'
  <2> SUFFICES ASSUME Inv, [MCNext]_mcVars PROVE Inv'
    OBVIOUS
  <2>1. [ANext]_aVars
    BY DEF MCNext, mcVars
  <2>2. [DNext]_dVars
    BY DEF MCNext, mcVars
  <2>3. [TSNext]_tsVars
    BY <2>2 DEF DNext, dVars, ReaderNext, Ask, Probe, ListAttestations, Disclose
  <2>4. [Next]_vars
    BY DEF MCNext, mcVars
  <2> QED
    BY <2>1, <2>3, <2>4, ArchiveStep, SafeStep, RStep
<1>3. Inv => RecordsTypeOK
  BY RInvTypes DEF AInv, RecordsTypeOK
<1> QED
  BY <1>1, <1>2, <1>3, PTL DEF MCSpec

-----------------------------------------------------------------------------
(***************************************************************************)
(* BlobStore and RefStore.  The chunks of a value, joined, are the value:  *)
(* by the function that satisfies the equation of FlattenSeq, and since    *)
(* two functions that satisfy it differ nowhere first.                     *)
(***************************************************************************)

\* What satisfies the equation of FlattenSeq gives its value.
Flattens(g, s, n) ==
    /\ n = Len(s) /\ n \in Nat \ {0}
    /\ g = [i \in 1..n |-> IF i = 1 THEN s[i] ELSE g[i - 1] \o s[i]]

LEMMA FlattenIs ==
    ASSUME NEW s, NEW n, NEW g, Flattens(g, s, n)
    PROVE  FlattenSeq(s) = g[n]
<1> USE DEF Flattens
<1> DEFINE flatten[i \in 1..Len(s)] == IF i = 1 THEN s[i] ELSE flatten[i - 1] \o s[i]
<1>1. FlattenSeq(s) = flatten[Len(s)]
  BY DEF FlattenSeq
<1>2. flatten = [i \in 1..Len(s) |-> IF i = 1 THEN s[i] ELSE flatten[i - 1] \o s[i]]
  BY DEF flatten
<1> HIDE DEF flatten
<1> DEFINE Differ == {i \in 1..n : flatten[i] # g[i]}
<1>3. Differ = {}
  <2>1. SUFFICES ASSUME Differ # {} PROVE FALSE
    OBVIOUS
  <2>2. PICK i \in Differ : \A j \in Differ : i <= j
    <3>1. Differ \subseteq Nat
      OBVIOUS
    <3> HIDE DEF Differ
    <3> QED
      BY <2>1, <3>1, LeastNat
  <2>3. i \in 1..n /\ flatten[i] # g[i]
    OBVIOUS
  <2>4. CASE i = 1
    BY <1>2, <2>3, <2>4
  <2>5. CASE i # 1
    <3>1. i - 1 \in 1..n /\ i - 1 \notin Differ
      BY <2>2, <2>3, <2>5
    <3>2. flatten[i - 1] = g[i - 1]
      BY <3>1
    <3>3. flatten[i] = flatten[i - 1] \o s[i]
      BY <1>2, <2>3, <2>5
    <3>4. g[i] = g[i - 1] \o s[i]
      BY <2>3, <2>5
    <3> QED
      BY <2>3, <3>2, <3>3, <3>4
  <2> QED
    BY <2>4, <2>5
<1>4. flatten[n] = g[n]
  <2>1. n \in 1..n
    OBVIOUS
  <2> QED
    BY <1>3, <2>1
<1> QED
  BY <1>1, <1>4

\* Where the i-th chunk ends.
Cut(v, i) == IF i * ChunkSize < Len(v) THEN i * ChunkSize ELSE Len(v)

LEMMA ChunkCount ==
    ASSUME NEW l \in Nat, NEW n, n = (l + ChunkSize - 1) \div ChunkSize
    PROVE  /\ n \in Nat /\ n * ChunkSize >= l
           /\ \A i \in 1..n : /\ (i - 1) * ChunkSize \in Nat /\ (i - 1) * ChunkSize < l
                              /\ i * ChunkSize = (i - 1) * ChunkSize + ChunkSize
<1>1. ChunkSize \in Nat \ {0}
  BY WorkerdAssumption
<1>2. l + ChunkSize - 1 \in Nat
  BY <1>1
<1>3. n \in Nat /\ n * ChunkSize <= l + ChunkSize - 1 /\ l + ChunkSize - 1 < n * ChunkSize + ChunkSize
  BY <1>1, <1>2
<1>4. n * ChunkSize >= l
  BY <1>1, <1>3
<1>5. ASSUME NEW i \in 1..n
      PROVE  /\ (i - 1) * ChunkSize \in Nat /\ (i - 1) * ChunkSize < l
             /\ i * ChunkSize = (i - 1) * ChunkSize + ChunkSize
  <2>1. i * ChunkSize <= n * ChunkSize
    BY <1>1, <1>3
  <2>2. (i - 1) * ChunkSize = i * ChunkSize - ChunkSize /\ i * ChunkSize \in Int
    BY <1>1, <1>3
  <2>3. (i - 1) * ChunkSize >= 0
    BY <1>1, <1>3
  <2> QED
    BY <1>1, <1>3, <2>1, <2>2, <2>3
<1> QED
  BY <1>3, <1>4, <1>5

LEMMA SplitHas ==
    ASSUME NEW v \in Values, NEW n, n = Len(Split(v))
    PROVE  /\ Split(v) \in Seq(Seq(Nat)) /\ n \in Nat /\ n * ChunkSize >= Len(v) /\ Len(v) \in Nat
           /\ \A i \in 1..n :
                /\ Split(v)[i] = SubSeq(v, (i - 1) * ChunkSize + 1, Cut(v, i))
                /\ (i - 1) * ChunkSize \in Nat /\ (i - 1) * ChunkSize < Len(v)
                /\ i * ChunkSize = (i - 1) * ChunkSize + ChunkSize
                /\ Cut(v, i) \in ((i - 1) * ChunkSize + 1)..Len(v)
<1>1. v \in Seq(Nat) /\ Len(v) \in Nat /\ ChunkSize \in Nat \ {0}
  BY WorkerdAssumption
<1>2. PICK m : m = (Len(v) + ChunkSize - 1) \div ChunkSize
  OBVIOUS
<1>3. /\ m \in Nat /\ m * ChunkSize >= Len(v)
      /\ \A i \in 1..m : /\ (i - 1) * ChunkSize \in Nat /\ (i - 1) * ChunkSize < Len(v)
                         /\ i * ChunkSize = (i - 1) * ChunkSize + ChunkSize
  BY <1>1, <1>2, ChunkCount
<1>4. ASSUME NEW i \in 1..m
      PROVE  Cut(v, i) \in ((i - 1) * ChunkSize + 1)..Len(v)
  <2>1. PICK a, b : a = (i - 1) * ChunkSize /\ b = i * ChunkSize
    OBVIOUS
  <2>2. a \in Nat /\ a < Len(v) /\ b = a + ChunkSize
    BY <1>3, <2>1
  <2>3. Cut(v, i) = IF b < Len(v) THEN b ELSE Len(v)
    BY <2>1 DEF Cut
  <2>4. Cut(v, i) \in (a + 1)..Len(v)
    BY <1>1, <2>2, <2>3
  <2> QED
    BY <2>1, <2>4
<1>5. Split(v) = [i \in 1..m |-> SubSeq(v, (i - 1) * ChunkSize + 1, Cut(v, i))]
  BY <1>2 DEF Split, Cut
<1>6. ASSUME NEW i \in 1..m PROVE SubSeq(v, (i - 1) * ChunkSize + 1, Cut(v, i)) \in Seq(Nat)
  <2>1. PICK a, b : a = (i - 1) * ChunkSize + 1 /\ b = Cut(v, i)
    OBVIOUS
  <2>2. a \in Nat \ {0} /\ b \in a..Len(v)
    BY <1>3, <1>4, <2>1
  <2>3. SubSeq(v, a, b) \in Seq(Nat)
    BY <1>1, <2>2
  <2> QED
    BY <2>1, <2>3
<1>7. Split(v) \in [1..m -> Seq(Nat)] /\ \A i \in 1..m : Split(v)[i] = SubSeq(v, (i - 1) * ChunkSize + 1, Cut(v, i))
  BY <1>5, <1>6
<1>8. Split(v) \in Seq(Seq(Nat)) /\ Len(Split(v)) = m
  BY <1>3, <1>7, FunIsSeq
<1> QED
  BY <1>1, <1>3, <1>4, <1>7, <1>8

\* The first n chunks, joined, are the value up to where the n-th ends.
LEMMA ChunksJoin ==
    ASSUME NEW v \in Values, NEW n \in 1..Len(Split(v))
    PROVE  FlattenSeq(SubSeq(Split(v), 1, n)) = SubSeq(v, 1, Cut(v, n))
<1>1. /\ Split(v) \in Seq(Seq(Nat)) /\ Len(Split(v)) \in Nat /\ Len(v) \in Nat
      /\ \A i \in 1..Len(Split(v)) :
           /\ Split(v)[i] = SubSeq(v, (i - 1) * ChunkSize + 1, Cut(v, i))
           /\ (i - 1) * ChunkSize \in Nat /\ (i - 1) * ChunkSize < Len(v)
           /\ Cut(v, i) \in ((i - 1) * ChunkSize + 1)..Len(v)
  BY SplitHas
<1>2. v \in Seq(Nat) /\ ChunkSize \in Nat \ {0}
  BY WorkerdAssumption
<1>3. PICK s : s = SubSeq(Split(v), 1, n)
  OBVIOUS
<1>4. s \in Seq(Seq(Nat)) /\ Len(s) = n /\ \A i \in 1..n : s[i] = Split(v)[i]
  BY <1>1, <1>3
<1>5. PICK g : g = [i \in 1..n |-> SubSeq(v, 1, Cut(v, i))]
  OBVIOUS
<1>6. ASSUME NEW i \in 1..n
      PROVE  g[i] = IF i = 1 THEN s[i] ELSE g[i - 1] \o s[i]
  <2>1. i \in 1..Len(Split(v)) /\ g[i] = SubSeq(v, 1, Cut(v, i))
    <3>1. Len(Split(v)) \in Nat /\ i \in 1..Len(Split(v))
      BY <1>1
    <3> QED
      BY <1>5, <3>1
  <2>2. s[i] = SubSeq(v, (i - 1) * ChunkSize + 1, Cut(v, i))
    BY <1>1, <1>4, <2>1
  <2>3. CASE i = 1
    <3>1. (i - 1) * ChunkSize + 1 = 1
      BY <1>2, <2>3
    <3> QED
      BY <2>1, <2>2, <2>3, <3>1
  <2>4. CASE i # 1
    <3>1. PICK a, b : a = (i - 1) * ChunkSize /\ b = Cut(v, i)
      OBVIOUS
    <3>2. a \in Nat /\ a < Len(v) /\ b \in (a + 1)..Len(v)
      BY <1>1, <2>1, <3>1
    <3>3. i - 1 \in 1..n /\ Cut(v, i - 1) = a
      BY <2>4, <3>1, <3>2 DEF Cut
    <3>4. g[i - 1] = SubSeq(v, 1, a)
      BY <1>5, <3>3
    <3>5. SubSeq(v, 1, a) \o SubSeq(v, a + 1, b) = SubSeq(v, 1, b)
      <4>1. 1 \in 1..(Len(v) + 1) /\ a \in (1 - 1)..Len(v) /\ b \in a..Len(v)
        BY <1>1, <3>2
      <4> QED
        BY <1>2, <4>1, ConcatAdjacentSubSeq
    <3> QED
      BY <2>1, <2>2, <2>4, <3>1, <3>4, <3>5
  <2> QED
    BY <2>3, <2>4
<1>7. g = [i \in 1..n |-> IF i = 1 THEN s[i] ELSE g[i - 1] \o s[i]]
  BY <1>5, <1>6
<1>8. FlattenSeq(s) = g[n]
  <2>1. n \in Nat \ {0}
    BY <1>1
  <2>2. Flattens(g, s, n)
    BY <1>4, <1>7, <2>1 DEF Flattens
  <2> QED
    BY <2>2, FlattenIs
<1>9. g[n] = SubSeq(v, 1, Cut(v, n))
  BY <1>1, <1>5
<1> QED
  BY <1>3, <1>8, <1>9

PutRec == [pc : {"idle", "write", "ok", "failed"}, d : Values \cup {NoDigest}]
WriterRec == [pc : {"idle", "saw"}, name : Names \cup {NoDigest}, saw : Values \cup {NoDigest}]

WTypes ==
    /\ rows \subseteq Values
    /\ chunks \in [Values -> Seq(Seq(Nat))]
    /\ refs \in [Names -> Values \cup {NoDigest}]
    /\ put \in [Putters -> PutRec] /\ \A p \in Putters : put[p].pc # "idle" => put[p].d \in Values
    /\ writer \in [Writers -> WriterRec] /\ \A w \in Writers : writer[w].pc = "saw" => writer[w].name \in Names

\* The chunks of a digest are the first ones of the value, with no hole.
ChunksFit ==
    \A d \in Values : Len(chunks[d]) <= Len(Split(d)) /\ chunks[d] = SubSeq(Split(d), 1, Len(chunks[d]))

\* All rows of a digest are there.
Complete(d) == d \in rows \/ (chunks[d] # <<>> /\ Len(chunks[d]) = Len(Split(d)))

WInv == WTypes /\ ChunksFit /\ \A p \in Putters : put[p].pc = "ok" => Complete(put[p].d)

\* What get returns, by the rows there are.
LEMMA GetIs ==
    ASSUME WTypes, ChunksFit, NEW d \in Values
    PROVE  /\ Complete(d) => Get(d) = d
           /\ d \notin rows /\ chunks[d] # <<>> => Get(d) = SubSeq(d, 1, Cut(d, Len(chunks[d])))
           /\ ~Complete(d) /\ chunks[d] # <<>> => Get(d) # d
           /\ Len(chunks[d]) \in Nat /\ (chunks[d] = <<>> <=> Len(chunks[d]) = 0)
<1>1. /\ Split(d) \in Seq(Seq(Nat)) /\ Len(Split(d)) \in Nat /\ Len(d) \in Nat
      /\ Len(Split(d)) * ChunkSize >= Len(d)
      /\ \A i \in 1..Len(Split(d)) : (i - 1) * ChunkSize < Len(d) /\ Cut(d, i) \in ((i - 1) * ChunkSize + 1)..Len(d)
                                     /\ (i - 1) * ChunkSize \in Nat
  BY SplitHas
<1>2. d \in Seq(Nat)
  BY WorkerdAssumption
<1>3. PICK c, n : c = chunks[d] /\ n = Len(c)
  OBVIOUS
<1>4. c \in Seq(Seq(Nat)) /\ n \in Nat /\ n <= Len(Split(d)) /\ c = SubSeq(Split(d), 1, n) /\ (c = <<>> <=> n = 0)
  BY <1>3 DEF WTypes, ChunksFit
<1>5. ASSUME d \notin rows, c # <<>>
      PROVE  Get(d) = SubSeq(d, 1, Cut(d, n)) /\ n \in 1..Len(Split(d)) /\ Cut(d, n) \in 0..Len(d)
  <2>1. n \in 1..Len(Split(d))
    BY <1>1, <1>4, <1>5
  <2>2. Get(d) = FlattenSeq(c)
    BY <1>3, <1>5 DEF Get, GetChunked
  <2>3. FlattenSeq(SubSeq(Split(d), 1, n)) = SubSeq(d, 1, Cut(d, n))
    BY <2>1, ChunksJoin
  <2>4. FlattenSeq(c) = SubSeq(d, 1, Cut(d, n))
    BY <1>4, <2>3
  <2>5. Cut(d, n) \in 0..Len(d)
    BY <1>1, <2>1
  <2> QED
    BY <2>1, <2>2, <2>4, <2>5
<1>6. CASE d \in rows
  BY <1>3, <1>4, <1>6 DEF Get, Complete
<1>7. CASE d \notin rows /\ c # <<>> /\ n = Len(Split(d))
  <2>1. Cut(d, n) = Len(d)
    <3>1. PICK m : m = n * ChunkSize
      OBVIOUS
    <3>2. m \in Int /\ m >= Len(d)
      BY <1>1, <1>4, <1>7, <3>1, WorkerdAssumption
    <3> QED
      BY <1>1, <3>1, <3>2 DEF Cut
  <2>2. SubSeq(d, 1, Len(d)) = d
    BY <1>2, SubSeqFull
  <2>3. Get(d) = d
    BY <1>5, <1>7, <2>1, <2>2
  <2> QED
    BY <1>3, <1>4, <1>5, <1>7, <2>3 DEF Complete
<1>8. CASE d \notin rows /\ c # <<>> /\ n # Len(Split(d))
  <2>1. n \in 1..Len(Split(d)) /\ n + 1 \in 1..Len(Split(d)) /\ (n + 1) - 1 = n
    BY <1>1, <1>4, <1>5, <1>8
  <2>2. n * ChunkSize < Len(d) /\ n * ChunkSize \in Nat
    BY <1>1, <2>1
  <2>3. Cut(d, n) = n * ChunkSize
    BY <2>2 DEF Cut
  <2>4. PICK m : m = Cut(d, n)
    OBVIOUS
  <2>5. m \in 0..Len(d) /\ m < Len(d) /\ m \in Nat
    BY <1>1, <2>2, <2>3, <2>4
  <2>6. Len(SubSeq(d, 1, m)) = m
    BY <1>1, <1>2, <2>5
  <2>7. SubSeq(d, 1, m) # d
    BY <2>5, <2>6
  <2>8. Get(d) # d
    BY <1>5, <1>8, <2>4, <2>7
  <2>9. ~Complete(d)
    BY <1>3, <1>8 DEF Complete
  <2> QED
    BY <1>3, <1>4, <1>5, <1>8, <2>8, <2>9
<1>9. CASE d \notin rows /\ c = <<>>
  BY <1>3, <1>4, <1>9 DEF Complete
<1> QED
  BY <1>6, <1>7, <1>8, <1>9

LEMMA HeldIs ==
    ASSUME WTypes, ChunksFit, NEW d \in Values
    PROVE  Held(d) = IF Complete(d) THEN "whole" ELSE IF chunks[d] = <<>> THEN "absent" ELSE "torn"
BY GetIs DEF Held, Has, Complete

LEMMA ReadsBack == WInv => AnsweredReadsBack
<1> SUFFICES ASSUME WInv PROVE AnsweredReadsBack
  OBVIOUS
<1>1. ASSUME NEW p \in Putters, put[p].pc = "ok" PROVE Get(put[p].d) = put[p].d
  <2>1. put[p].d \in Values /\ Complete(put[p].d) /\ WTypes /\ ChunksFit
    BY <1>1 DEF WInv, WTypes
  <2> QED
    BY <2>1, GetIs
<1>2. ASSUME NEW d \in Values, Has(d) PROVE IsPrefix(Get(d), d)
  <2>1. d \in Seq(Nat) /\ Len(d) \in Nat /\ WTypes /\ ChunksFit
    BY WorkerdAssumption DEF WInv
  <2>2. CASE Complete(d)
    <3>1. Get(d) = d
      BY <2>1, <2>2, GetIs
    <3> QED
      BY <2>1, <3>1 DEF IsPrefix
  <2>3. CASE ~Complete(d)
    <3>1. d \notin rows /\ chunks[d] # <<>>
      BY <1>2, <2>3 DEF Has, Complete
    <3>2. PICK m : m = Cut(d, Len(chunks[d]))
      OBVIOUS
    <3>3. Get(d) = SubSeq(d, 1, m)
      BY <2>1, <3>1, <3>2, GetIs
    <3>4. m \in 0..Len(d)
      <4>1. Len(chunks[d]) \in 1..Len(Split(d))
        BY <2>1, <3>1, GetIs, SplitHas DEF ChunksFit
      <4>2. /\ Cut(d, Len(chunks[d])) \in ((Len(chunks[d]) - 1) * ChunkSize + 1)..Len(d)
            /\ (Len(chunks[d]) - 1) * ChunkSize \in Nat
        BY <4>1, SplitHas
      <4> QED
        BY <2>1, <3>2, <4>2
    <3>5. Len(SubSeq(d, 1, m)) = m /\ SubSeq(d, 1, m) \in Seq(Nat)
      BY <2>1, <3>4
    <3>6. SubSeq(SubSeq(d, 1, m), 1, m) = SubSeq(d, 1, m)
      BY <3>5, SubSeqFull
    <3> QED
      BY <2>1, <3>3, <3>4, <3>5, <3>6 DEF IsPrefix
  <2> QED
    BY <2>2, <2>3
<1> QED
  BY <1>1, <1>2 DEF AnsweredReadsBack

(***************************************************************************)
(* A step adds rows and takes none away, so a digest that is complete      *)
(* stays so.                                                               *)
(***************************************************************************)

LEMMA InsertedAre ==
    ASSUME WTypes, ChunksFit, NEW d \in Values, NEW n \in 0..Len(Split(d)), InsertChunks(d, n)
    PROVE  /\ chunks' \in [Values -> Seq(Seq(Nat))]
           /\ \A e \in Values : e # d => chunks'[e] = chunks[e]
           /\ chunks'[d] = SubSeq(Split(d), 1, Len(chunks'[d]))
           /\ Len(chunks'[d]) = IF Len(chunks[d]) >= n THEN Len(chunks[d]) ELSE n
<1>1. PICK c, s, l : c = chunks[d] /\ s = Split(d) /\ l = Len(c)
  OBVIOUS
<1>2. s \in Seq(Seq(Nat)) /\ Len(s) \in Nat
  BY <1>1, SplitHas
<1>3. c \in Seq(Seq(Nat)) /\ l \in Nat /\ l <= Len(s) /\ c = SubSeq(s, 1, l)
  BY <1>1 DEF WTypes, ChunksFit
<1>4. PICK q : q = IF l >= n THEN c ELSE c \o SubSeq(s, l + 1, n)
  OBVIOUS
<1>5. q \in Seq(Seq(Nat)) /\ q = SubSeq(s, 1, Len(q)) /\ Len(q) = IF l >= n THEN l ELSE n
  <2>1. CASE l >= n
    BY <1>1, <1>3, <1>4, <2>1
  <2>2. CASE ~(l >= n)
    <3>1. 1 \in 1..(Len(s) + 1) /\ l \in (1 - 1)..Len(s) /\ n \in l..Len(s)
      BY <1>1, <1>2, <1>3, <2>2
    <3>2. SubSeq(s, 1, l) \o SubSeq(s, l + 1, n) = SubSeq(s, 1, n)
      BY <1>2, <3>1, ConcatAdjacentSubSeq
    <3>3. q = SubSeq(s, 1, n)
      BY <1>3, <1>4, <2>2, <3>2
    <3>4. SubSeq(s, 1, n) \in Seq(Seq(Nat)) /\ Len(SubSeq(s, 1, n)) = n
      BY <1>2, <3>1
    <3> QED
      BY <2>2, <3>3, <3>4
  <2> QED
    BY <2>1, <2>2
<1>6. chunks' = [chunks EXCEPT ![d] = q]
  BY <1>1, <1>4 DEF InsertChunks
<1>7. chunks \in [Values -> Seq(Seq(Nat))]
  BY DEF WTypes
<1>8. chunks'[d] = q /\ chunks' \in [Values -> Seq(Seq(Nat))] /\ \A e \in Values : e # d => chunks'[e] = chunks[e]
  BY <1>5, <1>6, <1>7
<1> QED
  BY <1>1, <1>5, <1>8

\* What a step does to the tables of the blobs.
BlobsGrow ==
    /\ rows \subseteq rows' /\ rows' \subseteq Values
    /\ chunks' \in [Values -> Seq(Seq(Nat))]
    /\ ChunksFit'
    /\ \A e \in Values : Len(chunks[e]) <= Len(chunks'[e])

LEMMA InsertGrows ==
    ASSUME WTypes, ChunksFit, NEW d \in Values, NEW n \in 0..Len(Split(d)), InsertChunks(d, n), UNCHANGED rows
    PROVE  BlobsGrow
<1>1. /\ chunks' \in [Values -> Seq(Seq(Nat))]
      /\ \A e \in Values : e # d => chunks'[e] = chunks[e]
      /\ chunks'[d] = SubSeq(Split(d), 1, Len(chunks'[d]))
      /\ Len(chunks'[d]) = IF Len(chunks[d]) >= n THEN Len(chunks[d]) ELSE n
  BY InsertedAre
<1>2. Len(Split(d)) \in Nat /\ \A e \in Values : Len(chunks[e]) \in Nat
  BY SplitHas DEF WTypes
<1>3. ASSUME NEW e \in Values
      PROVE  /\ Len(chunks'[e]) <= Len(Split(e)) /\ chunks'[e] = SubSeq(Split(e), 1, Len(chunks'[e]))
             /\ Len(chunks[e]) <= Len(chunks'[e])
  <2>1. CASE e = d
    BY <1>1, <1>2, <2>1 DEF ChunksFit
  <2>2. CASE e # d
    BY <1>1, <1>2, <2>2 DEF ChunksFit
  <2> QED
    BY <2>1, <2>2
<1>4. ChunksFit'
  BY <1>3 DEF ChunksFit
<1> QED
  BY <1>1, <1>3, <1>4 DEF BlobsGrow, WTypes

LEMMA CompleteStays ==
    ASSUME WTypes, BlobsGrow, NEW d \in Values, Complete(d)
    PROVE  Complete(d)'
<1>1. CASE d \in rows
  BY <1>1 DEF BlobsGrow, Complete
<1>2. CASE chunks[d] # <<>> /\ Len(chunks[d]) = Len(Split(d))
  <2>1. PICK c, e, l : c = chunks[d] /\ e = chunks'[d] /\ l = Len(Split(d))
    OBVIOUS
  <2>2. c \in Seq(Seq(Nat)) /\ e \in Seq(Seq(Nat)) /\ Len(c) <= Len(e) /\ Len(e) <= l /\ c # <<>> /\ Len(c) = l
    BY <1>2, <2>1 DEF BlobsGrow, WTypes, ChunksFit
  <2>3. e # <<>> /\ Len(e) = l
    BY <2>2
  <2> QED
    BY <2>1, <2>3 DEF Complete
<1> QED
  BY <1>1, <1>2 DEF Complete

\* What a put leaves: all rows of its own digest, those of the others as they were.
LEMMA PutEffect ==
    ASSUME WTypes, ChunksFit, NEW p \in Putters, Put(p), NEW d, d = put[p].d
    PROVE  /\ d \in Values /\ BlobsGrow /\ Complete(d)'
           /\ \A e \in Values : e # d => (e \in rows' <=> e \in rows) /\ chunks'[e] = chunks[e]
<1>2. d \in Values /\ d \in Seq(Nat)
  BY WorkerdAssumption DEF WTypes, Put
<1>3. CASE Len(d) <= ChunkSize
  <2>1. rows' = rows \cup {d} /\ chunks' = chunks
    BY <1>3 DEF Put
  <2>2. BlobsGrow
    BY <1>2, <2>1 DEF BlobsGrow, WTypes, ChunksFit
  <2> QED
    BY <1>2, <2>1, <2>2 DEF Complete
<1>4. CASE ~(Len(d) <= ChunkSize)
  <2>1. PICK n : n = Len(Split(d))
    OBVIOUS
  <2>2. InsertChunks(d, n) /\ UNCHANGED rows
    BY <1>4, <2>1 DEF Put
  <2>3. n \in Nat /\ n * ChunkSize >= Len(d) /\ Len(d) \in Nat /\ ChunkSize \in Nat \ {0}
    BY <1>2, <2>1, SplitHas, WorkerdAssumption
  <2>4. n # 0
    BY <1>4, <2>3
  <2>5. n \in 0..Len(Split(d))
    BY <2>1, <2>3
  <2>6. BlobsGrow
    BY <1>2, <2>2, <2>5, InsertGrows
  <2>7. /\ chunks' \in [Values -> Seq(Seq(Nat))]
        /\ \A e \in Values : e # d => chunks'[e] = chunks[e]
        /\ Len(chunks'[d]) = IF Len(chunks[d]) >= n THEN Len(chunks[d]) ELSE n
    BY <1>2, <2>2, <2>5, InsertedAre
  <2>8. Len(chunks[d]) \in Nat /\ Len(chunks[d]) <= n
    BY <1>2, <2>1 DEF WTypes, ChunksFit
  <2>9. Len(chunks'[d]) = n
    BY <2>3, <2>7, <2>8
  <2>10. chunks'[d] # <<>>
    BY <1>2, <2>4, <2>7, <2>9
  <2> QED
    BY <1>2, <2>1, <2>2, <2>6, <2>7, <2>9, <2>10 DEF Complete
<1> QED
  BY <1>3, <1>4

\* What a put that throws leaves: some rows, and never the last missing one.
LEMMA ThrowEffect ==
    ASSUME WTypes, ChunksFit, NEW p \in Putters, PutThrows(p), NEW d, d = put[p].d
    PROVE  /\ d \in Values /\ BlobsGrow /\ rows' = rows
           /\ \A e \in Values : e # d => chunks'[e] = chunks[e]
           /\ chunks[d] # <<>> => chunks'[d] # <<>>
           /\ Complete(d)' <=> Complete(d)
<1>2. d \in Values /\ d \in Seq(Nat) /\ rows' = rows
  BY WorkerdAssumption DEF WTypes, PutThrows
<1>3. CASE chunks' = chunks
  BY <1>2, <1>3 DEF BlobsGrow, WTypes, ChunksFit, Complete
<1>4. CASE ~(Len(d) <= ChunkSize)
  <2>1. PICK n \in 0..(Len(Split(d)) - 1) : InsertChunks(d, n)
    BY <1>4 DEF PutThrows
  <2>2. Len(Split(d)) \in Nat
    BY <1>2, SplitHas
  <2>3. n \in 0..Len(Split(d)) /\ n \in Nat /\ n < Len(Split(d))
    BY <2>1, <2>2
  <2>4. BlobsGrow
    BY <1>2, <2>1, <2>3, InsertGrows
  <2>5. /\ chunks' \in [Values -> Seq(Seq(Nat))]
        /\ \A e \in Values : e # d => chunks'[e] = chunks[e]
        /\ Len(chunks'[d]) = IF Len(chunks[d]) >= n THEN Len(chunks[d]) ELSE n
    BY <1>2, <2>1, <2>3, InsertedAre
  <2>6. chunks[d] \in Seq(Seq(Nat)) /\ chunks'[d] \in Seq(Seq(Nat))
    BY <1>2, <2>5 DEF WTypes
  <2>7. chunks[d] # <<>> => chunks'[d] # <<>>
    BY <2>3, <2>5, <2>6
  <2>8. Complete(d) => Complete(d)'
    BY <1>2, <2>4, CompleteStays
  <2>9. chunks'[d] # <<>> /\ Len(chunks'[d]) = Len(Split(d)) => chunks[d] # <<>> /\ Len(chunks[d]) = Len(Split(d))
    BY <2>2, <2>3, <2>5, <2>6
  <2>10. Complete(d)' => Complete(d)
    BY <1>2, <2>9 DEF Complete
  <2> QED
    BY <1>2, <2>4, <2>5, <2>7, <2>8, <2>10
<1> QED
  BY <1>3, <1>4 DEF PutThrows

\* The other actions leave the tables of the blobs as they are.
LEMMA StillGrows ==
    ASSUME WTypes, ChunksFit, UNCHANGED <<rows, chunks>>
    PROVE  BlobsGrow
BY DEF BlobsGrow, WTypes, ChunksFit

\* A call of put that moves on keeps its digest, and the others stay.
LEMMA PutMoves ==
    ASSUME WTypes, NEW p \in Putters, NEW to \in {"write", "ok", "failed"}, put[p].pc # "idle",
           put' = [put EXCEPT ![p].pc = to]
    PROVE  /\ put' \in [Putters -> PutRec]
           /\ \A q \in Putters : put'[q].d = put[q].d /\ put'[q].pc = (IF q = p THEN to ELSE put[q].pc)
           /\ \A q \in Putters : put'[q].pc # "idle" => put'[q].d \in Values
<1>1. put \in [Putters -> PutRec] /\ \A q \in Putters : put[q].pc # "idle" => put[q].d \in Values
  BY DEF WTypes
<1>2. PICK s : s = [put[p] EXCEPT !.pc = to]
  OBVIOUS
<1>3. s \in PutRec /\ s.pc = to /\ s.d = put[p].d
  BY <1>1, <1>2 DEF PutRec
<1>4. put' = [put EXCEPT ![p] = s]
  BY <1>2
<1> QED
  BY <1>1, <1>3, <1>4

LEMMA WInvInit == WInit => WInv
<1> SUFFICES ASSUME WInit PROVE WInv
  OBVIOUS
<1>1. WTypes
  BY DEF WInit, WTypes, PutRec, WriterRec
<1>2. ASSUME NEW d \in Values PROVE Len(chunks[d]) <= Len(Split(d)) /\ chunks[d] = SubSeq(Split(d), 1, Len(chunks[d]))
  <2>1. chunks[d] = <<>> /\ Len(chunks[d]) = 0
    BY DEF WInit
  <2>2. Split(d) \in Seq(Seq(Nat)) /\ Len(Split(d)) \in Nat
    BY SplitHas
  <2> QED
    BY <2>1, <2>2
<1> QED
  BY <1>1, <1>2 DEF WInv, ChunksFit, WInit

\* A step of the tables and of the calls of put keeps the invariant.
LEMMA WInvKept ==
    ASSUME WInv, BlobsGrow,
           put' \in [Putters -> PutRec], \A q \in Putters : put'[q].pc # "idle" => put'[q].d \in Values,
           \A q \in Putters : put'[q].pc = "ok" =>
                                 \/ put[q].pc = "ok" /\ put'[q].d = put[q].d
                                 \/ \E d \in Values : put'[q].d = d /\ Complete(d)',
           UNCHANGED <<refs, writer>>
    PROVE  WInv'
<1>1. WTypes'
  BY DEF WInv, WTypes, BlobsGrow
<1>2. ChunksFit'
  BY DEF BlobsGrow
<1>3. ASSUME NEW q \in Putters, put'[q].pc = "ok" PROVE Complete(put[q].d)'
  <2>1. PICK d : d = put'[q].d
    OBVIOUS
  <2>2. CASE put[q].pc = "ok" /\ put'[q].d = put[q].d
    <3>1. d \in Values /\ Complete(d)
      BY <2>1, <2>2 DEF WInv, WTypes
    <3>2. Complete(d)'
      BY <3>1, CompleteStays DEF WInv
    <3> QED
      BY <2>1, <3>2 DEF Complete
  <2>3. CASE \E e \in Values : put'[q].d = e /\ Complete(e)'
    BY <2>3 DEF Complete
  <2> QED
    BY <1>3, <2>2, <2>3
<1> QED
  BY <1>1, <1>2, <1>3 DEF WInv

LEMMA RefsKept ==
    ASSUME WInv, UNCHANGED <<rows, chunks, put>>,
           refs' \in [Names -> Values \cup {NoDigest}],
           writer' \in [Writers -> WriterRec], \A w \in Writers : writer'[w].pc = "saw" => writer'[w].name \in Names
    PROVE  WInv'
BY DEF WInv, WTypes, ChunksFit, Complete

LEMMA WInvStep ==
    ASSUME WInv, WNext
    PROVE  WInv'
<1>t. WTypes /\ ChunksFit
  BY DEF WInv
<1>1. ASSUME NEW p \in Putters, NEW v \in Values, DigestBytes(p, v) PROVE WInv'
  <2>1. PICK s : s = [pc |-> "write", d |-> v]
    OBVIOUS
  <2>2. s \in PutRec /\ s.pc = "write" /\ s.d \in Values
    BY <2>1 DEF PutRec
  <2>3. put' = [put EXCEPT ![p] = s] /\ UNCHANGED <<rows, chunks, refs, writer>>
    BY <1>1, <2>1 DEF DigestBytes
  <2>4. put \in [Putters -> PutRec] /\ \A q \in Putters : put[q].pc # "idle" => put[q].d \in Values
    BY <1>t DEF WTypes
  <2>5. /\ put' \in [Putters -> PutRec] /\ \A q \in Putters : put'[q].pc # "idle" => put'[q].d \in Values
        /\ \A q \in Putters : put'[q].pc = "ok" => put[q].pc = "ok" /\ put'[q].d = put[q].d
    BY <2>2, <2>3, <2>4
  <2> QED
    BY <1>t, <2>3, <2>5, StillGrows, WInvKept
<1>2. ASSUME NEW p \in Putters, Put(p) PROVE WInv'
  <2>1. PICK d : d = put[p].d
    OBVIOUS
  <2>2. d \in Values /\ BlobsGrow /\ Complete(d)'
    BY <1>t, <1>2, <2>1, PutEffect
  <2>3. put[p].pc # "idle" /\ put' = [put EXCEPT ![p].pc = "ok"] /\ UNCHANGED <<refs, writer>>
    BY <1>2 DEF Put
  <2>4. /\ put' \in [Putters -> PutRec]
        /\ \A q \in Putters : put'[q].d = put[q].d /\ put'[q].pc = (IF q = p THEN "ok" ELSE put[q].pc)
        /\ \A q \in Putters : put'[q].pc # "idle" => put'[q].d \in Values
    BY <1>t, <2>3, PutMoves
  <2>5. ASSUME NEW q \in Putters, put'[q].pc = "ok"
        PROVE  \/ put[q].pc = "ok" /\ put'[q].d = put[q].d
               \/ \E e \in Values : put'[q].d = e /\ Complete(e)'
    BY <2>1, <2>2, <2>4, <2>5
  <2> QED
    BY <2>2, <2>3, <2>4, <2>5, WInvKept
<1>3. ASSUME NEW p \in Putters, PutThrows(p) PROVE WInv'
  <2>1. PICK d : d = put[p].d
    OBVIOUS
  <2>2. BlobsGrow
    BY <1>t, <1>3, <2>1, ThrowEffect
  <2>3. put[p].pc # "idle" /\ put' = [put EXCEPT ![p].pc = "failed"] /\ UNCHANGED <<refs, writer>>
    BY <1>3 DEF PutThrows
  <2>4. /\ put' \in [Putters -> PutRec]
        /\ \A q \in Putters : put'[q].d = put[q].d /\ put'[q].pc = (IF q = p THEN "failed" ELSE put[q].pc)
        /\ \A q \in Putters : put'[q].pc # "idle" => put'[q].d \in Values
    BY <1>t, <2>3, PutMoves
  <2>5. \A q \in Putters : put'[q].pc = "ok" => put[q].pc = "ok" /\ put'[q].d = put[q].d
    BY <2>4
  <2> QED
    BY <2>2, <2>3, <2>4, <2>5, WInvKept
<1>4. ASSUME NEW p \in Putters, PutAgain(p) PROVE WInv'
  <2>1. put[p].pc # "idle" /\ put' = [put EXCEPT ![p].pc = "write"] /\ UNCHANGED <<rows, chunks, refs, writer>>
    BY <1>4 DEF PutAgain
  <2>2. /\ put' \in [Putters -> PutRec]
        /\ \A q \in Putters : put'[q].d = put[q].d /\ put'[q].pc = (IF q = p THEN "write" ELSE put[q].pc)
        /\ \A q \in Putters : put'[q].pc # "idle" => put'[q].d \in Values
    BY <1>t, <2>1, PutMoves
  <2>3. \A q \in Putters : put'[q].pc = "ok" => put[q].pc = "ok" /\ put'[q].d = put[q].d
    BY <2>2
  <2> QED
    BY <1>t, <2>1, <2>2, <2>3, StillGrows, WInvKept
<1>5. ASSUME NEW w \in Writers, NEW n \in Names, ListRefs(w, n) PROVE WInv'
  <2>1. PICK s : s = [pc |-> "saw", name |-> n, saw |-> refs[n]]
    OBVIOUS
  <2>2. s \in WriterRec /\ s.pc = "saw" /\ s.name = n
    BY <1>t, <2>1 DEF WriterRec, WTypes
  <2>3. writer' = [writer EXCEPT ![w] = s] /\ UNCHANGED <<rows, chunks, refs, put>>
    BY <1>5, <2>1 DEF ListRefs
  <2>4. /\ writer' \in [Writers -> WriterRec] /\ refs' \in [Names -> Values \cup {NoDigest}]
        /\ \A u \in Writers : writer'[u].pc = "saw" => writer'[u].name \in Names
    BY <1>t, <2>2, <2>3 DEF WTypes
  <2> QED
    BY <2>3, <2>4, RefsKept
<1>6. ASSUME NEW w \in Writers, NEW d \in Values, Cas(w, d) PROVE WInv'
  <2>1. PICK s : s = [writer[w] EXCEPT !.pc = "idle"]
    OBVIOUS
  <2>2. writer[w] \in WriterRec
    BY <1>t DEF WTypes
  <2>3. s \in WriterRec /\ s.pc = "idle"
    BY <2>1, <2>2 DEF WriterRec
  <2>4. writer' = [writer EXCEPT ![w] = s] /\ UNCHANGED <<rows, chunks, put>>
    BY <1>6, <2>1 DEF Cas
  <2>5. refs' \in [Names -> Values \cup {NoDigest}]
    BY <1>t, <1>6 DEF WTypes, Cas
  <2>6. /\ writer' \in [Writers -> WriterRec]
        /\ \A u \in Writers : writer'[u].pc = "saw" => writer'[u].name \in Names
    BY <1>t, <2>3, <2>4 DEF WTypes
  <2> QED
    BY <2>4, <2>5, <2>6, RefsKept
<1> QED
  BY <1>1, <1>2, <1>3, <1>4, <1>5, <1>6 DEF WNext

\* The chunks of every digest are a prefix of its value's, and all rows of a
\* put that answered are there, at every moment.
THEOREM BlobInvariant == WSpec => []WInv
<1>1. WInv /\ [WNext]_wVars => WInv'
  <2>1. ASSUME WInv, UNCHANGED wVars PROVE WInv'
    BY <2>1 DEF WInv, WTypes, ChunksFit, Complete, wVars
  <2> QED
    BY <2>1, WInvStep
<1> QED
  BY WInvInit, <1>1, PTL DEF WSpec

\* A value whose put was answered is read back byte for byte, and what get
\* returns of a digest is never anything but a prefix of its value, whatever
\* puts failed after some of their chunks, for chunks of any size.
THEOREM BlobAnsweredReadsBack == WSpec => []AnsweredReadsBack
BY BlobInvariant, ReadsBack, PTL

(***************************************************************************)
(* The tables implement the promise.  The condition of a digest follows    *)
(* from its rows, in the state before a step and in the one after it.      *)
(***************************************************************************)

HeldBy(d) == IF Complete(d) THEN "whole" ELSE IF chunks[d] = <<>> THEN "absent" ELSE "torn"

LEMMA HeldByRows == WTypes /\ ChunksFit => \A d \in Values : Held(d) = HeldBy(d)
BY HeldIs DEF HeldBy

LEMMA HeldByRowsNext ==
    ASSUME WInv, WInv'
    PROVE  \A d \in Values : Held(d) = HeldBy(d) /\ Held(d)' = HeldBy(d)'
<1>1. (WTypes /\ ChunksFit => \A d \in Values : Held(d) = HeldBy(d))'
  BY HeldByRows, PTL
<1> QED
  BY <1>1, HeldByRows DEF WInv

\* The mapped variables, under names of their own.
HeldBar == [d \in Values |-> Held(d)]
AckedBar == [p \in Putters |-> IF put[p].pc = "ok" THEN put[p].d ELSE NoDigest]
SeenBar == [w \in Writers |-> IF writer[w].pc = "saw" THEN <<writer[w].name, writer[w].saw>> ELSE NoDigest]

LEMMA SameRowsHeldSame ==
    ASSUME UNCHANGED <<rows, chunks>>
    PROVE  HeldBar' = HeldBar
BY DEF HeldBar, Held, Has, Get, GetChunked

LEMMA PutIsPutSucceeds ==
    ASSUME WInv, WInv', NEW p \in Putters, Put(p)
    PROVE  \E d \in Values : /\ HeldBar' = [HeldBar EXCEPT ![d] = "whole"]
                             /\ AckedBar' = [AckedBar EXCEPT ![p] = d]
                             /\ UNCHANGED <<refs, SeenBar>>
<1>1. PICK d : d = put[p].d
  OBVIOUS
<1>2. /\ d \in Values /\ Complete(d)'
      /\ \A e \in Values : e # d => (e \in rows' <=> e \in rows) /\ chunks'[e] = chunks[e]
  BY <1>1, PutEffect DEF WInv
<1>3. \A e \in Values : e # d => HeldBy(e)' = HeldBy(e)
  BY <1>2 DEF HeldBy, Complete
<1>4. HeldBy(d)' = "whole"
  BY <1>2 DEF HeldBy
<1>5. \A e \in Values : Held(e)' = IF e = d THEN "whole" ELSE Held(e)
  BY <1>3, <1>4, HeldByRowsNext
<1>6. HeldBar' = [HeldBar EXCEPT ![d] = "whole"]
  BY <1>2, <1>5 DEF HeldBar
<1>7. \A q \in Putters : put'[q].d = put[q].d /\ put'[q].pc = (IF q = p THEN "ok" ELSE put[q].pc)
  BY PutMoves DEF Put, WInv
<1>8. AckedBar' = [AckedBar EXCEPT ![p] = d]
  BY <1>1, <1>7 DEF AckedBar
<1> QED
  BY <1>2, <1>6, <1>8 DEF Put, SeenBar

LEMMA ThrowIsPutFails ==
    ASSUME WInv, WInv', NEW p \in Putters, PutThrows(p)
    PROVE  /\ \/ HeldBar' = HeldBar
              \/ \E d \in Values : HeldBar[d] = "absent" /\ HeldBar' = [HeldBar EXCEPT ![d] = "torn"]
           /\ UNCHANGED <<AckedBar, refs, SeenBar>>
<1>1. PICK d : d = put[p].d
  OBVIOUS
<1>2. /\ d \in Values /\ rows' = rows
      /\ \A e \in Values : e # d => chunks'[e] = chunks[e]
      /\ chunks[d] # <<>> => chunks'[d] # <<>>
      /\ Complete(d)' <=> Complete(d)
  BY <1>1, ThrowEffect DEF WInv
<1>3. \A e \in Values : e # d => HeldBy(e)' = HeldBy(e)
  BY <1>2 DEF HeldBy, Complete
<1>4. HeldBy(d)' = HeldBy(d) \/ (HeldBy(d) = "absent" /\ HeldBy(d)' = "torn")
  BY <1>2 DEF HeldBy
<1>5. HeldBy(d)' = HeldBy(d) => HeldBar' = HeldBar
  <2> SUFFICES ASSUME HeldBy(d)' = HeldBy(d) PROVE HeldBar' = HeldBar
    OBVIOUS
  <2>1. \A e \in Values : Held(e)' = Held(e)
    BY <1>3, HeldByRowsNext
  <2> QED
    BY <2>1 DEF HeldBar
<1>6. ASSUME HeldBy(d) = "absent", HeldBy(d)' = "torn"
      PROVE  HeldBar[d] = "absent" /\ HeldBar' = [HeldBar EXCEPT ![d] = "torn"]
  <2>1. Held(d) = "absent" /\ \A e \in Values : Held(e)' = IF e = d THEN "torn" ELSE Held(e)
    BY <1>2, <1>3, <1>6, HeldByRowsNext
  <2> QED
    BY <1>2, <2>1 DEF HeldBar
<1>7. \A q \in Putters : put'[q].d = put[q].d /\ put'[q].pc = (IF q = p THEN "failed" ELSE put[q].pc)
  BY PutMoves DEF PutThrows, WInv
<1>8. put[p].pc # "ok"
  BY DEF PutThrows
<1>9. AckedBar' = AckedBar
  BY <1>7, <1>8 DEF AckedBar
<1>10. HeldBar' = HeldBar \/ \E e \in Values : HeldBar[e] = "absent" /\ HeldBar' = [HeldBar EXCEPT ![e] = "torn"]
  BY <1>2, <1>4, <1>5, <1>6
<1> QED
  BY <1>9, <1>10 DEF PutThrows, SeenBar

LEMMA ListIsSee ==
    ASSUME WInv, NEW w \in Writers, NEW n \in Names, ListRefs(w, n)
    PROVE  SeenBar' = [SeenBar EXCEPT ![w] = <<n, refs[n]>>] /\ UNCHANGED <<HeldBar, AckedBar, refs>>
<1>1. writer \in [Writers -> WriterRec]
  BY DEF WInv, WTypes
<1>2. PICK s : s = [pc |-> "saw", name |-> n, saw |-> refs[n]]
  OBVIOUS
<1>3. writer' = [writer EXCEPT ![w] = s] /\ s.pc = "saw" /\ s.name = n /\ s.saw = refs[n]
  BY <1>2 DEF ListRefs
<1>4. SeenBar' = [SeenBar EXCEPT ![w] = <<n, refs[n]>>]
  BY <1>1, <1>3 DEF SeenBar
<1> QED
  BY <1>4, SameRowsHeldSame DEF ListRefs, AckedBar

\* Compare-and-swap moves the ref on what the client saw, or answers that it
\* is not so any more.
LEMMA CasIsSwapOrRefuse ==
    ASSUME WInv, NEW w \in Writers, NEW next \in Values, Cas(w, next)
    PROVE  \E n \in Names :
             /\ SeenBar' = [SeenBar EXCEPT ![w] = NoDigest]
             /\ UNCHANGED <<HeldBar, AckedBar>>
             /\ \/ SeenBar[w] = <<n, refs[n]>> /\ refs' = [refs EXCEPT ![n] = next]
                \/ SeenBar[w] # NoDigest /\ SeenBar[w] # <<n, refs[n]>> /\ UNCHANGED refs
<1>1. writer \in [Writers -> WriterRec] /\ writer[w].pc = "saw"
  BY DEF WInv, WTypes, Cas
<1>2. PICK n, v : n = writer[w].name /\ v = writer[w].saw
  OBVIOUS
<1>3. n \in Names /\ v \in Values \cup {NoDigest}
  BY <1>1, <1>2 DEF WInv, WTypes, WriterRec
<1>4. SeenBar[w] = <<n, v>>
  BY <1>1, <1>2 DEF SeenBar
<1>5. SeenBar[w] # NoDigest
  BY <1>3, <1>4, WorkerdAssumption
<1>6. PICK s : s = [writer[w] EXCEPT !.pc = "idle"]
  OBVIOUS
<1>7. writer' = [writer EXCEPT ![w] = s] /\ s.pc = "idle"
  BY <1>1, <1>6 DEF Cas, WriterRec
<1>8. SeenBar' = [SeenBar EXCEPT ![w] = NoDigest]
  BY <1>1, <1>7 DEF SeenBar
<1>9. IF refs[n] = v THEN refs' = [refs EXCEPT ![n] = next] ELSE refs' = refs
  BY <1>2 DEF Cas, CasMatches
<1>10. UNCHANGED <<HeldBar, AckedBar>>
  BY SameRowsHeldSame DEF Cas, AckedBar
<1> QED
  BY <1>3, <1>4, <1>5, <1>8, <1>9, <1>10

\* A call of put that begins, or begins again, shows nothing.
LEMMA BeginsUnseen ==
    ASSUME WInv, NEW p \in Putters, (\E v \in Values : DigestBytes(p, v)) \/ PutAgain(p)
    PROVE  UNCHANGED <<HeldBar, AckedBar, refs, SeenBar>>
<1>1. put \in [Putters -> PutRec]
  BY DEF WInv, WTypes
<1>2. /\ \A q \in Putters : q # p => put'[q] = put[q]
      /\ put[p].pc # "ok" /\ put'[p].pc # "ok"
      /\ UNCHANGED <<rows, chunks, refs, writer>>
  <2>1. CASE \E v \in Values : DigestBytes(p, v)
    BY <1>1, <2>1 DEF DigestBytes
  <2>2. CASE PutAgain(p)
    BY <1>1, <2>2 DEF PutAgain, PutRec
  <2> QED
    BY <2>1, <2>2
<1>3. AckedBar' = AckedBar
  BY <1>2 DEF AckedBar
<1> QED
  BY <1>2, <1>3, SameRowsHeldSame DEF SeenBar

LEMMA StepKeepsPromise ==
    ASSUME WInv, WInv', WNext
    PROVE  Promise!PNext \/ UNCHANGED Promise!pVars
<1> USE DEF HeldBar, AckedBar, SeenBar
<1>1. ASSUME NEW p \in Putters, Put(p) PROVE Promise!PNext
  <2>1. \E d \in Values : Promise!PutSucceeds(p, d)
    BY <1>1, PutIsPutSucceeds DEF Promise!PutSucceeds
  <2> QED
    BY <2>1 DEF Promise!PNext
<1>2. ASSUME NEW p \in Putters, PutThrows(p) PROVE Promise!PNext \/ UNCHANGED Promise!pVars
  <2>1. (\E d \in Values : Promise!PutFails(d)) \/ UNCHANGED Promise!pVars
    BY <1>2, ThrowIsPutFails DEF Promise!PutFails, Promise!pVars
  <2> QED
    BY <2>1 DEF Promise!PNext
<1>3. ASSUME NEW p \in Putters, (\E v \in Values : DigestBytes(p, v)) \/ PutAgain(p)
      PROVE  UNCHANGED Promise!pVars
  BY <1>3, BeginsUnseen DEF Promise!pVars
<1>4. ASSUME NEW w \in Writers, NEW n \in Names, ListRefs(w, n) PROVE Promise!PNext
  <2>1. Promise!See(w, n)
    BY <1>4, ListIsSee DEF Promise!See
  <2> QED
    BY <2>1 DEF Promise!PNext
<1>5. ASSUME NEW w \in Writers, NEW d \in Values, Cas(w, d) PROVE Promise!PNext
  <2>1. \E n \in Names : Promise!Swap(w, n, d) \/ Promise!Refuse(w, n)
    <3>1. PICK n \in Names :
            /\ SeenBar' = [SeenBar EXCEPT ![w] = NoDigest]
            /\ UNCHANGED <<HeldBar, AckedBar>>
            /\ \/ SeenBar[w] = <<n, refs[n]>> /\ refs' = [refs EXCEPT ![n] = d]
               \/ SeenBar[w] # NoDigest /\ SeenBar[w] # <<n, refs[n]>> /\ UNCHANGED refs
      BY <1>5, CasIsSwapOrRefuse
    <3>2. CASE SeenBar[w] = <<n, refs[n]>> /\ refs' = [refs EXCEPT ![n] = d]
      BY <3>1, <3>2 DEF Promise!Swap
    <3>3. CASE SeenBar[w] # NoDigest /\ SeenBar[w] # <<n, refs[n]>> /\ UNCHANGED refs
      BY <3>1, <3>3 DEF Promise!Refuse
    <3> QED
      BY <3>1, <3>2, <3>3
  <2> QED
    BY <2>1 DEF Promise!PNext
<1> QED
  BY <1>1, <1>2, <1>3, <1>4, <1>5 DEF WNext

\* The tables keep the promise of BlobPromise: no answered put is ever lost, a
\* put that fails tears at most a digest that was absent, and a ref moves only
\* from the value its client has seen.
THEOREM BlobPromiseKept == WSpec => PromiseKept
<1>1. WInit => Promise!PInit
  <2> SUFFICES ASSUME WInit PROVE Promise!PInit
    OBVIOUS
  <2>1. \A d \in Values : Held(d) = "absent"
    BY DEF WInit, Held, Has
  <2>2. \A p \in Putters : put[p].pc = "idle"
    BY DEF WInit
  <2>3. \A w \in Writers : writer[w].pc = "idle"
    BY DEF WInit
  <2> QED
    BY <2>1, <2>2, <2>3 DEF WInit, Promise!PInit
<1>2. WInv /\ WInv' /\ [WNext]_wVars => [Promise!PNext]_(Promise!pVars)
  <2>1. ASSUME UNCHANGED wVars PROVE UNCHANGED Promise!pVars
    BY <2>1 DEF wVars, Promise!pVars, Held, Has, Get, GetChunked
  <2> QED
    BY <2>1, StepKeepsPromise
<1> QED
  BY <1>1, <1>2, BlobInvariant, PTL DEF WSpec, PromiseKept, Promise!PSpec

=============================================================================
