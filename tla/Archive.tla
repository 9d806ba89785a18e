------------------------------ MODULE Archive ------------------------------
(***************************************************************************)
(* The archive of the TrustStore: the receipts it keeps (peer_receipts),   *)
(* the keys they are verified with, one per epoch (actor_ca_bundle), the   *)
(* alarm that prunes receipts of epochs long retired, and what an auditor  *)
(* makes of a receipt who reads the row of its epoch.                      *)
(*                                                                         *)
(* Time is in units of which Retention make the retention window.  The     *)
(* object is constructed by the first call, may be evicted at any moment,  *)
(* and keeps its tables and its alarm.                                     *)
(***************************************************************************)
EXTENDS Integers, FiniteSets

CONSTANTS
    ReceiptHashes,      \* request hashes
    NumEpochs,   \* bound: the epochs are 1..NumEpochs
    Retention,   \* DEFAULT_RECEIPT_RETENTION_MS
    MaxDay,      \* bound on the clock
    Null         \* no row, no time, no notice

BundleEpochs == 1..NumEpochs
Days == 0..MaxDay

\* A notice says that the key of epoch `of` leaked at `at`; `by` is the epoch
\* whose key signed it.
Notices == [of : BundleEpochs, by : BundleEpochs, at : Days]

CaBundleEntry == [status : {"active", "retired"}, retiredAt : Days \cup {Null},
                  notice : Notices \cup {Null}]

Receipt == [hash : ReceiptHashes, direction : {"in", "out"}, epoch : BundleEpochs]

ASSUME ArchiveAssumption ==
    /\ NumEpochs \in Nat /\ Retention \in Nat /\ MaxDay \in Nat
    /\ Null \notin Days \cup Notices \cup CaBundleEntry

VARIABLES
    day,       \* Date.now()
    bundle,    \* actor_ca_bundle
    receipts,  \* peer_receipts
    alarm,     \* whether an alarm is scheduled
    live,      \* whether the object is in memory
    \* History, which the program does not keep:
    lastUse,   \* the last day each epoch was in use
    due,       \* the receipts of this actor an audit may still ask for
    signed     \* the notices the actor's own keys signed

aVars == <<day, bundle, receipts, alarm, live, lastUse, due, signed>>

ATypeOK ==
    /\ day \in Days
    /\ bundle \in [BundleEpochs -> CaBundleEntry \cup {Null}]
    /\ receipts \subseteq Receipt /\ due \subseteq Receipt
    /\ alarm \in BOOLEAN /\ live \in BOOLEAN
    /\ lastUse \in [BundleEpochs -> Days]
    /\ signed \subseteq Notices

AInit ==
    /\ day = 0
    /\ bundle = [e \in BundleEpochs |-> Null]
    /\ receipts = {} /\ due = {}
    /\ alarm = FALSE /\ live = FALSE
    /\ lastUse = [e \in BundleEpochs |-> 0]
    /\ signed = {}

\* An epoch was in use within the retention window.
InWindow(use, now, e) == use[e] + Retention >= now

------------------------------------------------------------------------------
(* The object and its alarm. *)

EnsureAlarmScheduled == alarm' = TRUE

\* The constructor; every call below waits for it.
Construct ==
    /\ ~live
    /\ live' = TRUE
    /\ EnsureAlarmScheduled
    /\ UNCHANGED <<day, bundle, receipts, lastUse, due, signed>>

Evict ==
    /\ live
    /\ live' = FALSE
    /\ UNCHANGED <<day, bundle, receipts, alarm, lastUse, due, signed>>

\* As if retired_at_ms alone told a retired epoch.
ExpiredWhateverStatus(e) ==
    /\ bundle[e] # Null
    /\ bundle[e].retiredAt # Null
    /\ bundle[e].retiredAt + Retention < day

Expired(e) ==
    /\ bundle[e] # Null
    /\ bundle[e].status = "retired"
    /\ bundle[e].retiredAt # Null
    /\ bundle[e].retiredAt + Retention < day

PruneExpiredReceipts == {r \in receipts : ~(r.direction = "out" /\ Expired(r.epoch))}

\* The alarm fires, in memory or not, and sets itself again.  The prune may
\* fail, which is caught; setting the alarm may fail, and then the platform
\* calls the handler again or gives up.
Alarm(pruned, rearmed) ==
    /\ alarm
    /\ live' = TRUE
    /\ receipts' = IF pruned THEN PruneExpiredReceipts ELSE receipts
    /\ alarm' \in IF rearmed THEN {TRUE} ELSE BOOLEAN
    /\ UNCHANGED <<day, bundle, lastUse, due, signed>>

------------------------------------------------------------------------------
(* The calls that write the tables. *)

\* ON CONFLICT (actor_fp, request_hash, direction) DO UPDATE.
UpsertReceipt(h, d, e) ==
    LET r == [hash |-> h, direction |-> d, epoch |-> e]
        Others(s) == {q \in s : ~(q.hash = h /\ q.direction = d)}
    IN  /\ live
        /\ receipts' = Others(receipts) \cup {r}
        /\ due' = Others(due) \cup (IF d = "out" /\ InWindow(lastUse, day, e) THEN {r} ELSE {})
        /\ UNCHANGED <<day, bundle, alarm, live, lastUse, signed>>

\* The whole row is the operator's, who gives a retired epoch no time of
\* retirement, or one that is not before its last use, and may leave the time
\* there when an epoch is taken into use again.
UpsertCaBundle(e, row) ==
    /\ live
    /\ row.retiredAt \in {Null} \cup (IF row.status = "retired" THEN lastUse[e]..day
                                     ELSE IF bundle[e] # Null THEN {bundle[e].retiredAt} ELSE {})
    /\ bundle' = [bundle EXCEPT ![e] = row]
    /\ lastUse' = [lastUse EXCEPT ![e] = IF row.status = "active" THEN day ELSE @]
    /\ UNCHANGED <<day, receipts, alarm, live, due, signed>>

\* As if a row were made for an epoch that has none.
AttachUpserts(e, n) ==
    /\ live
    /\ bundle' = [bundle EXCEPT ![e] = IF @ = Null THEN [status |-> Null, retiredAt |-> Null, notice |-> n]
                                       ELSE [@ EXCEPT !.notice = n]]
    /\ UNCHANGED <<day, receipts, alarm, live, lastUse, due, signed>>

\* The notice is attached as it is; false without a row.
AttachCompromiseNotice(e, n) ==
    /\ live /\ bundle[e] # Null
    /\ bundle' = [bundle EXCEPT ![e].notice = n]
    /\ UNCHANGED <<day, receipts, alarm, live, lastUse, due, signed>>

\* The actor signs with the key after the leaked one.
SignCompromiseNotice(e, at) ==
    /\ e + 1 \in BundleEpochs
    /\ signed' = signed \cup {[of |-> e, by |-> e + 1, at |-> at]}
    /\ UNCHANGED <<day, bundle, receipts, alarm, live, lastUse, due>>

NextDay ==
    /\ day < MaxDay
    /\ day' = day + 1
    /\ lastUse' = [e \in BundleEpochs |->
         IF bundle[e] = Null \/ bundle[e].status = "active" THEN day + 1 ELSE lastUse[e]]
    /\ due' = {r \in due : InWindow(lastUse', day', r.epoch)}
    /\ UNCHANGED <<bundle, receipts, alarm, live, signed>>

------------------------------------------------------------------------------
(* The auditor. *)

\* The entries GET /interlace/ca-bundle serves, by epoch.
Served == [e \in {x \in BundleEpochs : bundle[x] # Null} |-> bundle[e]]

\* As if a notice need not be signed by the key after the leaked one.
VerifyFingerprintOnly(e, n) == n.of = e

VerifyCompromiseNotice(e, n) == n.by = e + 1 /\ n.of = e

\* verifyReceiptVArchival of a receipt of the epoch and the time, signed as it
\* should be, by the entry of the epoch in the index.
Trusted(entry, e, t) ==
    ~(entry.notice # Null /\ VerifyCompromiseNotice(e, entry.notice) /\ t >= entry.notice.at)

------------------------------------------------------------------------------
\* A notice that is shown: one the actor signed, or one whose signature is by
\* a key of no account here, that of the leaked epoch itself.
Shown == signed \cup [of : BundleEpochs, by : {1}, at : {0}]

ANext ==
    \/ Construct \/ Evict \/ NextDay
    \/ \E pruned, rearmed \in BOOLEAN : Alarm(pruned, rearmed)
    \/ \E h \in ReceiptHashes, d \in {"in", "out"}, e \in BundleEpochs : UpsertReceipt(h, d, e)
    \/ \E e \in BundleEpochs, row \in [status : {"active", "retired"}, retiredAt : Days \cup {Null},
                                 notice : {Null}] : UpsertCaBundle(e, row)
    \/ \E e \in BundleEpochs, n \in Shown : AttachCompromiseNotice(e, n)
    \/ \E e \in BundleEpochs, at \in Days : SignCompromiseNotice(e, at)

ASpec == AInit /\ [][ANext]_aVars

------------------------------------------------------------------------------
\* pruneExpiredReceipts: a receipt this actor emitted is kept while its epoch is
\* in use and for the retention window after, whatever the operator does to the
\* epochs' rows and whenever the alarm fires.
AuditWindow == due \subseteq receipts

\* A receipt is distrusted only on the actor's own word: its next key signed
\* that the key of this very epoch had leaked by then.  The store takes any
\* notice for any epoch.
DistrustIsGrounded ==
    \A e \in BundleEpochs, t \in Days :
       e \in DOMAIN Served /\ ~Trusted(Served[e], e, t) =>
          \E n \in signed : n.of = e /\ n.by = e + 1 /\ t >= n.at

\* The archive is one to be relied on: receipts are there for the audit, and
\* are distrusted on the actor's word alone.
ArchiveHolds == AuditWindow /\ DistrustIsGrounded
=============================================================================
